---------------------------- MODULE AccessControl ----------------------------
(***************************************************************************)
(* Users and roles of the console (internal/auth/session.go, repo/auth.go).*)
(* A role's permissions are reduced to one question: does it hold          *)
(* rbac.manage, the permission to edit users and roles?  UpdateUser and    *)
(* UpsertRole refuse a change that would leave no enabled user with it;    *)
(* they read, decide, and write later, without a lock or a transaction.    *)
(***************************************************************************)
EXTENDS Naturals, FiniteSets

CONSTANTS
  AccUsers, AccRoot,   \* user names; the one SeedDefaults inserts
  AccRoles, AccAdmin,  \* role codes; the built-in one that keeps rbac.manage
  AccCallers,          \* requests in flight at one time
  AccKeep,             \* a field the request does not name
  MaxAccFaults         \* bound: failing reads

ASSUME AccAssumption ==
  /\ IsFiniteSet(AccUsers) /\ AccRoot \in AccUsers /\ AccAdmin \in AccRoles
  /\ AccKeep \notin [role : AccRoles, enabled : BOOLEAN]

VARIABLES
  accUser,    \* auth_users: the role and whether it may log in, or AccKeep: no row
  accRole,    \* auth_roles and their permissions: "absent", "plain" or "managing"
  accCall,    \* each request: the write it has decided on
  accDoubt,   \* history: the last manager went while requests overlapped or a read failed
  accFaults   \* counter for the bound

accessVars == <<accUser, accRole, accCall, accDoubt, accFaults>>

AccIdle == [op |-> "idle"]
UserRow(role, enabled) == [role |-> role, enabled |-> enabled]

AccessInit ==
  /\ accUser = [u \in AccUsers |-> IF u = AccRoot THEN UserRow(AccAdmin, TRUE) ELSE AccKeep]
  /\ accRole = [r \in AccRoles |-> IF r = AccAdmin THEN "managing" ELSE "absent"]
  /\ accCall = [c \in AccCallers |-> AccIdle]
  /\ accDoubt = FALSE /\ accFaults = 0

Manages(role) == accRole[role] = "managing"
ExistingRoles == {r \in AccRoles : accRole[r] # "absent"}
AccExisting == {u \in AccUsers : accUser[u] # AccKeep}

(* CountEnabledUsersWithPermission and the users the guard of a role finds.*)
Managers == {u \in AccExisting : accUser[u].enabled /\ Manages(accUser[u].role)}
EnabledIn(role) == {u \in AccExisting : accUser[u].enabled /\ accUser[u].role = role}

(* UpdateUser's refusals.  A failed read of the role's permissions reads   *)
(* as "none": then neither refusal applies.                                *)
UserChangeAllowed(u, role, enabled, self) ==
  LET losesRole == role # AccKeep /\ Manages(accUser[u].role) /\ ~Manages(role)
      losesLogin == enabled = FALSE /\ Manages(accUser[u].role) IN
  /\ losesRole \/ losesLogin => Cardinality(Managers) > 1
  /\ ~(losesRole /\ self)

(* Mutant: any manager left is enough, also one of this very role.         *)
SomeManagerLeft(role, kind) == Manages(role) /\ kind = "plain" => Cardinality(Managers) > 1

(* guardLastRBACManageRole.                                                *)
RoleChangeAllowed(role, kind) ==
  Manages(role) /\ kind = "plain" => Cardinality(Managers) > Cardinality(EnabledIn(role))

(* A request decides; while others are in flight nobody is alone.          *)
AccDecide(c, call) ==
  LET others == {d \in AccCallers \ {c} : accCall[d] # AccIdle} IN
  /\ accCall[c] = AccIdle
  /\ accCall' = [d \in AccCallers |->
       IF d = c THEN [call EXCEPT !.alone = @ /\ others = {}]
       ELSE IF d \in others THEN [accCall[d] EXCEPT !.alone = FALSE] ELSE AccIdle]
  /\ UNCHANGED <<accUser, accDoubt>>

(* CreateUser: the role exists and the name is free.                       *)
AccCreateUser(c, u, role) ==
  /\ u \notin AccExisting /\ role \in ExistingRoles
  /\ AccDecide(c, [op |-> "insert", user |-> u, role |-> role, enabled |-> TRUE, alone |-> TRUE])
  /\ UNCHANGED <<accRole, accFaults>>

(* UpdateUser and SetUserRole up to the write.                             *)
UpdateCall(u, role, enabled, alone) ==
  [op |-> "user", user |-> u, role |-> role, enabled |-> enabled, alone |-> alone]

AccUpdateUser(c, u, role, enabled, self) ==
  /\ u \in AccExisting /\ role \in ExistingRoles \cup {AccKeep}
  /\ role # AccKeep \/ enabled # AccKeep
  /\ ~(self /\ enabled = FALSE)
  /\ UserChangeAllowed(u, role, enabled, self)
  /\ AccDecide(c, UpdateCall(u, role, enabled, TRUE))
  /\ UNCHANGED <<accRole, accFaults>>

AccUpdateUserBlind(c, u, role, enabled) ==
  /\ accFaults < MaxAccFaults /\ accFaults' = accFaults + 1
  /\ u \in AccExisting /\ role \in ExistingRoles \cup {AccKeep}
  /\ role # AccKeep \/ enabled # AccKeep
  /\ AccDecide(c, UpdateCall(u, role, enabled, FALSE))
  /\ UNCHANGED accRole

(* UpsertRole inserts the role, still without permissions, or decides on   *)
(* the change of one that exists.                                          *)
AccUpsertRole(c, role, kind) ==
  /\ role = AccAdmin => kind = "managing"
  /\ RoleChangeAllowed(role, kind)
  /\ accRole' = IF role \in ExistingRoles THEN accRole ELSE [accRole EXCEPT ![role] = "plain"]
  /\ AccDecide(c, [op |-> "role", role |-> role, kind |-> kind, alone |-> TRUE])
  /\ UNCHANGED accFaults

(* The one UPDATE of the named columns, the insertion of a user, and the   *)
(* transaction of ReplaceRolePermissions.                                  *)
Given(old, new) == IF new = AccKeep THEN old ELSE new

AccWrite(c) ==
  LET call == accCall[c] IN
  /\ CASE call.op = "user" ->
            /\ accUser' = [accUser EXCEPT ![call.user].role = Given(@, call.role),
                                          ![call.user].enabled = Given(@, call.enabled)]
            /\ UNCHANGED accRole
       [] call.op = "insert" ->
            /\ accUser' = IF call.user \in AccExisting THEN accUser
                          ELSE [accUser EXCEPT ![call.user] = UserRow(call.role, TRUE)]
            /\ UNCHANGED accRole
       [] call.op = "role" -> accRole' = [accRole EXCEPT ![call.role] = call.kind]
                              /\ UNCHANGED accUser
       [] OTHER -> FALSE
  /\ accCall' = [accCall EXCEPT ![c] = AccIdle]
  /\ accDoubt' = ((accDoubt \/ ~call.alone) /\ Managers' = {})
  /\ UNCHANGED accFaults

AccessNext ==
  \E c \in AccCallers :
    \/ \E u \in AccUsers :
         \/ \E role \in AccRoles : AccCreateUser(c, u, role)
         \/ \E role \in AccRoles \cup {AccKeep}, enabled \in BOOLEAN \cup {AccKeep} :
              \/ \E self \in BOOLEAN : AccUpdateUser(c, u, role, enabled, self)
              \/ AccUpdateUserBlind(c, u, role, enabled)
    \/ \E role \in AccRoles, kind \in {"plain", "managing"} : AccUpsertRole(c, role, kind)
    \/ AccWrite(c)

-----------------------------------------------------------------------------
AccessSpec == AccessInit /\ [][AccessNext]_accessVars

(* An enabled user with rbac.manage remains after any sequence of role     *)
(* moves, disablings and edits of role permissions, unless requests        *)
(* overlapped between decision and write or a read failed.                 *)
ManagerRemains == accDoubt \/ Managers # {}
=============================================================================
