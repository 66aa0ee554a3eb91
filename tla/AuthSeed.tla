------------------------------- MODULE AuthSeed -------------------------------
(***************************************************************************)
(* The seeding of the console's permissions, roles and first users         *)
(* (internal/auth/seed.go), which every API process does before it serves. *)
(* Each statement is a step, none is in a transaction with the next, and   *)
(* several processes may start at one time.  An error ends the process; it *)
(* is started again.                                                       *)
(***************************************************************************)
EXTENDS Naturals, Sequences, FiniteSets

CONSTANTS
  SedProcs,     \* API processes, all of one version
  SedCatalog,   \* BuiltinPermissionCatalog: its codes, in order
  SedPrevious,  \* the codes of the version before
  SedDefs,      \* DefaultRoleDefs: role -> its codes
  SedViewer,    \* the role given to an account whose role is not there
  SedAccounts,  \* auth.users: account -> its role; Seed fails without any
  SedNone,      \* no such account
  MaxSedStops, MaxSedEdits, MaxSedFaults  \* bounds: crashes, changes of a role, failing look-ups

SedRoles == DOMAIN SedDefs
SedNames == DOMAIN SedAccounts
SedCodes == {SedCatalog[i] : i \in DOMAIN SedCatalog}

ASSUME SeedAssumption ==
  /\ SedCatalog \in Seq(SedCodes) /\ SedPrevious \subseteq SedCodes
  /\ SedDefs \in [SedRoles -> SUBSET SedCodes] /\ SedViewer \in SedRoles
  /\ SedAccounts \in [SedNames -> SedRoles] /\ SedNames # {}
  /\ SedNone \notin SedRoles \cup SedNames

VARIABLES
  sedPerm,    \* auth_permissions
  sedRole,    \* auth_roles
  sedGrant,   \* auth_role_permissions: role -> codes
  sedUser,    \* auth_users: account -> role
  sedProc,    \* each process: its step and what it has read
  sedRevoked, \* history: <<role, code>> an administrator took away
  sedUnsure,  \* history: <<role, code>> left open by a stop or by two seeds at once
  sedSkipped, \* history: accounts left open in the same way
  sedStops, sedEdits, sedFaults  \* counters for the bounds

sedTables == <<sedPerm, sedRole, sedGrant, sedUser>>
sedHistory == <<sedRevoked, sedUnsure, sedSkipped>>
sedCounters == <<sedStops, sedEdits, sedFaults>>
seedVars == <<sedTables, sedProc, sedHistory, sedCounters>>

SedAt(step) == [step |-> step, codes |-> <<>>, added |-> {},  \* still to insert, inserted
             items |-> {}, item |-> SedNone,                \* roles or accounts to come, and the one at hand
             known |-> {}, role |-> SedNone]                \* what was read for it

(* An empty database, or the one the version before has seeded.            *)
SeedInit ==
  /\ \/ sedPerm = {} /\ sedRole = {} /\ sedGrant = [r \in SedRoles |-> {}]
        /\ sedUser = [n \in SedNames |-> SedNone]
     \/ sedPerm = SedPrevious /\ sedRole = SedRoles
        /\ sedGrant = [r \in SedRoles |-> SedDefs[r] \cap SedPrevious]
        /\ sedUser = SedAccounts
  /\ sedProc = [p \in SedProcs |-> SedAt("down")]
  /\ sedRevoked = {} /\ sedUnsure = {} /\ sedSkipped = {}
  /\ sedStops = 0 /\ sedEdits = 0 /\ sedFaults = 0

Seeding == {p \in SedProcs : sedProc[p].step \notin {"down", "serving"}}
InPhase(p, steps) == sedProc[p].step \in steps
SedGo(p, state) == sedProc' = [sedProc EXCEPT ![p] = state]
SedReads(p, state) == SedGo(p, state) /\ UNCHANGED <<sedTables, sedHistory, sedCounters>>

(* Seed: permissions, roles, the codes that are new, users.                *)
SeedOrder == <<"perms", "roles", "sync", "users", "serving">>

SedAfter(phase) ==
  LET i == CHOOSE j \in DOMAIN SeedOrder : SeedOrder[j] = phase IN SeedOrder[i + 1]

SedStart(p) == InPhase(p, {"down"}) /\ SedReads(p, SedAt("perms"))

(* ReplaceRolePermissions, while another process may hold what it read of  *)
(* the role: the later write undoes this one.                              *)
Overwritten(p, role) == {rc \in {role} \X SedCodes :
  \E q \in SedProcs \ {p} : InPhase(q, {"grant"}) /\ sedProc[q].item = role}

ReplaceGrants(p, role, codes) ==
  /\ sedGrant' = [sedGrant EXCEPT ![role] = codes]
  /\ sedUnsure' = sedUnsure \cup Overwritten(p, role)
  /\ UNCHANGED <<sedPerm, sedRole, sedUser, sedRevoked, sedSkipped, sedCounters>>

(* A process that stops leaves codes it inserted and has not granted,      *)
(* roles it has not filled and accounts it has not created; no later seed  *)
(* takes them up, the tables are not empty any more.                       *)
SedStop(p) ==
  LET pr == sedProc[p]
      missing == IF InPhase(p, {"role", "fill"}) THEN pr.items ELSE {}
      roles == IF InPhase(p, {"fill"}) THEN missing \cup {pr.item} ELSE missing
      codes == IF InPhase(p, {"insert", "list", "read", "grant"}) THEN pr.added ELSE {} IN
  /\ SedGo(p, SedAt("down"))
  /\ sedUnsure' = sedUnsure \cup {rc \in SedRoles \X SedCodes : rc[1] \in roles \/ rc[2] \in codes}
  /\ sedSkipped' = sedSkipped
       \cup (IF InPhase(p, {"account", "create"}) THEN (pr.items \cup {pr.item}) \cap SedNames ELSE {})
       \cup {n \in SedNames : SedAccounts[n] \in missing}
  /\ UNCHANGED <<sedTables, sedRevoked, sedEdits, sedFaults>>

SedCrash(p) ==
  /\ p \in Seeding /\ sedStops < MaxSedStops /\ sedStops' = sedStops + 1 /\ SedStop(p)

-----------------------------------------------------------------------------
(* CreatePermission: the code is a unique key.  A code that appears while  *)
(* another process fills the roles is not among those that one knows, and  *)
(* the first phase grants nothing to roles that are there already.         *)
LateFor(p) == \/ InPhase(p, {"catalog"}) /\ sedRole # {}
              \/ \E q \in SedProcs \ {p} : InPhase(q, {"role", "fill"})

InsertCode(p, next) ==
  LET code == Head(sedProc[p].codes) IN
  IF code \in sedPerm THEN SedStop(p) /\ UNCHANGED sedStops
  ELSE /\ sedPerm' = sedPerm \cup {code}
       /\ SedGo(p, [next EXCEPT !.codes = Tail(sedProc[p].codes), !.added = sedProc[p].added \cup {code}])
       /\ sedUnsure' = sedUnsure \cup (IF LateFor(p) THEN SedRoles \X {code} ELSE {})
       /\ UNCHANGED <<sedRole, sedGrant, sedUser, sedRevoked, sedSkipped, sedCounters>>

(* seedPermissionsIfEmpty.                                                 *)
SedCountPermissions(p) ==
  /\ InPhase(p, {"perms"})
  /\ SedReads(p, IF sedPerm # {} THEN SedAt(SedAfter("perms")) ELSE [SedAt("catalog") EXCEPT !.codes = SedCatalog])

SedCreatePermission(p) ==
  /\ InPhase(p, {"catalog"})
  /\ IF sedProc[p].codes = <<>>
     THEN SedReads(p, SedAt(SedAfter("perms")))
     ELSE InsertCode(p, SedAt("catalog"))

(* seedRolesIfEmpty: the codes known now are the ones roles are given.     *)
SedCountRoles(p) ==
  /\ InPhase(p, {"roles"})
  /\ SedReads(p, SedAt(IF sedRole # {} THEN SedAfter("roles") ELSE "known"))

SedKnownCodes(p) ==
  /\ InPhase(p, {"known"})
  /\ SedReads(p, [SedAt("role") EXCEPT !.items = SedRoles, !.known = sedPerm])

SedCreateRole(p, role) ==
  LET pr == sedProc[p] IN
  /\ InPhase(p, {"role"}) /\ role \in pr.items
  /\ IF role \in sedRole THEN SedStop(p) /\ UNCHANGED sedStops
     ELSE /\ sedRole' = sedRole \cup {role}
          /\ SedGo(p, [pr EXCEPT !.step = "fill", !.items = @ \ {role}, !.item = role])
          /\ UNCHANGED <<sedPerm, sedGrant, sedUser, sedHistory, sedCounters>>

SedKnownFails(p) ==
  /\ InPhase(p, {"known"}) /\ sedFaults < MaxSedFaults /\ sedFaults' = sedFaults + 1
  /\ SedGo(p, [SedAt("role") EXCEPT !.items = SedRoles])
  /\ UNCHANGED <<sedTables, sedHistory, sedStops, sedEdits>>

(* SanitizePermissions with the known codes; none known: the catalogue.    *)
Sanitized(codes, known) == IF known = {} THEN codes ELSE codes \cap known

SedFillRole(p) ==
  LET pr == sedProc[p] IN
  /\ InPhase(p, {"fill"})
  /\ ReplaceGrants(p, pr.item, Sanitized(SedDefs[pr.item], pr.known))
  /\ SedGo(p, IF pr.items = {} THEN SedAt(SedAfter("roles")) ELSE [pr EXCEPT !.step = "role", !.item = SedNone])

-----------------------------------------------------------------------------
(* syncBuiltinPermissions: what the catalogue has and the table had not    *)
(* when it was read.                                                       *)
SedListCodes(p) ==
  /\ InPhase(p, {"sync"})
  /\ SedReads(p, [SedAt("insert") EXCEPT !.codes = SedCatalog, !.known = sedPerm])

SedHas(p) ==
  LET pr == sedProc[p] IN
  /\ InPhase(p, {"insert"}) /\ pr.codes # <<>> /\ Head(pr.codes) \in pr.known
  /\ SedReads(p, [pr EXCEPT !.codes = Tail(@)])

SedInsertNew(p) ==
  LET pr == sedProc[p] IN
  /\ InPhase(p, {"insert"}) /\ pr.codes # <<>> /\ Head(pr.codes) \notin pr.known
  /\ InsertCode(p, [SedAt("insert") EXCEPT !.known = pr.known])

SedInserted(p) ==
  LET pr == sedProc[p] IN
  /\ InPhase(p, {"insert"}) /\ pr.codes = <<>>
  /\ SedReads(p, IF pr.added = {} THEN SedAt(SedAfter("sync"))
                 ELSE [pr EXCEPT !.step = "list", !.known = {}])

(* Mutant: every code of the definition, not the added ones only.          *)
WholeDefinition(role, added) == SedDefs[role]

(* Only what this seed has added: the rest is the administrators'.         *)
NewFor(role, added) == SedDefs[role] \cap added

Granting(pr, roles) == {r \in roles : NewFor(r, pr.added) # {}}

SedListRoles(p) ==
  LET pr == sedProc[p] IN
  /\ InPhase(p, {"list"})
  /\ SedReads(p, [pr EXCEPT !.step = "read", !.items = Granting(pr, sedRole)])

SedReadGrants(p, role) ==
  LET pr == sedProc[p] IN
  /\ InPhase(p, {"read"}) /\ role \in pr.items
  /\ SedReads(p, [pr EXCEPT !.step = "grant", !.items = @ \ {role}, !.item = role, !.known = sedGrant[role]])

Merged(current, new) == current \cup new

SedGrantNew(p) ==
  LET pr == sedProc[p] IN
  /\ InPhase(p, {"grant"})
  /\ ReplaceGrants(p, pr.item, Merged(pr.known, NewFor(pr.item, pr.added)))
  /\ SedGo(p, [pr EXCEPT !.step = "read", !.item = SedNone])

SedSynced(p) ==
  /\ InPhase(p, {"read"}) /\ sedProc[p].items = {} /\ SedReads(p, SedAt(SedAfter("sync")))

-----------------------------------------------------------------------------
(* seedUsersIfEmpty.                                                       *)
SedExisting == {n \in SedNames : sedUser[n] # SedNone}

SedCountUsers(p) ==
  /\ InPhase(p, {"users"})
  /\ SedReads(p, IF SedExisting # {} THEN SedAt(SedAfter("users")) ELSE [SedAt("account") EXCEPT !.items = SedNames])

(* GetRole: an account whose role is not there, or cannot be read, becomes *)
(* a viewer; another process may be about to insert the role.              *)
ChooseRole(p, name, role) ==
  LET pr == sedProc[p] IN
  /\ InPhase(p, {"account"}) /\ name \in pr.items
  /\ SedGo(p, [pr EXCEPT !.step = "create", !.items = @ \ {name}, !.item = name, !.role = role])

SedGetRole(p, name) ==
  /\ ChooseRole(p, name, IF SedAccounts[name] \in sedRole THEN SedAccounts[name] ELSE SedViewer)
  /\ sedSkipped' = sedSkipped \cup
       {n \in {name} : \E q \in SedProcs \ {p} : InPhase(q, {"role", "fill"})}
  /\ UNCHANGED <<sedTables, sedRevoked, sedUnsure, sedCounters>>

SedGetRoleFails(p, name) ==
  /\ sedFaults < MaxSedFaults /\ sedFaults' = sedFaults + 1
  /\ ChooseRole(p, name, SedViewer) /\ sedSkipped' = sedSkipped \cup {name}
  /\ UNCHANGED <<sedTables, sedRevoked, sedUnsure, sedStops, sedEdits>>

SedCreateUser(p) ==
  LET pr == sedProc[p] IN
  /\ InPhase(p, {"create"})
  /\ IF pr.item \in SedExisting THEN SedStop(p) /\ UNCHANGED sedStops
     ELSE /\ sedUser' = [sedUser EXCEPT ![pr.item] = pr.role]
          /\ SedGo(p, [pr EXCEPT !.step = "account", !.item = SedNone, !.role = SedNone])
          /\ UNCHANGED <<sedPerm, sedRole, sedGrant, sedHistory, sedCounters>>

SedSeeded(p) ==
  /\ InPhase(p, {"account"}) /\ sedProc[p].items = {} /\ SedReads(p, SedAt(SedAfter("users")))

(* An administrator takes a code from a role or gives it one, over another *)
(* process: UpsertRole, ReplaceRolePermissions.  A seed that has read the  *)
(* role or is about to grant the code does not see the change.             *)
SedEdit(role, code) ==
  /\ sedEdits < MaxSedEdits /\ sedEdits' = sedEdits + 1
  /\ SedExisting # {} /\ role \in sedRole /\ code \in sedPerm
  /\ LET revoke == code \in sedGrant[role] IN
     /\ sedGrant' = [sedGrant EXCEPT ![role] = IF revoke THEN @ \ {code} ELSE @ \cup {code}]
     /\ sedRevoked' = IF revoke THEN sedRevoked \cup {<<role, code>>} ELSE sedRevoked \ {<<role, code>>}
  /\ sedUnsure' = sedUnsure \cup {rc \in {role} \X SedCodes : \E p \in SedProcs :
       \/ InPhase(p, {"grant", "fill"}) /\ sedProc[p].item = role
       \/ rc[2] = code /\ code \in sedProc[p].added}
  /\ UNCHANGED <<sedPerm, sedRole, sedUser, sedProc, sedSkipped, sedStops, sedFaults>>

SeedStep(p) ==
  \/ SedStart(p) \/ SedKnownFails(p)
  \/ SedCountPermissions(p) \/ SedCreatePermission(p)
  \/ SedCountRoles(p) \/ SedKnownCodes(p) \/ SedFillRole(p)
  \/ \E role \in SedRoles : SedCreateRole(p, role) \/ SedReadGrants(p, role)
  \/ SedListCodes(p) \/ SedHas(p) \/ SedInsertNew(p) \/ SedInserted(p) \/ SedListRoles(p) \/ SedGrantNew(p) \/ SedSynced(p)
  \/ SedCountUsers(p) \/ SedCreateUser(p) \/ SedSeeded(p)
  \/ \E name \in SedNames : SedGetRole(p, name)

SeedNext ==
  \/ \E p \in SedProcs :
       \/ SeedStep(p) \/ SedCrash(p)
       \/ \E name \in SedNames : SedGetRoleFails(p, name)
  \/ \E role \in SedRoles, code \in SedCodes : SedEdit(role, code)

SeedSpec == SeedInit /\ [][SeedNext]_seedVars

-----------------------------------------------------------------------------
(* Nobody is seeding, and somebody has.                                    *)
Settled == Seeding = {} /\ \E p \in SedProcs : InPhase(p, {"serving"})

(* What an administrator took from a role stays taken through restarts and *)
(* upgrades, and after a first start or an upgrade every built-in role     *)
(* holds the rest of its definition: unless seeds stopped or overlapped at *)
(* the statements that deal with the code, or the change fell between a    *)
(* seed's read and its write.                                              *)
GrantsFollow ==
  \A r \in SedRoles : \A c \in SedCodes :
    \/ <<r, c>> \in sedUnsure
    \/ /\ <<r, c>> \in sedRevoked => c \notin sedGrant[r]
       /\ Settled /\ r \in sedRole /\ c \in SedDefs[r] =>
            <<r, c>> \in sedRevoked \/ c \in sedGrant[r]

(* The accounts of the configuration exist with the roles it gives them,   *)
(* unless a seed stopped among the roles or users, overlapped with another *)
(* that was inserting roles, or could not read the role.                   *)
AccountsSeeded == Settled => \A n \in SedNames \ sedSkipped : sedUser[n] = SedAccounts[n]

(* Both: the tables are what the catalogue, the configuration and the      *)
(* administrators have made them.                                          *)
SeedHolds == GrantsFollow /\ AccountsSeeded
=============================================================================
