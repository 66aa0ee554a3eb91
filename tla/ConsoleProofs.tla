--------------------------- MODULE ConsoleProofs ----------------------------
(***************************************************************************)
(* Proofs about what a user of the console has to rely on, for any users,  *)
(* roles, requests and clients: AccessControl (a manager remains),         *)
(* UserSessions (revoked sessions stay revoked), NotifyStream (the badge   *)
(* is true) and AuthSeed (what administrators took from a role stays       *)
(* taken).                                                                 *)
(***************************************************************************)
EXTENDS AccessControl, UserSessions, NotifyStream, AuthSeed, SequenceTheorems, FiniteSetTheorems, TLAPS

-----------------------------------------------------------------------------
(***************************************************************************)
(* AccessControl.  The guards of UpdateUser and UpsertRole keep a manager: *)
(* a decision that nobody else's request overlapped is still right when it *)
(* is written, and a change the guards allow leaves a manager whom it does *)
(* not touch or who keeps both role and login.                             *)
(***************************************************************************)
AccRows == [role : AccRoles, enabled : BOOLEAN]

AccCalls ==
  {AccIdle}
    \cup [op : {"user"}, user : AccUsers, role : AccRoles \cup {AccKeep},
          enabled : BOOLEAN \cup {AccKeep}, alone : BOOLEAN]
    \cup [op : {"insert"}, user : AccUsers, role : AccRoles, enabled : BOOLEAN, alone : BOOLEAN]
    \cup [op : {"role"}, role : AccRoles, kind : {"plain", "managing"}, alone : BOOLEAN]

AccTypeOK ==
  /\ accUser \in [AccUsers -> AccRows \cup {AccKeep}]
  /\ accRole \in [AccRoles -> {"absent", "plain", "managing"}]
  /\ accCall \in [AccCallers -> AccCalls]

(* A decision that is right now                                            *)
Sound(call) ==
  /\ call.op = "user" => UserChangeAllowed(call.user, call.role, call.enabled, FALSE)
  /\ call.op = "role" => RoleChangeAllowed(call.role, call.kind)

(* Only such a decision counts as taken alone.                             *)
AloneIsSound ==
  \A c \in AccCallers : accCall[c] # AccIdle /\ accCall[c].alone =>
    /\ Sound(accCall[c])
    /\ \A d \in AccCallers \ {c} : accCall[d] = AccIdle

UsersExist ==
  \A c \in AccCallers : accCall[c].op = "user" => accCall[c].user \in AccExisting

AccInv == AccTypeOK /\ AloneIsSound /\ UsersExist /\ ManagerRemains

LEMMA AccInit == AccessInit => AccInv
<1> SUFFICES ASSUME AccessInit PROVE AccInv
  OBVIOUS
<1> USE AccAssumption DEF AccessInit, AccIdle, UserRow
<1>1. AccTypeOK
  BY DEF AccTypeOK, AccRows, AccCalls
<1>2. AloneIsSound /\ UsersExist
  BY DEF AloneIsSound, UsersExist
<1>3. AccRoot \in Managers
  <2>1. accUser[AccRoot] = [role |-> AccAdmin, enabled |-> TRUE] /\ accRole[AccAdmin] = "managing"
    OBVIOUS
  <2>2. accUser[AccRoot] \in [role : AccRoles, enabled : BOOLEAN]
    BY <2>1
  <2> QED BY <2>1, <2>2 DEF Managers, AccExisting, Manages
<1> QED BY <1>1, <1>2, <1>3 DEF AccInv, ManagerRemains

-----------------------------------------------------------------------------
SameRequest(new, old) ==
  /\ new # AccIdle /\ new.op = old.op
  /\ old.op = "user" => new.user = old.user /\ new.role = old.role /\ new.enabled = old.enabled
  /\ old.op = "role" => new.role = old.role /\ new.kind = old.kind

LEMMA SetAlone ==
  ASSUME NEW call \in AccCalls \ {AccIdle}
  PROVE  [call EXCEPT !.alone = TRUE] \in AccCalls /\ SameRequest([call EXCEPT !.alone = TRUE], call)
         /\ [call EXCEPT !.alone = TRUE].alone
<1> USE DEF SameRequest
<1>1. CASE call \in [op : {"user"}, user : AccUsers, role : AccRoles \cup {AccKeep},
                    enabled : BOOLEAN \cup {AccKeep}, alone : BOOLEAN]
  BY <1>1 DEF AccCalls, AccIdle
<1>2. CASE call \in [op : {"insert"}, user : AccUsers, role : AccRoles, enabled : BOOLEAN,
                    alone : BOOLEAN]
  BY <1>2 DEF AccCalls, AccIdle
<1>3. CASE call \in [op : {"role"}, role : AccRoles, kind : {"plain", "managing"}, alone : BOOLEAN]
  BY <1>3 DEF AccCalls, AccIdle
<1> QED BY <1>1, <1>2, <1>3 DEF AccCalls

LEMMA SetCrossed ==
  ASSUME NEW call \in AccCalls \ {AccIdle}
  PROVE  [call EXCEPT !.alone = FALSE] \in AccCalls /\ SameRequest([call EXCEPT !.alone = FALSE], call)
         /\ ~[call EXCEPT !.alone = FALSE].alone
<1> USE DEF SameRequest
<1>1. CASE call \in [op : {"user"}, user : AccUsers, role : AccRoles \cup {AccKeep},
                    enabled : BOOLEAN \cup {AccKeep}, alone : BOOLEAN]
  BY <1>1 DEF AccCalls, AccIdle
<1>2. CASE call \in [op : {"insert"}, user : AccUsers, role : AccRoles, enabled : BOOLEAN,
                    alone : BOOLEAN]
  BY <1>2 DEF AccCalls, AccIdle
<1>3. CASE call \in [op : {"role"}, role : AccRoles, kind : {"plain", "managing"}, alone : BOOLEAN]
  BY <1>3 DEF AccCalls, AccIdle
<1> QED BY <1>1, <1>2, <1>3 DEF AccCalls

(* Deciding changes nothing but the requests; it ends everybody's solitude *)
(* but the newcomer's.                                                     *)
LEMMA DecideKeeps ==
  ASSUME AccInv, NEW c \in AccCallers, NEW call \in AccCalls \ {AccIdle}, AccDecide(c, call),
         accRole' \in [AccRoles -> {"absent", "plain", "managing"}],
         \A r \in AccRoles : Manages(r)' <=> Manages(r),
         call.alone => Sound(call)',
         call.op = "user" => call.user \in AccExisting
  PROVE  AccInv'
<1> USE DEF AccInv
<1> DEFINE others == {d \in AccCallers \ {c} : accCall[d] # AccIdle}
<1>0. PICK mine : mine = [call EXCEPT !.alone = @ /\ others = {}]
  OBVIOUS
<1>1. /\ accCall' = [d \in AccCallers |-> IF d = c THEN mine
                        ELSE IF d \in others THEN [accCall[d] EXCEPT !.alone = FALSE] ELSE AccIdle]
      /\ UNCHANGED <<accUser, accDoubt>>
  BY <1>0 DEF AccDecide
<1>2. /\ mine \in AccCalls \ {AccIdle} /\ mine.op = call.op
      /\ mine.alone => others = {} /\ Sound(mine)'
      /\ mine.op = "user" => mine.user = call.user
  <2>1. CASE call.alone /\ others = {}
    <3>1. (call.alone /\ others = {}) = TRUE
      BY <2>1
    <3>2. mine = [call EXCEPT !.alone = TRUE]
      BY <1>0, <3>1, Zenon
    <3>3. mine \in AccCalls /\ SameRequest(mine, call)
      BY <3>2, SetAlone
    <3>4. Sound(mine)'
      BY <2>1, <3>3 DEF Sound, SameRequest
    <3> HIDE DEF others
    <3> QED BY <2>1, <3>3, <3>4 DEF SameRequest
  <2>2. CASE ~(call.alone /\ others = {})
    <3>1. (call.alone /\ others = {}) = FALSE
      BY <2>2
    <3>2. mine = [call EXCEPT !.alone = FALSE]
      BY <1>0, <3>1, Zenon
    <3>3. mine \in AccCalls /\ SameRequest(mine, call) /\ ~mine.alone
      BY <3>2, SetCrossed
    <3> HIDE DEF others
    <3> QED BY <3>3 DEF SameRequest
  <2> QED BY <2>1, <2>2
<1>3. ASSUME NEW d \in others
      PROVE  /\ accCall'[d] \in AccCalls \ {AccIdle} /\ ~accCall'[d].alone
             /\ accCall'[d].op = accCall[d].op
             /\ accCall'[d].op = "user" => accCall'[d].user = accCall[d].user
  <2>1. accCall'[d] = [accCall[d] EXCEPT !.alone = FALSE] /\ accCall[d] \in AccCalls \ {AccIdle}
    BY <1>1 DEF AccTypeOK
  <2> QED BY <2>1, SetCrossed DEF SameRequest
<1>4. AccTypeOK'
  BY <1>1, <1>2, <1>3 DEF AccTypeOK, AccCalls, AccIdle
<1>5. AloneIsSound'
  BY <1>1, <1>2, <1>3 DEF AloneIsSound
<1>6. UsersExist'
  BY <1>1, <1>2, <1>3 DEF UsersExist, AccExisting, AccIdle
<1>7. Managers' = Managers
  BY <1>1 DEF Managers, AccExisting, AccTypeOK, AccRows
<1> QED BY <1>1, <1>4, <1>5, <1>6, <1>7 DEF ManagerRemains

LEMMA DecideStep ==
  ASSUME AccInv, NEW c \in AccCallers,
         \/ \E u \in AccUsers :
              \/ \E role \in AccRoles : AccCreateUser(c, u, role)
              \/ \E role \in AccRoles \cup {AccKeep}, enabled \in BOOLEAN \cup {AccKeep} :
                   \/ \E self \in BOOLEAN : AccUpdateUser(c, u, role, enabled, self)
                   \/ AccUpdateUserBlind(c, u, role, enabled)
         \/ \E role \in AccRoles, kind \in {"plain", "managing"} : AccUpsertRole(c, role, kind)
  PROVE  AccInv'
<1> USE DEF Sound, AccCalls, AccIdle, AccInv, AccTypeOK
<1>1. ASSUME NEW u \in AccUsers, NEW role \in AccRoles, AccCreateUser(c, u, role) PROVE AccInv'
  <2> DEFINE call == [op |-> "insert", user |-> u, role |-> role, enabled |-> TRUE, alone |-> TRUE]
  <2>1. call \in AccCalls \ {AccIdle} /\ call.op = "insert"
    OBVIOUS
  <2>2. AccDecide(c, call) /\ accRole' = accRole
    BY <1>1 DEF AccCreateUser
  <2> HIDE DEF call
  <2> QED BY <2>1, <2>2, DecideKeeps DEF Manages
<1>2. ASSUME NEW u \in AccExisting, NEW role \in AccRoles \cup {AccKeep},
             NEW enabled \in BOOLEAN \cup {AccKeep}, NEW alone \in BOOLEAN,
             AccDecide(c, UpdateCall(u, role, enabled, alone)), accRole' = accRole,
             alone => UserChangeAllowed(u, role, enabled, FALSE)
      PROVE  AccInv'
  <2> DEFINE call == UpdateCall(u, role, enabled, alone)
  <2>1. call \in AccCalls \ {AccIdle}
    BY DEF UpdateCall, AccExisting
  <2>2. call.op = "user" /\ call.user = u /\ call.role = role /\ call.enabled = enabled
        /\ call.alone = alone
    BY DEF UpdateCall
  <2>3. accUser' = accUser
    BY <1>2 DEF AccDecide
  <2>4. alone => UserChangeAllowed(u, role, enabled, FALSE)'
    BY <1>2, <2>3 DEF UserChangeAllowed, Manages, Managers, AccExisting
  <2> HIDE DEF call
  <2>5. call.alone => Sound(call)'
    BY <2>2, <2>4
  <2>6. AccDecide(c, call)
    BY <1>2 DEF call
  <2>7. \A r \in AccRoles : Manages(r)' <=> Manages(r)
    BY <1>2 DEF Manages
  <2> QED BY <1>2, <2>1, <2>2, <2>5, <2>6, <2>7, DecideKeeps
<1>3. ASSUME NEW u \in AccUsers, NEW role \in AccRoles \cup {AccKeep},
             NEW enabled \in BOOLEAN \cup {AccKeep}, NEW self \in BOOLEAN,
             AccUpdateUser(c, u, role, enabled, self)
      PROVE  AccInv'
  <2>1. UserChangeAllowed(u, role, enabled, FALSE)
    BY <1>3 DEF AccUpdateUser, UserChangeAllowed
  <2> QED BY <1>2, <1>3, <2>1 DEF AccUpdateUser
<1>4. ASSUME NEW u \in AccUsers, NEW role \in AccRoles \cup {AccKeep},
             NEW enabled \in BOOLEAN \cup {AccKeep}, AccUpdateUserBlind(c, u, role, enabled)
      PROVE  AccInv'
  BY <1>2, <1>4 DEF AccUpdateUserBlind
<1>5. ASSUME NEW role \in AccRoles, NEW kind \in {"plain", "managing"},
             AccUpsertRole(c, role, kind)
      PROVE  AccInv'
  <2> DEFINE call == [op |-> "role", role |-> role, kind |-> kind, alone |-> TRUE]
  <2>1. call \in AccCalls \ {AccIdle} /\ call.op = "role" /\ call.role = role /\ call.kind = kind
    OBVIOUS
  <2>2. AccDecide(c, call) /\ accUser' = accUser
    BY <1>5 DEF AccUpsertRole, AccDecide
  <2>3. /\ accRole' \in [AccRoles -> {"absent", "plain", "managing"}]
        /\ \A r \in AccRoles : Manages(r)' <=> Manages(r)
    BY <1>5 DEF AccUpsertRole, ExistingRoles, Manages
  <2>4. Managers' = Managers /\ EnabledIn(role)' = EnabledIn(role)
    BY <2>2, <2>3 DEF Managers, EnabledIn, AccExisting, AccRows
  <2>5. RoleChangeAllowed(role, kind)'
    BY <1>5, <2>3, <2>4 DEF AccUpsertRole, RoleChangeAllowed
  <2>6. Sound(call)'
    BY <2>1, <2>5
  <2> HIDE DEF call
  <2> QED BY <2>1, <2>2, <2>3, <2>6, DecideKeeps
<1> HIDE DEF Sound, AccCalls, AccIdle, AccInv, AccTypeOK
<1> QED BY <1>1, <1>3, <1>4, <1>5

-----------------------------------------------------------------------------
LEMMA FiniteManagers ==
  ASSUME NEW role
  PROVE  /\ IsFiniteSet(Managers) /\ Cardinality(Managers) \in Nat
         /\ IsFiniteSet(EnabledIn(role)) /\ Cardinality(EnabledIn(role)) \in Nat
BY AccAssumption, FS_Subset, FS_CardinalityType DEF Managers, EnabledIn, AccExisting

(* A sound decision, written at once, leaves a manager.                    *)
LEMMA UserWriteSafe ==
  ASSUME AccTypeOK, NEW u \in AccExisting, NEW role \in AccRoles \cup {AccKeep},
         NEW enabled \in BOOLEAN \cup {AccKeep}, UserChangeAllowed(u, role, enabled, FALSE),
         accUser' = [accUser EXCEPT ![u].role = Given(@, role), ![u].enabled = Given(@, enabled)],
         accRole' = accRole, Managers # {}
  PROVE  Managers' # {}
<1> USE DEF AccTypeOK, AccRows
<1>1. \A v \in Managers \ {u} : v \in Managers'
  BY DEF Managers, AccExisting, Manages
<1>2. CASE \E v \in Managers : v # u
  BY <1>1, <1>2
<1>3. CASE Managers = {u}
  <2>1. Cardinality(Managers) = 1
    BY <1>3, FS_Singleton
  <2>2. /\ ~(role # AccKeep /\ Manages(accUser[u].role) /\ ~Manages(role))
        /\ ~(enabled = FALSE /\ Manages(accUser[u].role))
    BY <2>1 DEF UserChangeAllowed
  <2>3. accUser[u] \in AccRows /\ accUser[u].enabled /\ Manages(accUser[u].role)
    BY <1>3 DEF Managers, AccExisting
  <2>4. accUser'[u] = [role |-> Given(accUser[u].role, role),
                       enabled |-> Given(accUser[u].enabled, enabled)]
    BY <2>3 DEF AccExisting
  <2>5. Given(accUser[u].role, role) \in AccRoles /\ Manages(Given(accUser[u].role, role))
    BY <2>2, <2>3 DEF Given
  <2>6. Given(accUser[u].enabled, enabled) = TRUE
    BY <2>2, <2>3 DEF Given
  <2>7. accUser'[u] \in AccRows
    <3>1. accUser'[u] = [role |-> Given(accUser[u].role, role), enabled |-> TRUE]
      BY <2>4, <2>6
    <3>2. \A r \in AccRoles : [role |-> r, enabled |-> TRUE] \in AccRows
      OBVIOUS
    <3> QED BY <2>5, <3>1, <3>2, Zenon
  <2>8. u \in Managers'
    BY <2>4, <2>5, <2>6, <2>7, AccAssumption DEF Managers, AccExisting, Manages
  <2> QED BY <2>8
<1> QED BY <1>2, <1>3

LEMMA RoleWriteSafe ==
  ASSUME AccTypeOK, NEW role \in AccRoles, NEW kind \in {"plain", "managing"},
         RoleChangeAllowed(role, kind), accRole' = [accRole EXCEPT ![role] = kind],
         accUser' = accUser, Managers # {}
  PROVE  Managers' # {}
<1> USE DEF AccTypeOK, AccRows
<1>1. \A v \in Managers : accUser[v].role # role \/ kind = "managing" => v \in Managers'
  BY DEF Managers, AccExisting, Manages
<1>2. CASE kind = "managing" \/ ~Manages(role)
  BY <1>1, <1>2 DEF Managers
<1>3. CASE kind = "plain" /\ Manages(role)
  <2>1. Cardinality(Managers) > Cardinality(EnabledIn(role))
    BY <1>3 DEF RoleChangeAllowed
  <2>2. ~(Managers \subseteq EnabledIn(role))
    BY <2>1, FiniteManagers, FS_Subset
  <2> QED BY <1>1, <2>2 DEF Managers, EnabledIn
<1> QED BY <1>2, <1>3

LEMMA WriteStep == ASSUME AccInv, NEW c \in AccCallers, AccWrite(c) PROVE AccInv'
<1> DEFINE call == accCall[c]
<1>1. /\ call \in AccCalls /\ call # AccIdle
      /\ accCall' = [accCall EXCEPT ![c] = AccIdle]
      /\ accDoubt' = ((accDoubt \/ ~call.alone) /\ Managers' = {})
  <2>1. call \in AccCalls
    BY DEF AccInv, AccTypeOK
  <2>2. call.op \in {"user", "insert", "role"}
    BY DEF AccWrite
  <2>3. call # AccIdle
    BY <2>2 DEF AccIdle
  <2>4. /\ accCall' = [accCall EXCEPT ![c] = AccIdle]
        /\ accDoubt' = ((accDoubt \/ ~call.alone) /\ Managers' = {})
    BY Zenon DEF AccWrite
  <2> QED BY <2>1, <2>3, <2>4, Zenon
<1>2. CASE call.op = "user"
  <2>1. /\ call.user \in AccExisting
        /\ call.role \in AccRoles \cup {AccKeep} /\ call.enabled \in BOOLEAN \cup {AccKeep}
    BY <1>1, <1>2 DEF AccInv, UsersExist, AccCalls, AccIdle
  <2>2. /\ accUser' = [accUser EXCEPT ![call.user].role = Given(@, call.role),
                                      ![call.user].enabled = Given(@, call.enabled)]
        /\ accRole' = accRole
    BY <1>2 DEF AccWrite
  <2>3. accUser' \in [AccUsers -> AccRows \cup {AccKeep}] /\ AccExisting' = AccExisting
    BY <2>1, <2>2, AccAssumption DEF AccInv, AccTypeOK, AccRows, AccExisting, Given
  <2>4. call.alone /\ Managers # {} => Managers' # {}
    BY <1>1, <1>2, <2>1, <2>2, UserWriteSafe DEF AccInv, AloneIsSound, Sound
  <2> QED BY <1>1, <2>2, <2>3, <2>4
       DEF AccInv, AccTypeOK, AloneIsSound, UsersExist, ManagerRemains, AccCalls, AccIdle
<1>3. CASE call.op = "role"
  <2>1. call.role \in AccRoles /\ call.kind \in {"plain", "managing"}
    BY <1>1, <1>3 DEF AccCalls, AccIdle
  <2>2. accRole' = [accRole EXCEPT ![call.role] = call.kind] /\ accUser' = accUser
    BY <1>3 DEF AccWrite
  <2>3. call.alone /\ Managers # {} => Managers' # {}
    BY <1>1, <1>3, <2>1, <2>2, RoleWriteSafe DEF AccInv, AloneIsSound, Sound
  <2> QED BY <1>1, <2>1, <2>2, <2>3
       DEF AccInv, AccTypeOK, AloneIsSound, UsersExist, ManagerRemains, AccExisting, AccCalls, AccIdle
<1>4. CASE call.op = "insert"
  <2>1. call.user \in AccUsers /\ call.role \in AccRoles
    BY <1>1, <1>4 DEF AccCalls, AccIdle
  <2>2. /\ accUser' = IF call.user \in AccExisting THEN accUser
                      ELSE [accUser EXCEPT ![call.user] = UserRow(call.role, TRUE)]
        /\ accRole' = accRole
    BY <1>4 DEF AccWrite
  <2>3. /\ accUser' \in [AccUsers -> AccRows \cup {AccKeep}] /\ AccExisting \subseteq AccExisting'
        /\ Managers \subseteq Managers'
    BY <2>1, <2>2, AccAssumption
       DEF AccInv, AccTypeOK, AccRows, AccExisting, UserRow, Managers, Manages
  <2> QED BY <1>1, <2>2, <2>3
       DEF AccInv, AccTypeOK, AloneIsSound, UsersExist, ManagerRemains, AccCalls, AccIdle
<1> QED BY <1>1, <1>2, <1>3, <1>4 DEF AccCalls, AccIdle

LEMMA AccStep == AccInv /\ [AccessNext]_accessVars => AccInv'
<1>1. AccInv /\ UNCHANGED accessVars => AccInv'
  BY DEF accessVars, AccInv, AccTypeOK, AloneIsSound, Sound, UserChangeAllowed, RoleChangeAllowed,
         UsersExist, ManagerRemains, Managers, EnabledIn, AccExisting, Manages
<1> QED BY <1>1, DecideStep, WriteStep DEF AccessNext

(* Somebody who may edit users and roles is left, whatever is moved,       *)
(* disabled or edited, unless requests overlapped or a read failed.        *)
THEOREM SomebodyManages == AccessSpec => []ManagerRemains
<1>1. AccInv => ManagerRemains
  BY DEF AccInv
<1> QED BY <1>1, AccInit, AccStep, PTL DEF AccessSpec

-----------------------------------------------------------------------------
(***************************************************************************)
(* UserSessions.  session_version counts the changes of password, role and *)
(* enabling, because the UPDATE increments the stored number and not the   *)
(* one the request has read; so a cookie that names the number was issued  *)
(* since the last of them.                                                 *)
(***************************************************************************)
SesCalls ==
  [step : {"idle"}]
    \cup [step : {"issue"}, epoch : Nat, crossed : BOOLEAN]
    \cup [step : {"write"}, enabled : SUBSET BOOLEAN, read : Nat]

Cookies == [version : Nat, exp : Nat, epoch : Nat, crossed : BOOLEAN]

SesTypeOK ==
  /\ sesUser.version \in Nat
  /\ sesCall \in [SesCallers -> SesCalls]
  /\ sesCookies \subseteq Cookies
  /\ sesClock \in Nat /\ sesEpoch \in Nat

(* The version counts the changes; a login that no change has crossed      *)
(* belongs to the present count, a cookie of such a login carries its own. *)
VersionCounts ==
  /\ sesUser.version = sesEpoch + 1
  /\ \A c \in SesCallers :
       sesCall[c].step = "issue" /\ ~sesCall[c].crossed => sesCall[c].epoch = sesEpoch
  /\ \A k \in sesCookies : ~k.crossed => k.version = k.epoch + 1

SesInv == SesTypeOK /\ VersionCounts

LEMMA SesInit == SessionsInit => SesInv
BY DEF SessionsInit, SesInv, SesTypeOK, VersionCounts, SesIdle, SesCalls

LEMMA SesStep == SesInv /\ [SessionsNext]_sessionVars => SesInv'
<1> SUFFICES ASSUME SesInv, [SessionsNext]_sessionVars PROVE SesInv'
  OBVIOUS
<1> USE SesAssumption DEF SesInv, SesTypeOK, VersionCounts, SesCalls, SesIdle
<1>1. ASSUME NEW c \in SesCallers, SesAuthenticate(c) PROVE SesInv'
  BY <1>1 DEF SesAuthenticate
<1>2. ASSUME NEW c \in SesCallers, SesIssueCookie(c) PROVE SesInv'
  <2>1. sesCall[c] \in [step : {"issue"}, epoch : Nat, crossed : BOOLEAN]
    BY <1>2 DEF SesIssueCookie
  <2>2. CASE ~sesUser.enabled
    BY <1>2, <2>1, <2>2 DEF SesIssueCookie
  <2>3. CASE sesUser.enabled
    <3> DEFINE cookie == [version |-> sesUser.version, exp |-> sesClock + SesTTL,
                          epoch |-> sesCall[c].epoch, crossed |-> sesCall[c].crossed]
    <3>1. sesCookies' = sesCookies \cup {cookie}
      BY <1>2, <2>3 DEF SesIssueCookie
    <3>2. cookie \in Cookies /\ (~cookie.crossed => cookie.version = cookie.epoch + 1)
      BY <1>2, <2>1 DEF SesIssueCookie, Cookies
    <3> QED BY <1>2, <3>1, <3>2 DEF SesIssueCookie
  <2> QED BY <2>2, <2>3
<1>3. ASSUME NEW c \in SesCallers, NEW enabled \in {{}, {TRUE}, {FALSE}},
             SesUpdateUser(c, enabled)
      PROVE  SesInv'
  BY <1>3 DEF SesUpdateUser
<1>4. ASSUME NEW c \in SesCallers, SesWrite(c) PROVE SesInv'
  <2>1. sesUser'.version = sesUser.version + 1
    BY <1>4 DEF SesWrite, NextVersion
  <2>2. ASSUME NEW d \in SesCallers
        PROVE  /\ sesCall'[d] \in SesCalls
               /\ ~(sesCall'[d].step = "issue" /\ ~sesCall'[d].crossed)
    BY <1>4 DEF SesWrite
  <2>3. sesCall' \in [SesCallers -> SesCalls]
    BY <1>4, <2>2 DEF SesWrite
  <2> QED BY <1>4, <2>1, <2>2, <2>3 DEF SesWrite
<1>5. CASE SesTick
  BY <1>5 DEF SesTick
<1>6. CASE UNCHANGED sessionVars
  BY <1>6 DEF sessionVars
<1> QED BY <1>1, <1>2, <1>3, <1>4, <1>5, <1>6 DEF SessionsNext

(* A cookie the server accepts comes from a login since the last change of *)
(* password, role or enabling, unless a change crossed that login.         *)
THEOREM RevokedStayRevoked == SessionsSpec => []SessionsRevoked
<1>1. SesInv => SessionsRevoked
  BY DEF SesInv, SesTypeOK, VersionCounts, SessionsRevoked, Accepted, Cookies
<1> QED BY <1>1, SesInit, SesStep, PTL DEF SessionsSpec

-----------------------------------------------------------------------------
(***************************************************************************)
(* NotifyStream.  The last event of a client's channel, or of the wire     *)
(* behind it, carries the number of unread rows; who has changed the rows  *)
(* and not yet published is the only exception, and a stream begins with   *)
(* the number it counted itself.                                           *)
(***************************************************************************)
NtfCalls == [step : {"idle", "count", "publish"}, count : Nat, alone : BOOLEAN]
NtfEvents == [count : Nat, sure : BOOLEAN]
NtfStreams == [step : {"off", "counted", "on"}, chan : Seq(Nat), shown : Nat]

NotifyTypeOK ==
  /\ ntfUnread \in Nat /\ ntfDoubt \in SUBSET NtfClients
  /\ ntfCall \in [NtfCallers -> NtfCalls]
  /\ ntfWire \in Seq(NtfEvents) /\ ntfClient \in [NtfClients -> NtfStreams]

NobodyCalls == \A c \in NtfCallers : ntfCall[c] = NtfIdle

(* What a stream shows once it has read its channel.                       *)
LastSent(client) == IF client.chan = <<>> THEN client.shown ELSE client.chan[Len(client.chan)]

(* A call that is alone publishes what is so; nothing published later      *)
(* than an event that is sure has made it wrong.                           *)
CallsAlone ==
  \A c \in NtfCallers : ntfCall[c].alone =>
    /\ \A d \in NtfCallers \ {c} : ntfCall[d] = NtfIdle
    /\ ntfCall[c].step = "publish" => ntfCall[c].count = ntfUnread

LastIsTrue ==
  NobodyCalls /\ ntfWire # <<>> /\ ntfWire[Len(ntfWire)].sure => ntfWire[Len(ntfWire)].count = ntfUnread

StreamsTrue ==
  \A s \in NtfClients \ ntfDoubt :
    /\ Quiet /\ Open(s) => LastSent(ntfClient[s]) = ntfUnread
    /\ ntfClient[s].step = "counted" =>
         Quiet /\ ntfClient[s].chan = <<>> /\ ntfClient[s].shown = ntfUnread

NotifyInv == NotifyTypeOK /\ CallsAlone /\ LastIsTrue /\ StreamsTrue

-----------------------------------------------------------------------------
LEMMA LastAppended ==
  ASSUME NEW S, NEW q \in Seq(S), NEW x \in S
  PROVE  /\ Append(q, x) \in Seq(S) /\ Append(q, x) # <<>>
         /\ Append(q, x)[Len(Append(q, x))] = x
<1>1. Len(q) \in Nat /\ Append(q, x) \in Seq(S) /\ Len(Append(q, x)) = Len(q) + 1
      /\ Append(q, x)[Len(q) + 1] = x
  BY AppendProperties, LenProperties
<1>2. Len(Append(q, x)) # 0
  BY <1>1
<1> QED BY <1>1, <1>2, EmptySeq

LEMMA LastAfterTail ==
  ASSUME NEW S, NEW q \in Seq(S), q # <<>>
  PROVE  /\ Head(q) \in S /\ Tail(q) \in Seq(S)
         /\ Tail(q) = <<>> => Head(q) = q[Len(q)]
         /\ Tail(q) # <<>> => Tail(q)[Len(Tail(q))] = q[Len(q)]
<1>1. Len(q) \in Nat \ {0}
  BY LenProperties, EmptySeq, Zenon
<1>2. /\ Head(q) = q[1] /\ Head(q) \in S /\ Tail(q) \in Seq(S) /\ Len(Tail(q)) = Len(q) - 1
      /\ \A i \in 1..Len(Tail(q)) : Tail(q)[i] = q[i + 1]
  BY HeadTailProperties
<1>3. Tail(q) = <<>> => Len(q) = 1
  BY <1>1, <1>2, EmptySeq
<1>4. ASSUME Tail(q) # <<>> PROVE Tail(q)[Len(Tail(q))] = q[Len(q)]
  <2>1. Len(Tail(q)) \in Nat \ {0}
    BY <1>2, <1>4, LenProperties, EmptySeq, Zenon
  <2>2. Len(Tail(q)) \in 1..Len(Tail(q)) /\ Len(Tail(q)) + 1 = Len(q)
    BY <1>1, <1>2, <2>1
  <2> QED BY <1>2, <2>2
<1> QED BY <1>2, <1>3, <1>4

LEMMA NtfIdleIs ==
  /\ NtfIdle \in NtfCalls /\ NtfIdle.step = "idle" /\ NtfIdle.alone = FALSE
  /\ NtfOff \in NtfStreams /\ NtfOff.step = "off"
BY EmptySeq DEF NtfIdle, NtfCalls, NtfOff, NtfStreams

LEMMA NotifyInitInv == NotifyInit => NotifyInv
<1> SUFFICES ASSUME NotifyInit PROVE NotifyInv
  OBVIOUS
<1>1. ntfWire = <<>> /\ ntfWire \in Seq(NtfEvents)
  BY EmptySeq DEF NotifyInit
<1>2. NotifyTypeOK
  BY <1>1, NtfIdleIs DEF NotifyInit, NotifyTypeOK
<1>3. CallsAlone /\ LastIsTrue /\ StreamsTrue
  BY <1>1, NtfIdleIs DEF NotifyInit, CallsAlone, LastIsTrue, StreamsTrue, Open
<1> QED BY <1>2, <1>3 DEF NotifyInv

(* A change: nothing is claimed until its count has arrived.               *)
LEMMA ChangeKeeps ==
  ASSUME NotifyInv, NEW c \in NtfCallers, NEW unread \in Nat, NtfChange(c, unread)
  PROVE  NotifyInv'
<1> DEFINE alone == Others(c) = {}
           call(d) == IF d = c THEN [step |-> "count", count |-> 0, alone |-> alone]
                      ELSE IF d \in Others(c) THEN [ntfCall[d] EXCEPT !.alone = FALSE] ELSE NtfIdle
<1>1. /\ ntfCall[c] = NtfIdle /\ ntfUnread' = unread /\ UNCHANGED <<ntfWire, ntfClient, ntfFaults>>
      /\ ntfDoubt' = ntfDoubt \cup {s \in NtfClients : ntfClient[s].step = "counted"}
      /\ ntfCall' = [d \in NtfCallers |-> call(d)]
  BY DEF NtfChange
<1>2. alone \in BOOLEAN
  <2>1. CASE alone
    <3>1. alone = TRUE
      BY <2>1
    <3> QED BY <3>1, Zenon
  <2>2. CASE ~alone
    <3>1. alone = FALSE
      BY <2>2
    <3> QED BY <3>1, Zenon
  <2> QED BY <2>1, <2>2
<1>3. alone => \A d \in NtfCallers \ {c} : ntfCall[d] = NtfIdle
  BY DEF Others
<1> HIDE DEF alone
<1>4. ntfCall'[c] = [step |-> "count", count |-> 0, alone |-> alone]
  BY <1>1
<1>5. \A d \in NtfCallers \ {c} : ntfCall'[d] = IF ntfCall[d] = NtfIdle THEN NtfIdle ELSE [ntfCall[d] EXCEPT !.alone = FALSE]
  BY <1>1 DEF Others
<1>6. \A d \in NtfCallers : ntfCall'[d] \in NtfCalls
  <2>1. [step |-> "count", count |-> 0, alone |-> alone] \in NtfCalls
    BY <1>2 DEF NtfCalls
  <2>2. \A d \in NtfCallers : [ntfCall[d] EXCEPT !.alone = FALSE] \in NtfCalls
    BY DEF NotifyInv, NotifyTypeOK, NtfCalls
  <2> QED BY <1>4, <1>5, <2>1, <2>2, NtfIdleIs
<1>7. NotifyTypeOK'
  <2>1. ntfCall' \in [NtfCallers -> NtfCalls]
    BY <1>1, <1>6
  <2> QED BY <1>1, <2>1 DEF NotifyInv, NotifyTypeOK
<1>8. ~NobodyCalls'
  BY <1>4 DEF NobodyCalls, NtfIdle
<1>9. CallsAlone'
  <2>1. \A d \in NtfCallers \ {c} : ~ntfCall'[d].alone
    BY <1>5, NtfIdleIs DEF NotifyInv, NotifyTypeOK, NtfCalls
  <2>2. alone => \A d \in NtfCallers \ {c} : ntfCall'[d] = NtfIdle
    BY <1>3, <1>5
  <2> QED BY <1>4, <2>1, <2>2 DEF CallsAlone
<1>10. LastIsTrue' /\ StreamsTrue'
  <2>1. ~Quiet'
    BY <1>8 DEF Quiet, NobodyCalls
  <2>2. \A s \in NtfClients \ ntfDoubt' : ntfClient'[s].step # "counted"
    BY <1>1
  <2> QED BY <1>8, <2>1, <2>2 DEF LastIsTrue, StreamsTrue
<1> QED BY <1>7, <1>9, <1>10 DEF NotifyInv

LEMMA CountKeeps == ASSUME NotifyInv, NEW c \in NtfCallers, NtfCount(c) \/ NtfCountFails(c) PROVE NotifyInv'
<1>1. ntfCall[c].step = "count" /\ UNCHANGED <<ntfUnread, ntfWire, ntfClient, ntfDoubt>>
  BY DEF NtfCount, NtfCountFails, ntfApiVars
<1>2. PICK call \in NtfCalls : ntfCall' = [ntfCall EXCEPT ![c] = call] /\ call.step = "publish"
        /\ (call.alone => ntfCall[c].alone /\ call.count = ntfUnread)
  <2>1. CASE NtfCount(c)
    <3>1. ntfCall' = [ntfCall EXCEPT ![c] = [ntfCall[c] EXCEPT !.step = "publish", !.count = ntfUnread]]
      BY <2>1 DEF NtfCount, UnreadNow
    <3>2. [ntfCall[c] EXCEPT !.step = "publish", !.count = ntfUnread] \in NtfCalls
      BY DEF NotifyInv, NotifyTypeOK, NtfCalls
    <3>3. [ntfCall[c] EXCEPT !.step = "publish", !.count = ntfUnread].alone = ntfCall[c].alone
          /\ [ntfCall[c] EXCEPT !.step = "publish", !.count = ntfUnread].count = ntfUnread
          /\ [ntfCall[c] EXCEPT !.step = "publish", !.count = ntfUnread].step = "publish"
      BY DEF NotifyInv, NotifyTypeOK, NtfCalls
    <3> QED BY <3>1, <3>2, <3>3
  <2>2. CASE NtfCountFails(c)
    <3> DEFINE failed == [step |-> "publish", count |-> 0, alone |-> FALSE]
    <3>1. ntfCall' = [ntfCall EXCEPT ![c] = failed]
      BY <2>2 DEF NtfCountFails
    <3>2. failed \in NtfCalls /\ failed.step = "publish" /\ ~failed.alone
      BY DEF NtfCalls
    <3> HIDE DEF failed
    <3> QED BY <3>1, <3>2
  <2> QED BY <2>1, <2>2
<1>3. NotifyTypeOK'
  BY <1>1, <1>2 DEF NotifyInv, NotifyTypeOK
<1>4. ntfCall'[c] = call /\ ntfCall[c] # NtfIdle /\ call # NtfIdle /\ \A d \in NtfCallers \ {c} : ntfCall'[d] = ntfCall[d]
  BY <1>1, <1>2, NtfIdleIs DEF NotifyInv, NotifyTypeOK
<1>5. ~NobodyCalls /\ ~NobodyCalls' /\ ~Quiet /\ ~Quiet'
  BY <1>4 DEF NobodyCalls, Quiet
<1>6. CallsAlone'
  BY <1>1, <1>2, <1>4 DEF NotifyInv, CallsAlone
<1>7. LastIsTrue' /\ StreamsTrue'
  BY <1>1, <1>5 DEF NotifyInv, LastIsTrue, StreamsTrue
<1> QED BY <1>3, <1>6, <1>7 DEF NotifyInv

(* A call ends.                                                            *)
LEMMA CallEnds ==
  ASSUME NotifyInv, NEW c \in NtfCallers, ntfCall' = [ntfCall EXCEPT ![c] = NtfIdle],
         UNCHANGED ntfUnread, ntfCall[c].step = "publish"
  PROVE  /\ ntfCall' \in [NtfCallers -> NtfCalls] /\ CallsAlone' /\ ~Quiet /\ ~NobodyCalls
         /\ NobodyCalls' /\ ntfCall[c].alone => ntfCall[c].count = ntfUnread
         /\ ntfCall[c] \in NtfCalls
<1>1. ntfCall'[c] = NtfIdle /\ \A d \in NtfCallers \ {c} : ntfCall'[d] = ntfCall[d]
  BY DEF NotifyInv, NotifyTypeOK
<1>2. ntfCall[c] # NtfIdle
  BY NtfIdleIs
<1>3. CallsAlone'
  BY <1>1, NtfIdleIs DEF NotifyInv, CallsAlone
<1> QED BY <1>2, <1>3, NtfIdleIs DEF NotifyInv, NotifyTypeOK, NobodyCalls, Quiet, CallsAlone

LEMMA PublishKeeps == ASSUME NotifyInv, NEW c \in NtfCallers, NtfPublish(c) PROVE NotifyInv'
<1> DEFINE evt == [count |-> ntfCall[c].count, sure |-> ntfCall[c].alone]
<1>1. /\ ntfCall[c].step = "publish" /\ ntfCall' = [ntfCall EXCEPT ![c] = NtfIdle]
      /\ UNCHANGED <<ntfUnread, ntfClient, ntfDoubt>> /\ ntfWire' = Append(ntfWire, evt)
  BY DEF NtfPublish, Event, ntfApiVars
<1>2. /\ ntfCall' \in [NtfCallers -> NtfCalls] /\ CallsAlone' /\ ~Quiet
      /\ (NobodyCalls' /\ ntfCall[c].alone => ntfCall[c].count = ntfUnread)
      /\ ntfCall[c] \in NtfCalls
  BY <1>1, CallEnds
<1>3. evt \in NtfEvents /\ evt.count = ntfCall[c].count /\ evt.sure = ntfCall[c].alone
  BY <1>2 DEF NtfCalls, NtfEvents
<1> HIDE DEF evt
<1>4. ntfWire' \in Seq(NtfEvents) /\ ntfWire' # <<>> /\ ntfWire'[Len(ntfWire')] = evt
  BY <1>1, <1>3, LastAppended DEF NotifyInv, NotifyTypeOK
<1>5. LastIsTrue'
  BY <1>1, <1>2, <1>3, <1>4 DEF LastIsTrue
<1>6. StreamsTrue'
  BY <1>1, <1>2, <1>4 DEF NotifyInv, StreamsTrue, Quiet
<1> QED BY <1>1, <1>2, <1>4, <1>5, <1>6 DEF NotifyInv, NotifyTypeOK

(* What a broadcast tells the streams.                                     *)
LEMMA BroadcastTells ==
  ASSUME NotifyInv, NEW evt \in NtfEvents, NEW sure \in BOOLEAN, Broadcast(evt, sure)
  PROVE  /\ ntfClient' \in [NtfClients -> NtfStreams] /\ ntfDoubt' \in SUBSET NtfClients
         /\ \A s \in NtfClients \ ntfDoubt' :
              /\ ntfClient'[s].step = ntfClient[s].step
              /\ Open(s) => sure /\ LastSent(ntfClient'[s]) = evt.count
              /\ ~Open(s) => ntfClient'[s] = ntfClient[s] /\ s \notin ntfDoubt
<1> DEFINE told == {s \in NtfClients : Open(s) /\ Room(s)}
<1>1. /\ ntfClient' = [s \in NtfClients |->
           IF s \in told THEN [ntfClient[s] EXCEPT !.chan = Append(@, evt.count)] ELSE ntfClient[s]]
      /\ ntfDoubt' = IF sure THEN (ntfDoubt \ told) \cup {s \in NtfClients \ told : Open(s)}
                     ELSE ntfDoubt \cup {s \in NtfClients : ntfClient[s].step # "off"}
  BY DEF Broadcast
<1>2. \A s \in NtfClients : ntfClient[s] \in NtfStreams /\ ntfClient[s].chan \in Seq(Nat) /\ evt.count \in Nat
  BY DEF NotifyInv, NotifyTypeOK, NtfStreams, NtfEvents
<1>3. ASSUME NEW s \in told
      PROVE  /\ ntfClient'[s] \in NtfStreams /\ LastSent(ntfClient'[s]) = evt.count
             /\ ntfClient'[s].step = ntfClient[s].step
  <2>1. ntfClient'[s] = [ntfClient[s] EXCEPT !.chan = Append(ntfClient[s].chan, evt.count)]
    BY <1>1
  <2> DEFINE chan == Append(ntfClient[s].chan, evt.count)
  <2>2. chan \in Seq(Nat) /\ chan # <<>> /\ chan[Len(chan)] = evt.count
    BY <1>2, LastAppended
  <2> HIDE DEF chan
  <2>3. ntfClient'[s] = [ntfClient[s] EXCEPT !.chan = chan]
    BY <2>1 DEF chan
  <2>4. ntfClient'[s] \in NtfStreams /\ ntfClient'[s].chan = chan /\ ntfClient'[s].step = ntfClient[s].step
    BY <1>2, <2>2, <2>3 DEF NtfStreams
  <2> QED BY <2>2, <2>4 DEF LastSent
<1>4. \A s \in NtfClients \ told : ntfClient'[s] = ntfClient[s]
  BY <1>1
<1>5. told \in SUBSET NtfClients
  OBVIOUS
<1>6. ntfClient' \in [NtfClients -> NtfStreams] /\ ntfDoubt' \in SUBSET NtfClients
  <2>1. \A s \in NtfClients : ntfClient'[s] \in NtfStreams
    BY <1>2, <1>3, <1>4
  <2>2. ntfClient' = [s \in NtfClients |-> ntfClient'[s]]
    BY <1>1
  <2>3. ntfDoubt' \in SUBSET NtfClients
    BY <1>1, <1>5 DEF NotifyInv, NotifyTypeOK
  <2> QED BY <2>1, <2>2, <2>3
<1>7. ASSUME NEW s \in NtfClients \ ntfDoubt'
      PROVE  /\ ntfClient'[s].step = ntfClient[s].step
             /\ Open(s) => sure /\ LastSent(ntfClient'[s]) = evt.count
             /\ ~Open(s) => ntfClient'[s] = ntfClient[s] /\ s \notin ntfDoubt
  <2>1. Open(s) => sure /\ s \in told
    BY <1>1 DEF Open
  <2>2. ~Open(s) => s \notin told /\ s \notin ntfDoubt
    BY <1>1
  <2> QED BY <1>3, <1>4, <2>1, <2>2
<1> QED BY <1>6, <1>7

LEMMA ListenKeeps == ASSUME NotifyInv, NtfListen PROVE NotifyInv'
<1> DEFINE evt == Head(ntfWire)
<1>1. /\ ntfWire # <<>> /\ ntfWire \in Seq(NtfEvents) /\ Broadcast(evt, evt.sure)
      /\ ntfWire' = Tail(ntfWire) /\ UNCHANGED <<ntfUnread, ntfCall>>
  BY DEF NtfListen, NotifyInv, NotifyTypeOK, ntfApiVars
<1>2. /\ evt \in NtfEvents /\ ntfWire' \in Seq(NtfEvents)
      /\ ntfWire' = <<>> => evt = ntfWire[Len(ntfWire)]
      /\ ntfWire' # <<>> => ntfWire'[Len(ntfWire')] = ntfWire[Len(ntfWire)]
  BY <1>1, LastAfterTail
<1> HIDE DEF evt
<1>3. evt.sure \in BOOLEAN
  BY <1>2 DEF NtfEvents
<1>4. /\ ntfClient' \in [NtfClients -> NtfStreams] /\ ntfDoubt' \in SUBSET NtfClients
      /\ \A s \in NtfClients \ ntfDoubt' :
           /\ ntfClient'[s].step = ntfClient[s].step
           /\ Open(s) => evt.sure /\ LastSent(ntfClient'[s]) = evt.count
           /\ ~Open(s) => ntfClient'[s] = ntfClient[s] /\ s \notin ntfDoubt
  BY <1>1, <1>2, <1>3, BroadcastTells
<1>5. LastIsTrue'
  BY <1>1, <1>2 DEF NotifyInv, LastIsTrue, NobodyCalls
<1>6. ~Quiet
  BY <1>1 DEF Quiet
<1>7. StreamsTrue'
  <2> SUFFICES ASSUME NEW s \in NtfClients \ ntfDoubt'
               PROVE  /\ Quiet' /\ Open(s)' => LastSent(ntfClient'[s]) = ntfUnread'
                      /\ ntfClient'[s].step # "counted"
    BY DEF StreamsTrue
  <2>1. ntfClient'[s].step # "counted"
    BY <1>4, <1>6 DEF Open, NotifyInv, StreamsTrue
  <2>2. ASSUME Quiet', Open(s)' PROVE LastSent(ntfClient'[s]) = ntfUnread'
    <3>1. Open(s) /\ NobodyCalls /\ ntfWire' = <<>>
      BY <1>1, <1>4, <2>2 DEF Open, Quiet, NobodyCalls
    <3>2. evt.sure /\ LastSent(ntfClient'[s]) = evt.count
      BY <1>4, <3>1
    <3>3. evt.count = ntfUnread
      BY <1>1, <1>2, <3>1, <3>2 DEF NotifyInv, LastIsTrue
    <3> QED BY <1>1, <3>2, <3>3
  <2> QED BY <2>1, <2>2
<1>8. NotifyTypeOK'
  BY <1>1, <1>2, <1>4 DEF NotifyInv, NotifyTypeOK
<1>9. CallsAlone'
  BY <1>1 DEF NotifyInv, CallsAlone
<1> QED BY <1>5, <1>7, <1>8, <1>9 DEF NotifyInv

LEMMA UnsureWire ==
  ASSUME NEW q \in Seq(NtfEvents), NEW r, r = [i \in DOMAIN q |-> [q[i] EXCEPT !.sure = FALSE]]
  PROVE  /\ r \in Seq(NtfEvents) /\ (r = <<>> => q = <<>>)
         /\ r # <<>> => ~r[Len(r)].sure
<1>1. DOMAIN q = 1..Len(q) /\ Len(q) \in Nat
  BY LenProperties
<1>2. \A i \in 1..Len(q) : [q[i] EXCEPT !.sure = FALSE] \in NtfEvents /\ ~[q[i] EXCEPT !.sure = FALSE].sure
  <2>1. \A i \in 1..Len(q) : q[i] \in NtfEvents
    BY ElementOfSeq
  <2> QED BY <2>1 DEF NtfEvents
<1>3. r \in [1..Len(q) -> NtfEvents] /\ \A i \in 1..Len(q) : ~r[i].sure
  BY <1>1, <1>2
<1>4. r \in Seq(NtfEvents) /\ Len(r) = Len(q)
  BY <1>1, <1>3, SeqDef, LenProperties
<1>5. r = <<>> => q = <<>>
  BY <1>4, EmptySeq
<1>6. r # <<>> => Len(r) \in 1..Len(q)
  <2>1. r # <<>> => Len(r) # 0
    BY <1>4, EmptySeq
  <2> QED BY <1>1, <1>4, <2>1
<1> QED BY <1>3, <1>4, <1>5, <1>6

LEMMA PublishFailsKeeps ==
  ASSUME NotifyInv, NEW c \in NtfCallers, NEW local \in BOOLEAN, NtfPublishFails(c, local)
  PROVE  NotifyInv'
<1> DEFINE evt == [count |-> ntfCall[c].count, sure |-> ntfCall[c].alone]
           sure == ntfCall[c].alone /\ ntfWire = <<>>
<1>1. /\ ntfCall[c].step = "publish" /\ ntfCall' = [ntfCall EXCEPT ![c] = NtfIdle] /\ UNCHANGED ntfUnread
      /\ ntfWire' = [i \in DOMAIN ntfWire |-> [ntfWire[i] EXCEPT !.sure = FALSE]]
      /\ IF local THEN Broadcast(evt, sure)
         ELSE ntfDoubt' = {s \in NtfClients : ntfClient[s].step # "off"} /\ UNCHANGED ntfClient
  BY DEF NtfPublishFails, Event, ntfApiVars
<1>2. /\ ntfCall' \in [NtfCallers -> NtfCalls] /\ CallsAlone' /\ ~Quiet
      /\ (NobodyCalls' /\ ntfCall[c].alone => ntfCall[c].count = ntfUnread)
      /\ ntfCall[c] \in NtfCalls
  BY <1>1, CallEnds
<1>3. ntfWire' \in Seq(NtfEvents) /\ (ntfWire' = <<>> => ntfWire = <<>>)
      /\ (ntfWire' # <<>> => ~ntfWire'[Len(ntfWire')].sure)
  BY <1>1, UnsureWire DEF NotifyInv, NotifyTypeOK
<1>4. LastIsTrue'
  BY <1>3 DEF LastIsTrue
<1>5. evt \in NtfEvents /\ evt.count = ntfCall[c].count /\ ntfCall[c].alone \in BOOLEAN
  BY <1>2 DEF NtfCalls, NtfEvents
<1>6. sure \in BOOLEAN
  <2>1. CASE sure
    <3>1. sure = TRUE
      BY <2>1, <1>5
    <3> QED BY <3>1, Zenon
  <2>2. CASE ~sure
    <3>1. sure = FALSE
      BY <2>2, <1>5
    <3> QED BY <3>1, Zenon
  <2> QED BY <2>1, <2>2
<1>7. /\ ntfClient' \in [NtfClients -> NtfStreams] /\ ntfDoubt' \in SUBSET NtfClients
      /\ \A s \in NtfClients \ ntfDoubt' :
           /\ ntfClient'[s].step # "counted"
           /\ Open(s)' => ntfCall[c].alone /\ LastSent(ntfClient'[s]) = evt.count
  <2>1. CASE local
    <3> HIDE DEF evt
    <3>1. sure => ntfCall[c].alone
      OBVIOUS
    <3> HIDE DEF sure
    <3>2. /\ ntfClient' \in [NtfClients -> NtfStreams] /\ ntfDoubt' \in SUBSET NtfClients
          /\ \A s \in NtfClients \ ntfDoubt' :
               /\ ntfClient'[s].step = ntfClient[s].step
               /\ Open(s) => sure /\ LastSent(ntfClient'[s]) = evt.count
               /\ ~Open(s) => ntfClient'[s] = ntfClient[s] /\ s \notin ntfDoubt
      BY <1>1, <1>5, <1>6, <2>1, BroadcastTells
    <3>3. \A s \in NtfClients \ ntfDoubt' : ntfClient'[s].step # "counted"
      BY <1>2, <3>2 DEF Open, NotifyInv, StreamsTrue
    <3>4. \A s \in NtfClients \ ntfDoubt' : Open(s)' => ntfCall[c].alone /\ LastSent(ntfClient'[s]) = evt.count
      BY <3>1, <3>2 DEF Open
    <3> QED BY <3>2, <3>3, <3>4
  <2>2. CASE ~local
    BY <1>1, <2>2 DEF NotifyInv, NotifyTypeOK, Open
  <2> QED BY <2>1, <2>2
<1>8. StreamsTrue'
  BY <1>1, <1>2, <1>5, <1>7 DEF StreamsTrue, Quiet, NobodyCalls
<1> QED BY <1>1, <1>2, <1>3, <1>4, <1>7, <1>8 DEF NotifyInv, NotifyTypeOK

(* What a stream does.                                                     *)
LEMMA StreamKeeps ==
  ASSUME NotifyInv, NEW s \in NtfClients,
         NtfConnect(s) \/ NtfConnectUncounted(s) \/ NtfSubscribe(s) \/ NtfShow(s) \/ NtfDisconnect(s)
  PROVE  NotifyInv'
<1> USE DEF NotifyInv
<1>1. UNCHANGED <<ntfUnread, ntfCall, ntfWire>>
  BY DEF NtfConnect, NtfConnectUncounted, NtfSubscribe, NtfShow, NtfDisconnect, ntfApiVars
<1>2. CallsAlone' /\ LastIsTrue' /\ (Quiet' <=> Quiet)
  BY <1>1 DEF CallsAlone, LastIsTrue, NobodyCalls, Quiet
<1>3. ntfClient[s] \in NtfStreams /\ ntfClient[s].chan \in Seq(Nat)
  BY DEF NotifyTypeOK, NtfStreams
<1>4. PICK client \in NtfStreams :
        /\ ntfClient' = [ntfClient EXCEPT ![s] = client]
        /\ ntfDoubt' \in SUBSET NtfClients /\ (\A t \in NtfClients \ {s} : t \in ntfDoubt' <=> t \in ntfDoubt)
        /\ s \notin ntfDoubt' =>
             /\ Quiet /\ client.step = "on" => LastSent(client) = ntfUnread
             /\ client.step = "counted" => Quiet /\ client.chan = <<>> /\ client.shown = ntfUnread
  <2>1. CASE NtfConnect(s)
    <3> DEFINE client == [step |-> "counted", chan |-> <<>>, shown |-> ntfUnread]
    <3>1. client \in NtfStreams /\ client.step = "counted" /\ client.chan = <<>> /\ client.shown = ntfUnread
      BY EmptySeq DEF NtfStreams, NotifyTypeOK
    <3>2. ntfClient' = [ntfClient EXCEPT ![s] = client]
      BY <2>1 DEF NtfConnect
    <3>3. ntfDoubt' = IF Quiet THEN ntfDoubt \ {s} ELSE ntfDoubt \cup {s}
      BY <2>1 DEF NtfConnect
    <3> HIDE DEF client
    <3> QED BY <3>1, <3>2, <3>3 DEF NotifyTypeOK
  <2>2. CASE NtfSubscribe(s)
    <3> DEFINE client == [ntfClient[s] EXCEPT !.step = "on"]
    <3>1. client \in NtfStreams /\ client.step = "on" /\ client.chan = ntfClient[s].chan
          /\ client.shown = ntfClient[s].shown
      BY <1>3 DEF NtfStreams
    <3>2. ntfClient' = [ntfClient EXCEPT ![s] = client] /\ ntfClient[s].step = "counted" /\ ntfDoubt' = ntfDoubt
      BY <2>2 DEF NtfSubscribe
    <3> HIDE DEF client
    <3>3. s \notin ntfDoubt => LastSent(client) = ntfUnread
      BY <3>1, <3>2 DEF StreamsTrue, LastSent
    <3> QED BY <3>1, <3>2, <3>3 DEF NotifyTypeOK
  <2>3. CASE NtfShow(s)
    <3> DEFINE chan == ntfClient[s].chan
               client == [ntfClient[s] EXCEPT !.shown = Head(chan), !.chan = Tail(chan)]
    <3>1. chan # <<>> /\ ntfClient[s].step = "on" /\ ntfDoubt' = ntfDoubt
          /\ ntfClient' = [ntfClient EXCEPT ![s].shown = Head(ntfClient[s].chan), ![s].chan = Tail(@)]
      BY <2>3 DEF NtfShow, Open
    <3>2. ntfClient' = [ntfClient EXCEPT ![s] = client]
      BY <3>1 DEF NotifyTypeOK
    <3>3. /\ Head(chan) \in Nat /\ Tail(chan) \in Seq(Nat)
          /\ Tail(chan) = <<>> => Head(chan) = chan[Len(chan)]
          /\ Tail(chan) # <<>> => Tail(chan)[Len(Tail(chan))] = chan[Len(chan)]
      BY <1>3, <3>1, LastAfterTail
    <3>4. client \in NtfStreams /\ client.step = "on" /\ client.shown = Head(chan) /\ client.chan = Tail(chan)
      BY <1>3, <3>1, <3>3 DEF NtfStreams
    <3> HIDE DEF client
    <3>5. LastSent(client) = LastSent(ntfClient[s])
      BY <3>1, <3>3, <3>4 DEF LastSent
    <3>6. s \notin ntfDoubt /\ Quiet => LastSent(ntfClient[s]) = ntfUnread
      BY <3>1 DEF StreamsTrue, Open
    <3> QED BY <3>1, <3>2, <3>4, <3>5, <3>6 DEF NotifyTypeOK
  <2>4. CASE NtfDisconnect(s)
    BY <2>4, NtfIdleIs DEF NtfDisconnect, NotifyTypeOK
  <2>5. CASE NtfConnectUncounted(s)
    <3> DEFINE client == [ntfClient[s] EXCEPT !.step = "counted"]
    <3>1. client \in NtfStreams
      BY <1>3 DEF NtfStreams
    <3>2. ntfClient' = [ntfClient EXCEPT ![s] = client] /\ ntfDoubt' = ntfDoubt \cup {s}
      BY <2>5 DEF NtfConnectUncounted
    <3> HIDE DEF client
    <3> QED BY <3>1, <3>2 DEF NotifyTypeOK
  <2> QED BY <2>1, <2>2, <2>3, <2>4, <2>5
<1>5. ntfClient'[s] = client /\ \A t \in NtfClients \ {s} : ntfClient'[t] = ntfClient[t]
  BY <1>4 DEF NotifyTypeOK
<1>6. StreamsTrue'
  BY <1>1, <1>2, <1>4, <1>5 DEF StreamsTrue, Open
<1> QED BY <1>1, <1>2, <1>4, <1>6 DEF NotifyTypeOK

LEMMA NotifyStep == NotifyInv /\ [NotifyNext]_notifyVars => NotifyInv'
<1> SUFFICES ASSUME NotifyInv, [NotifyNext]_notifyVars PROVE NotifyInv'
  OBVIOUS
<1>1. ASSUME NEW c \in NtfCallers, NtfCreate(c) PROVE NotifyInv'
  <2>1. ntfUnread + 1 \in Nat
    BY DEF NotifyInv, NotifyTypeOK
  <2> QED BY <1>1, <2>1, ChangeKeeps DEF NtfCreate
<1>2. ASSUME NEW c \in NtfCallers, NEW n \in 1..MaxNtfRows, NtfMarkRead(c, n) PROVE NotifyInv'
  <2>1. n \in 1..ntfUnread /\ NtfChange(c, ntfUnread - n)
    BY <1>2 DEF NtfMarkRead
  <2>2. ntfUnread - n \in Nat
    BY <2>1 DEF NotifyInv, NotifyTypeOK
  <2> QED BY <2>1, <2>2, ChangeKeeps
<1>3. CASE UNCHANGED notifyVars
  BY <1>3 DEF notifyVars, ntfApiVars, NotifyInv, NotifyTypeOK, CallsAlone, LastIsTrue, StreamsTrue, NobodyCalls,
              Quiet, Open
<1> QED BY <1>1, <1>2, <1>3, CountKeeps, PublishKeeps, PublishFailsKeeps, ListenKeeps, StreamKeeps DEF NotifyNext

(* A stream that has read its channel shows the number of unread rows once *)
(* nothing is under way, whatever counts, events and streams came between. *)
THEOREM BadgeIsTrue == NotifySpec => []UnreadShown
<1>1. NotifyInv => UnreadShown
  BY DEF NotifyInv, StreamsTrue, UnreadShown, LastSent
<1> QED BY <1>1, NotifyInitInv, NotifyStep, PTL DEF NotifySpec

-----------------------------------------------------------------------------
(***************************************************************************)
(* AuthSeed.  Every code of a role's definition is granted, revoked, left  *)
(* open or still with a process that is going to grant it; every role and  *)
(* account is there, left open or with a process that is going to create   *)
(* it.  A code an administrator took away is with no process, because what *)
(* a seed grants it has itself inserted.                                   *)
(***************************************************************************)
SedSteps == {"down", "perms", "catalog", "roles", "known", "role", "fill", "sync", "insert",
             "list", "read", "grant", "users", "account", "create", "serving"}

SedStates == [step : SedSteps, codes : Seq(SedCodes), added : SUBSET SedCodes,
              items : SUBSET (SedRoles \cup SedNames),
              item : SedRoles \cup SedNames \cup {SedNone},
              known : SUBSET SedCodes, role : SedRoles \cup {SedNone}]

(* What a process has in hand at each of its steps                         *)
SedHands(x) ==
  /\ x \in SedStates
  /\ x.step \in {"role", "fill", "read", "grant"} => x.items \subseteq SedRoles
  /\ x.step \in {"fill", "grant"} => x.item \in SedRoles
  /\ x.step \in {"account", "create"} => x.items \subseteq SedNames
  /\ x.step = "account" => x.item = SedNone
  /\ x.step = "create" => x.item \in SedNames /\ x.role \in SedRoles

SedTypeOK ==
  /\ sedPerm \subseteq SedCodes /\ sedRole \subseteq SedRoles
  /\ sedGrant \in [SedRoles -> SUBSET SedCodes]
  /\ sedUser \in [SedNames -> SedRoles \cup {SedNone}]
  /\ sedRevoked \subseteq SedRoles \X SedCodes /\ sedUnsure \subseteq SedRoles \X SedCodes
  /\ sedSkipped \subseteq SedNames
  /\ DOMAIN sedProc = SedProcs

(* A process that will not grant the code to the role                      *)
WillNotGrant(x, r, c) ==
  /\ c \notin x.added
  /\ ~(x.step = "fill" /\ x.item = r)
  /\ ~(x.step = "grant" /\ x.item = r /\ c \in x.known)

(* A process that is going to do it                                        *)
WillGrant(x, r, c) ==
  \/ x.step = "fill" /\ x.item = r /\ (c \in x.known \/ x.known = {})
  \/ x.step \in {"insert", "list"} /\ c \in x.added
  \/ x.step \in {"read", "grant"} /\ c \in x.added /\ r \in x.items
  \/ x.step = "grant" /\ c \in x.added /\ x.item = r

(* Who fills the roles knows every code, who replaces what it has read of  *)
(* a role has read all of it.                                              *)
KnowsCodes(x) ==
  /\ x.step \in {"role", "fill"} => \A c \in sedPerm :
       x.known = {} \/ c \in x.known \/ \A r \in SedRoles : <<r, c>> \in sedUnsure
  /\ x.step = "grant" => \A c \in sedGrant[x.item] : <<x.item, c>> \in sedUnsure \/ c \in x.known

Behind == {"sync", "insert", "list", "read", "grant", "users", "account", "create", "serving"}

(* The phases behind a process are done.                                   *)
PhasesDone(x) ==
  /\ x.step = "insert" =>
       /\ x.known \subseteq sedPerm
       /\ \A c \in SedCodes : c \in sedPerm \/ \E i \in DOMAIN x.codes : x.codes[i] = c
  /\ x.step \in Behind \ {"sync", "insert"} => SedCodes \subseteq sedPerm
  /\ x.step \in Behind => sedRole # {}
  /\ x.step \in {"role", "fill"} => SedRoles \subseteq sedRole \cup x.items
  /\ x.step \in {"account", "create"} =>
       \A n \in SedNames : sedUser[n] # SedNone \/ n \in x.items \/ n = x.item
  /\ x.step = "create" /\ x.item \notin sedSkipped => x.role = SedAccounts[x.item]

SedLocal(x) == SedHands(x) /\ KnowsCodes(x) /\ PhasesDone(x)

RevokedStay == \A r \in SedRoles, c \in SedCodes :
  <<r, c>> \in sedRevoked /\ <<r, c>> \notin sedUnsure =>
    /\ c \in sedPerm /\ r \in sedRole /\ c \notin sedGrant[r]
    /\ \A p \in SedProcs : WillNotGrant(sedProc[p], r, c)

Promised(r, c) == \E p \in SedProcs : WillGrant(sedProc[p], r, c)

DefinedFollow == \A r \in SedRoles, c \in SedCodes :
  r \in sedRole /\ c \in sedPerm /\ c \in SedDefs[r] =>
    \/ <<r, c>> \in sedUnsure \cup sedRevoked
    \/ c \in sedGrant[r]
    \/ Promised(r, c)

RolesFollow == sedRole # {} => \A r \in SedRoles \ sedRole :
  \/ \E p \in SedProcs : sedProc[p].step \in {"role", "fill"} /\ r \in sedProc[p].items
  \/ \A n \in SedNames : SedAccounts[n] = r => n \in sedSkipped

AccountsFollow == \A n \in SedNames \ sedSkipped :
  /\ sedUser[n] \in {SedNone, SedAccounts[n]}
  /\ sedUser[n] = SedNone =>
       \/ \E p \in SedProcs : sedProc[p].step \in {"account", "create"}
       \/ /\ \A m \in SedNames : sedUser[m] = SedNone
          /\ \A p \in SedProcs : sedProc[p].step # "serving"

SedInv ==
  /\ SedTypeOK /\ (\A p \in SedProcs : SedLocal(sedProc[p]))
  /\ RevokedStay /\ DefinedFollow /\ RolesFollow /\ AccountsFollow

LEMMA SedOrder ==
  /\ SedAfter("perms") = "roles" /\ SedAfter("roles") = "sync"
  /\ SedAfter("sync") = "users" /\ SedAfter("users") = "serving"
<1>1. DOMAIN SeedOrder = {1, 2, 3, 4, 5}
  BY DEF SeedOrder
<1>2. /\ SeedOrder[1] = "perms" /\ SeedOrder[2] = "roles" /\ SeedOrder[3] = "sync"
      /\ SeedOrder[4] = "users" /\ SeedOrder[5] = "serving"
  BY DEF SeedOrder
<1>3. (CHOOSE j \in DOMAIN SeedOrder : SeedOrder[j] = "perms") = 1
  BY <1>1, <1>2
<1>4. (CHOOSE j \in DOMAIN SeedOrder : SeedOrder[j] = "roles") = 2
  BY <1>1, <1>2
<1>5. (CHOOSE j \in DOMAIN SeedOrder : SeedOrder[j] = "sync") = 3
  BY <1>1, <1>2
<1>6. (CHOOSE j \in DOMAIN SeedOrder : SeedOrder[j] = "users") = 4
  BY <1>1, <1>2
<1>7. 1 + 1 = 2 /\ 2 + 1 = 3 /\ 3 + 1 = 4 /\ 4 + 1 = 5
  OBVIOUS
<1>8. SedAfter("perms") = SeedOrder[1 + 1] /\ SedAfter("roles") = SeedOrder[2 + 1]
  BY <1>3, <1>4, Zenon DEF SedAfter
<1>9. SedAfter("sync") = SeedOrder[3 + 1] /\ SedAfter("users") = SeedOrder[4 + 1]
  BY <1>5, <1>6, Zenon DEF SedAfter
<1> QED BY <1>2, <1>7, <1>8, <1>9

LEMMA SedPromised ==
  ASSUME NEW r, NEW c, NEW q \in SedProcs, WillGrant(sedProc'[q], r, c) PROVE Promised(r, c)'
  BY DEF Promised, WillGrant

(* The rest of the codes to come, and the one at hand                      *)
LEMMA SedHeadTail ==
  ASSUME NEW s \in Seq(SedCodes), s # <<>>
  PROVE  /\ Head(s) \in SedCodes /\ Tail(s) \in Seq(SedCodes)
         /\ \A i \in DOMAIN s : s[i] = Head(s) \/ \E j \in DOMAIN Tail(s) : Tail(s)[j] = s[i]
<1>1. Len(s) \in Nat \ {0} /\ DOMAIN s = 1..Len(s) /\ Head(s) = s[1] /\ Head(s) \in SedCodes
  BY EmptySeq, HeadTailProperties, LenProperties
<1>2. Tail(s) \in Seq(SedCodes) /\ Len(Tail(s)) = Len(s) - 1 /\ \A i \in 1..Len(Tail(s)) : Tail(s)[i] = s[i + 1]
  BY HeadTailProperties
<1>3. DOMAIN Tail(s) = 1..(Len(s) - 1)
  BY <1>2, LenProperties
<1>4. ASSUME NEW i \in DOMAIN s, i # 1 PROVE i - 1 \in DOMAIN Tail(s) /\ Tail(s)[i - 1] = s[i]
  <2>1. i \in 1..Len(s) /\ i - 1 \in 1..(Len(s) - 1)
    BY <1>1, <1>4
  <2>2. Tail(s)[i - 1] = s[(i - 1) + 1] /\ (i - 1) + 1 = i
    BY <1>2, <2>1
  <2> QED BY <1>3, <2>1, <2>2
<1> QED BY <1>1, <1>2, <1>4

LEMMA SedInitInv == SeedInit => SedInv
<1> SUFFICES ASSUME SeedInit PROVE SedInv
  OBVIOUS
<1> USE SeedAssumption
<1>1. \A p \in SedProcs : sedProc[p] = SedAt("down")
  BY DEF SeedInit
<1>2. SedTypeOK
  BY DEF SedTypeOK, SeedInit
<1>3. SedLocal(SedAt("down"))
  BY DEF SedLocal, SedHands, SedStates, SedSteps, KnowsCodes, PhasesDone, Behind, SedAt
<1>4. RevokedStay
  BY DEF SeedInit, RevokedStay
<1>5. DefinedFollow
  BY DEF SeedInit, DefinedFollow
<1>6. RolesFollow /\ AccountsFollow
  BY <1>1, SedNone \notin SedRoles DEF SeedInit, RolesFollow, AccountsFollow, SedAt
<1> QED BY <1>1, <1>2, <1>3, <1>4, <1>5, <1>6 DEF SedInv

-----------------------------------------------------------------------------
(* What a process that has only read, or gone on, keeps: it grants nothing *)
(* that was not to be granted, all that was, and what it owes roles and    *)
(* accounts stays with it.                                                 *)
GrantsNoMore(y, x) == \A r \in SedRoles, c \in SedCodes :
  WillNotGrant(y, r, c) /\ c \notin sedGrant[r] => WillNotGrant(x, r, c)

GrantsNoLess(y, x) == \A r \in SedRoles, c \in SedCodes :
  r \in sedRole /\ c \in SedDefs[r] /\ WillGrant(y, r, c) => WillGrant(x, r, c)

KeepsDuties(y, x) ==
  /\ y.step \in {"role", "fill"} => x.step \in {"role", "fill"} /\ y.items \subseteq x.items
  /\ y.step \in {"account", "create"} /\ (\E n \in SedNames : sedUser[n] = SedNone) => x.step \in {"account", "create"}
  /\ x.step = "serving" => SedExisting # {}

LEMMA SedReadKeeps ==
  ASSUME SedInv, NEW p \in SedProcs, NEW x, SedGo(p, x), UNCHANGED <<sedTables, sedHistory>>,
         SedLocal(x), GrantsNoMore(sedProc[p], x), GrantsNoLess(sedProc[p], x), KeepsDuties(sedProc[p], x)
  PROVE  SedInv'
<1> USE SeedAssumption DEF sedTables, sedHistory, GrantsNoMore, GrantsNoLess, KeepsDuties
<1>1. sedProc'[p] = x /\ (\A q \in SedProcs \ {p} : sedProc'[q] = sedProc[q]) /\ DOMAIN sedProc' = SedProcs
  BY DEF SedGo, SedInv, SedTypeOK
<1>2. SedTypeOK'
  BY <1>1 DEF SedTypeOK, SedInv
<1>3. \A q \in SedProcs : SedLocal(sedProc'[q])
  BY <1>1 DEF SedInv
<1>4. (\A q \in SedProcs : SedLocal(sedProc[q]))'
  BY <1>3 DEF SedLocal, SedHands, KnowsCodes, PhasesDone
<1>5. RevokedStay'
  <2> SUFFICES ASSUME NEW r \in SedRoles, NEW c \in SedCodes,
                      <<r, c>> \in sedRevoked, <<r, c>> \notin sedUnsure
               PROVE  /\ c \in sedPerm /\ r \in sedRole /\ c \notin sedGrant[r]
                      /\ \A q \in SedProcs : WillNotGrant(sedProc'[q], r, c)
    BY DEF RevokedStay, WillNotGrant
  <2>1. c \in sedPerm /\ r \in sedRole /\ c \notin sedGrant[r] /\ \A q \in SedProcs : WillNotGrant(sedProc[q], r, c)
    BY DEF SedInv, RevokedStay
  <2> QED BY <1>1, <2>1
<1>6. DefinedFollow'
  <2> SUFFICES ASSUME NEW r \in SedRoles, NEW c \in SedCodes,
                      r \in sedRole, c \in sedPerm, c \in SedDefs[r],
                      <<r, c>> \notin sedUnsure \cup sedRevoked, c \notin sedGrant[r]
               PROVE  Promised(r, c)'
    BY DEF DefinedFollow
  <2>1. PICK q \in SedProcs : WillGrant(sedProc[q], r, c)
    BY DEF SedInv, DefinedFollow, Promised
  <2>2. WillGrant(sedProc'[q], r, c)
    BY <1>1, <2>1
  <2> QED BY <2>2, SedPromised
<1>7. RolesFollow'
  BY <1>1 DEF SedInv, RolesFollow
<1>8. AccountsFollow'
  BY <1>1 DEF SedInv, AccountsFollow, SedExisting
<1> QED BY <1>2, <1>4, <1>5, <1>6, <1>7, <1>8 DEF SedInv

-----------------------------------------------------------------------------
(* The steps that only read, count or go on.                              *)
LEMMA SedStartKeeps ==
  ASSUME SedInv, NEW p \in SedProcs, SedStart(p) PROVE SedInv'
<1> DEFINE pr == sedProc[p]
<1> USE SeedAssumption
<1>1. SedLocal(pr) /\ pr \in SedStates
  BY DEF SedInv, SedLocal, SedHands
<1> DEFINE x == [step |-> "perms", codes |-> <<>>, added |-> {}, items |-> {},
                 item |-> SedNone, known |-> {}, role |-> SedNone]
<1>2. SedGo(p, x) /\ UNCHANGED <<sedTables, sedHistory>>
  BY <1>1, SedOrder DEF SedStart, SedReads, SedAt, InPhase
<1>3. pr.step = "down"
  BY <1>1 DEF SedStart, InPhase, SedInv, SedTypeOK
<1>4. SedLocal(x)
  BY <1>1, <1>3 DEF SedLocal, SedHands, SedStates, SedSteps, KnowsCodes, PhasesDone, Behind
<1>5. GrantsNoMore(pr, x)
  BY <1>1, <1>3 DEF GrantsNoMore, WillNotGrant
<1>6. GrantsNoLess(pr, x)
  BY <1>1, <1>3 DEF GrantsNoLess, WillGrant
<1>7. KeepsDuties(pr, x)
  BY <1>1, <1>3 DEF KeepsDuties, SedExisting, SedLocal, SedHands, PhasesDone
<1> QED BY <1>2, <1>4, <1>5, <1>6, <1>7, SedReadKeeps

LEMMA SedCountPermissionsKeeps ==
  ASSUME SedInv, NEW p \in SedProcs, SedCountPermissions(p) PROVE SedInv'
<1> DEFINE pr == sedProc[p]
<1> USE SeedAssumption
<1>1. SedLocal(pr) /\ pr \in SedStates
  BY DEF SedInv, SedLocal, SedHands
<1>2. CASE sedPerm # {}
  <2> DEFINE x == [step |-> "roles", codes |-> <<>>, added |-> {}, items |-> {},
                 item |-> SedNone, known |-> {}, role |-> SedNone]
  <2>1. SedGo(p, x) /\ UNCHANGED <<sedTables, sedHistory>>
    BY <1>1, <1>2, SedOrder DEF SedCountPermissions, SedReads, SedAt, InPhase
  <2>2. pr.step = "perms"
    BY <1>1, <1>2 DEF SedCountPermissions, InPhase, SedInv, SedTypeOK
  <2>3. SedLocal(x)
    BY <1>1, <2>2, <1>2 DEF SedLocal, SedHands, SedStates, SedSteps, KnowsCodes, PhasesDone, Behind
  <2>4. GrantsNoMore(pr, x)
    BY <1>1, <2>2, <1>2 DEF GrantsNoMore, WillNotGrant
  <2>5. GrantsNoLess(pr, x)
    BY <1>1, <2>2, <1>2 DEF GrantsNoLess, WillGrant
  <2>6. KeepsDuties(pr, x)
    BY <1>1, <2>2, <1>2 DEF KeepsDuties, SedExisting, SedLocal, SedHands, PhasesDone
  <2> QED BY <2>1, <2>3, <2>4, <2>5, <2>6, SedReadKeeps
<1>3. CASE sedPerm = {}
  <2> DEFINE x == [step |-> "catalog", codes |-> SedCatalog, added |-> {}, items |-> {},
                 item |-> SedNone, known |-> {}, role |-> SedNone]
  <2>1. SedGo(p, x) /\ UNCHANGED <<sedTables, sedHistory>>
    BY <1>1, <1>3, SedOrder DEF SedCountPermissions, SedReads, SedAt, InPhase
  <2>2. pr.step = "perms"
    BY <1>1, <1>3 DEF SedCountPermissions, InPhase, SedInv, SedTypeOK
  <2>3. SedLocal(x)
    BY <1>1, <2>2, <1>3 DEF SedLocal, SedHands, SedStates, SedSteps, KnowsCodes, PhasesDone, Behind
  <2>4. GrantsNoMore(pr, x)
    BY <1>1, <2>2, <1>3 DEF GrantsNoMore, WillNotGrant
  <2>5. GrantsNoLess(pr, x)
    BY <1>1, <2>2, <1>3 DEF GrantsNoLess, WillGrant
  <2>6. KeepsDuties(pr, x)
    BY <1>1, <2>2, <1>3 DEF KeepsDuties, SedExisting, SedLocal, SedHands, PhasesDone
  <2> QED BY <2>1, <2>3, <2>4, <2>5, <2>6, SedReadKeeps
<1> QED BY <1>2, <1>3

LEMMA SedCountRolesKeeps ==
  ASSUME SedInv, NEW p \in SedProcs, SedCountRoles(p) PROVE SedInv'
<1> DEFINE pr == sedProc[p]
<1> USE SeedAssumption
<1>1. SedLocal(pr) /\ pr \in SedStates
  BY DEF SedInv, SedLocal, SedHands
<1>2. CASE sedRole # {}
  <2> DEFINE x == [step |-> "sync", codes |-> <<>>, added |-> {}, items |-> {},
                 item |-> SedNone, known |-> {}, role |-> SedNone]
  <2>1. SedGo(p, x) /\ UNCHANGED <<sedTables, sedHistory>>
    BY <1>1, <1>2, SedOrder DEF SedCountRoles, SedReads, SedAt, InPhase
  <2>2. pr.step = "roles"
    BY <1>1, <1>2 DEF SedCountRoles, InPhase, SedInv, SedTypeOK
  <2>3. SedLocal(x)
    BY <1>1, <2>2, <1>2 DEF SedLocal, SedHands, SedStates, SedSteps, KnowsCodes, PhasesDone, Behind
  <2>4. GrantsNoMore(pr, x)
    BY <1>1, <2>2, <1>2 DEF GrantsNoMore, WillNotGrant
  <2>5. GrantsNoLess(pr, x)
    BY <1>1, <2>2, <1>2 DEF GrantsNoLess, WillGrant
  <2>6. KeepsDuties(pr, x)
    BY <1>1, <2>2, <1>2 DEF KeepsDuties, SedExisting, SedLocal, SedHands, PhasesDone
  <2> QED BY <2>1, <2>3, <2>4, <2>5, <2>6, SedReadKeeps
<1>3. CASE sedRole = {}
  <2> DEFINE x == [step |-> "known", codes |-> <<>>, added |-> {}, items |-> {},
                 item |-> SedNone, known |-> {}, role |-> SedNone]
  <2>1. SedGo(p, x) /\ UNCHANGED <<sedTables, sedHistory>>
    BY <1>1, <1>3, SedOrder DEF SedCountRoles, SedReads, SedAt, InPhase
  <2>2. pr.step = "roles"
    BY <1>1, <1>3 DEF SedCountRoles, InPhase, SedInv, SedTypeOK
  <2>3. SedLocal(x)
    BY <1>1, <2>2, <1>3 DEF SedLocal, SedHands, SedStates, SedSteps, KnowsCodes, PhasesDone, Behind
  <2>4. GrantsNoMore(pr, x)
    BY <1>1, <2>2, <1>3 DEF GrantsNoMore, WillNotGrant
  <2>5. GrantsNoLess(pr, x)
    BY <1>1, <2>2, <1>3 DEF GrantsNoLess, WillGrant
  <2>6. KeepsDuties(pr, x)
    BY <1>1, <2>2, <1>3 DEF KeepsDuties, SedExisting, SedLocal, SedHands, PhasesDone
  <2> QED BY <2>1, <2>3, <2>4, <2>5, <2>6, SedReadKeeps
<1> QED BY <1>2, <1>3

LEMMA SedKnownCodesKeeps ==
  ASSUME SedInv, NEW p \in SedProcs, SedKnownCodes(p) PROVE SedInv'
<1> DEFINE pr == sedProc[p]
<1> USE SeedAssumption
<1>1. SedLocal(pr) /\ pr \in SedStates
  BY DEF SedInv, SedLocal, SedHands
<1> DEFINE x == [SedAt("role") EXCEPT !.items = SedRoles, !.known = sedPerm]
<1>2. SedGo(p, x) /\ UNCHANGED <<sedTables, sedHistory>>
  BY DEF SedKnownCodes, SedReads, sedTables, sedHistory
<1>3. /\ x.step = "role" /\ x.codes = <<>> /\ x.added = {} /\ x.items = SedRoles
      /\ x.item = SedNone /\ x.known = sedPerm /\ x.role = SedNone
  BY <1>1 DEF SedAt, SedStates
<1>4. pr.step = "known" /\ sedPerm \subseteq SedCodes
  BY <1>1 DEF SedKnownCodes, InPhase, SedInv, SedTypeOK
<1>5. x \in SedStates
  BY <1>1, <1>4, <1>3, EmptySeq DEF SedAt, SedStates, SedSteps
<1> HIDE DEF x
<1>6. SedLocal(x)
  BY <1>1, <1>4, <1>3, <1>5 DEF SedLocal, SedHands, KnowsCodes, PhasesDone, Behind
<1>7. GrantsNoMore(pr, x)
  BY <1>1, <1>4, <1>3, <1>5 DEF GrantsNoMore, WillNotGrant
<1>8. GrantsNoLess(pr, x)
  BY <1>1, <1>4, <1>3, <1>5 DEF GrantsNoLess, WillGrant
<1>9. KeepsDuties(pr, x)
  BY <1>1, <1>4, <1>3, <1>5 DEF KeepsDuties, SedExisting, SedLocal, SedHands, PhasesDone
<1> QED BY <1>2, <1>6, <1>7, <1>8, <1>9, SedReadKeeps

LEMMA SedKnownFailsKeeps ==
  ASSUME SedInv, NEW p \in SedProcs, SedKnownFails(p) PROVE SedInv'
<1> DEFINE pr == sedProc[p]
<1> USE SeedAssumption
<1>1. SedLocal(pr) /\ pr \in SedStates
  BY DEF SedInv, SedLocal, SedHands
<1> DEFINE x == [SedAt("role") EXCEPT !.items = SedRoles]
<1>2. SedGo(p, x) /\ UNCHANGED <<sedTables, sedHistory>>
  BY DEF SedKnownFails, SedReads, sedTables, sedHistory
<1>3. /\ x.step = "role" /\ x.codes = <<>> /\ x.added = {} /\ x.items = SedRoles
      /\ x.item = SedNone /\ x.known = {} /\ x.role = SedNone
  BY <1>1 DEF SedAt, SedStates
<1>4. pr.step = "known"
  BY <1>1 DEF SedKnownFails, InPhase, SedInv, SedTypeOK
<1>5. x \in SedStates
  BY <1>1, <1>4, <1>3, EmptySeq DEF SedAt, SedStates, SedSteps
<1> HIDE DEF x
<1>6. SedLocal(x)
  BY <1>1, <1>4, <1>3, <1>5 DEF SedLocal, SedHands, KnowsCodes, PhasesDone, Behind
<1>7. GrantsNoMore(pr, x)
  BY <1>1, <1>4, <1>3, <1>5 DEF GrantsNoMore, WillNotGrant
<1>8. GrantsNoLess(pr, x)
  BY <1>1, <1>4, <1>3, <1>5 DEF GrantsNoLess, WillGrant
<1>9. KeepsDuties(pr, x)
  BY <1>1, <1>4, <1>3, <1>5 DEF KeepsDuties, SedExisting, SedLocal, SedHands, PhasesDone
<1> QED BY <1>2, <1>6, <1>7, <1>8, <1>9, SedReadKeeps

LEMMA SedListCodesKeeps ==
  ASSUME SedInv, NEW p \in SedProcs, SedListCodes(p) PROVE SedInv'
<1> DEFINE pr == sedProc[p]
<1> USE SeedAssumption
<1>1. SedLocal(pr) /\ pr \in SedStates
  BY DEF SedInv, SedLocal, SedHands
<1> DEFINE x == [SedAt("insert") EXCEPT !.codes = SedCatalog, !.known = sedPerm]
<1>2. SedGo(p, x) /\ UNCHANGED <<sedTables, sedHistory>>
  BY DEF SedListCodes, SedReads, sedTables, sedHistory
<1>3. /\ x.step = "insert" /\ x.codes = SedCatalog /\ x.added = {} /\ x.items = {}
      /\ x.item = SedNone /\ x.known = sedPerm /\ x.role = SedNone
  BY <1>1 DEF SedAt, SedStates
<1>4. pr.step = "sync" /\ sedPerm \subseteq SedCodes /\ \A c \in SedCodes : \E i \in DOMAIN SedCatalog : SedCatalog[i] = c
  BY <1>1 DEF SedListCodes, InPhase, SedInv, SedTypeOK, SedCodes
<1>5. x \in SedStates
  BY <1>1, <1>4, <1>3, EmptySeq DEF SedAt, SedStates, SedSteps
<1> HIDE DEF x
<1>6. SedLocal(x)
  BY <1>1, <1>4, <1>3, <1>5 DEF SedLocal, SedHands, KnowsCodes, PhasesDone, Behind
<1>7. GrantsNoMore(pr, x)
  BY <1>1, <1>4, <1>3, <1>5 DEF GrantsNoMore, WillNotGrant
<1>8. GrantsNoLess(pr, x)
  BY <1>1, <1>4, <1>3, <1>5 DEF GrantsNoLess, WillGrant
<1>9. KeepsDuties(pr, x)
  BY <1>1, <1>4, <1>3, <1>5 DEF KeepsDuties, SedExisting, SedLocal, SedHands, PhasesDone
<1> QED BY <1>2, <1>6, <1>7, <1>8, <1>9, SedReadKeeps

LEMMA SedHasKeeps ==
  ASSUME SedInv, NEW p \in SedProcs, SedHas(p) PROVE SedInv'
<1> DEFINE pr == sedProc[p]
<1> USE SeedAssumption
<1>1. SedLocal(pr) /\ pr \in SedStates
  BY DEF SedInv, SedLocal, SedHands
<1> DEFINE x == [pr EXCEPT !.codes = Tail(@)]
<1>2. SedGo(p, x) /\ UNCHANGED <<sedTables, sedHistory>>
  BY DEF SedHas, SedReads, sedTables, sedHistory
<1>3. /\ x.step = pr.step /\ x.codes = Tail(pr.codes) /\ x.added = pr.added /\ x.items = pr.items
      /\ x.item = pr.item /\ x.known = pr.known /\ x.role = pr.role
  BY <1>1 DEF SedAt, SedStates
<1>4. /\ pr.step = "insert" /\ Head(pr.codes) \in pr.known /\ Tail(pr.codes) \in Seq(SedCodes)
      /\ \A i \in DOMAIN pr.codes : pr.codes[i] = Head(pr.codes) \/ \E j \in DOMAIN Tail(pr.codes) : Tail(pr.codes)[j] = pr.codes[i]
  BY <1>1, SedHeadTail DEF SedHas, InPhase, SedInv, SedTypeOK, SedStates
<1>5. x \in SedStates
  BY <1>1, <1>4, <1>3 DEF SedAt, SedStates, SedSteps
<1> HIDE DEF x
<1>6. SedLocal(x)
  BY <1>1, <1>4, <1>3, <1>5 DEF SedLocal, SedHands, KnowsCodes, PhasesDone, Behind
<1>7. GrantsNoMore(pr, x)
  BY <1>1, <1>4, <1>3, <1>5 DEF GrantsNoMore, WillNotGrant
<1>8. GrantsNoLess(pr, x)
  BY <1>1, <1>4, <1>3, <1>5 DEF GrantsNoLess, WillGrant
<1>9. KeepsDuties(pr, x)
  BY <1>1, <1>4, <1>3, <1>5 DEF KeepsDuties, SedExisting, SedLocal, SedHands, PhasesDone
<1> QED BY <1>2, <1>6, <1>7, <1>8, <1>9, SedReadKeeps

LEMMA SedInsertedKeeps ==
  ASSUME SedInv, NEW p \in SedProcs, SedInserted(p) PROVE SedInv'
<1> DEFINE pr == sedProc[p]
<1> USE SeedAssumption
<1>1. SedLocal(pr) /\ pr \in SedStates
  BY DEF SedInv, SedLocal, SedHands
<1>2. CASE pr.added = {}
  <2> DEFINE x == [step |-> "users", codes |-> <<>>, added |-> {}, items |-> {},
                 item |-> SedNone, known |-> {}, role |-> SedNone]
  <2>1. SedGo(p, x) /\ UNCHANGED <<sedTables, sedHistory>>
    BY <1>1, <1>2, SedOrder DEF SedInserted, SedReads, SedAt, InPhase
  <2>2. pr.step = "insert" /\ pr.codes = <<>> /\ DOMAIN pr.codes = {}
    BY <1>1, <1>2 DEF SedInserted, InPhase, SedInv, SedTypeOK
  <2>3. SedLocal(x)
    BY <1>1, <2>2, <1>2 DEF SedLocal, SedHands, SedStates, SedSteps, KnowsCodes, PhasesDone, Behind
  <2>4. GrantsNoMore(pr, x)
    BY <1>1, <2>2, <1>2 DEF GrantsNoMore, WillNotGrant
  <2>5. GrantsNoLess(pr, x)
    BY <1>1, <2>2, <1>2 DEF GrantsNoLess, WillGrant
  <2>6. KeepsDuties(pr, x)
    BY <1>1, <2>2, <1>2 DEF KeepsDuties, SedExisting, SedLocal, SedHands, PhasesDone
  <2> QED BY <2>1, <2>3, <2>4, <2>5, <2>6, SedReadKeeps
<1>3. CASE pr.added # {}
  <2> DEFINE x == [pr EXCEPT !.step = "list", !.known = {}]
  <2>1. SedGo(p, x) /\ UNCHANGED <<sedTables, sedHistory>>
    BY <1>3 DEF SedInserted, SedReads, sedTables, sedHistory
  <2>2. /\ x.step = "list" /\ x.codes = pr.codes /\ x.added = pr.added /\ x.items = pr.items
        /\ x.item = pr.item /\ x.known = {} /\ x.role = pr.role
    BY <1>1 DEF SedAt, SedStates
  <2>3. pr.step = "insert" /\ pr.codes = <<>> /\ DOMAIN pr.codes = {}
    BY <1>1, <1>3 DEF SedInserted, InPhase, SedInv, SedTypeOK
  <2>4. x \in SedStates
    BY <1>1, <2>3, <1>3, <2>2 DEF SedAt, SedStates, SedSteps
  <2> HIDE DEF x
  <2>5. SedLocal(x)
    BY <1>1, <2>3, <1>3, <2>2, <2>4 DEF SedLocal, SedHands, KnowsCodes, PhasesDone, Behind
  <2>6. GrantsNoMore(pr, x)
    BY <1>1, <2>3, <1>3, <2>2, <2>4 DEF GrantsNoMore, WillNotGrant
  <2>7. GrantsNoLess(pr, x)
    BY <1>1, <2>3, <1>3, <2>2, <2>4 DEF GrantsNoLess, WillGrant
  <2>8. KeepsDuties(pr, x)
    BY <1>1, <2>3, <1>3, <2>2, <2>4 DEF KeepsDuties, SedExisting, SedLocal, SedHands, PhasesDone
  <2> QED BY <2>1, <2>5, <2>6, <2>7, <2>8, SedReadKeeps
<1> QED BY <1>2, <1>3

LEMMA SedListRolesKeeps ==
  ASSUME SedInv, NEW p \in SedProcs, SedListRoles(p) PROVE SedInv'
<1> DEFINE pr == sedProc[p]
<1> USE SeedAssumption
<1>1. SedLocal(pr) /\ pr \in SedStates
  BY DEF SedInv, SedLocal, SedHands
<1> DEFINE x == [pr EXCEPT !.step = "read", !.items = Granting(pr, sedRole)]
<1>2. SedGo(p, x) /\ UNCHANGED <<sedTables, sedHistory>>
  BY DEF SedListRoles, SedReads, sedTables, sedHistory
<1>3. /\ x.step = "read" /\ x.codes = pr.codes /\ x.added = pr.added /\ x.items = Granting(pr, sedRole)
      /\ x.item = pr.item /\ x.known = pr.known /\ x.role = pr.role
  BY <1>1 DEF SedAt, SedStates
<1>4. pr.step = "list" /\ sedRole \subseteq SedRoles /\ Granting(pr, sedRole) \subseteq SedRoles
  BY <1>1 DEF SedListRoles, InPhase, SedInv, SedTypeOK, Granting
<1>5. x \in SedStates
  BY <1>1, <1>4, <1>3 DEF SedAt, SedStates, SedSteps
<1> HIDE DEF x
<1>6. SedLocal(x)
  BY <1>1, <1>4, <1>3, <1>5 DEF SedLocal, SedHands, KnowsCodes, PhasesDone, Behind
<1>7. GrantsNoMore(pr, x)
  BY <1>1, <1>4, <1>3, <1>5 DEF GrantsNoMore, WillNotGrant
<1>8. GrantsNoLess(pr, x)
  BY <1>1, <1>4, <1>3, <1>5 DEF GrantsNoLess, WillGrant, Granting, NewFor
<1>9. KeepsDuties(pr, x)
  BY <1>1, <1>4, <1>3, <1>5 DEF KeepsDuties, SedExisting, SedLocal, SedHands, PhasesDone
<1> QED BY <1>2, <1>6, <1>7, <1>8, <1>9, SedReadKeeps

LEMMA SedReadGrantsKeeps ==
  ASSUME SedInv, NEW p \in SedProcs, NEW role \in SedRoles, SedReadGrants(p, role) PROVE SedInv'
<1> DEFINE pr == sedProc[p]
<1> USE SeedAssumption
<1>1. SedLocal(pr) /\ pr \in SedStates
  BY DEF SedInv, SedLocal, SedHands
<1> DEFINE x == [pr EXCEPT !.step = "grant", !.items = @ \ {role}, !.item = role, !.known = sedGrant[role]]
<1>2. SedGo(p, x) /\ UNCHANGED <<sedTables, sedHistory>>
  BY DEF SedReadGrants, SedReads, sedTables, sedHistory
<1>3. /\ x.step = "grant" /\ x.codes = pr.codes /\ x.added = pr.added /\ x.items = pr.items \ {role}
      /\ x.item = role /\ x.known = sedGrant[role] /\ x.role = pr.role
  BY <1>1 DEF SedAt, SedStates
<1>4. pr.step = "read" /\ role \in pr.items /\ sedGrant[role] \subseteq SedCodes
  BY <1>1 DEF SedReadGrants, InPhase, SedInv, SedTypeOK
<1>5. x \in SedStates
  BY <1>1, <1>4, <1>3 DEF SedAt, SedStates, SedSteps
<1> HIDE DEF x
<1>6. SedLocal(x)
  BY <1>1, <1>4, <1>3, <1>5 DEF SedLocal, SedHands, KnowsCodes, PhasesDone, Behind
<1>7. GrantsNoMore(pr, x)
  BY <1>1, <1>4, <1>3, <1>5 DEF GrantsNoMore, WillNotGrant
<1>8. GrantsNoLess(pr, x)
  BY <1>1, <1>4, <1>3, <1>5 DEF GrantsNoLess, WillGrant
<1>9. KeepsDuties(pr, x)
  BY <1>1, <1>4, <1>3, <1>5 DEF KeepsDuties, SedExisting, SedLocal, SedHands, PhasesDone
<1> QED BY <1>2, <1>6, <1>7, <1>8, <1>9, SedReadKeeps

LEMMA SedSyncedKeeps ==
  ASSUME SedInv, NEW p \in SedProcs, SedSynced(p) PROVE SedInv'
<1> DEFINE pr == sedProc[p]
<1> USE SeedAssumption
<1>1. SedLocal(pr) /\ pr \in SedStates
  BY DEF SedInv, SedLocal, SedHands
<1> DEFINE x == [step |-> "users", codes |-> <<>>, added |-> {}, items |-> {},
                 item |-> SedNone, known |-> {}, role |-> SedNone]
<1>2. SedGo(p, x) /\ UNCHANGED <<sedTables, sedHistory>>
  BY <1>1, SedOrder DEF SedSynced, SedReads, SedAt, InPhase
<1>3. pr.step = "read" /\ pr.items = {}
  BY <1>1 DEF SedSynced, InPhase, SedInv, SedTypeOK
<1>4. SedLocal(x)
  BY <1>1, <1>3 DEF SedLocal, SedHands, SedStates, SedSteps, KnowsCodes, PhasesDone, Behind
<1>5. GrantsNoMore(pr, x)
  BY <1>1, <1>3 DEF GrantsNoMore, WillNotGrant
<1>6. GrantsNoLess(pr, x)
  BY <1>1, <1>3 DEF GrantsNoLess, WillGrant
<1>7. KeepsDuties(pr, x)
  BY <1>1, <1>3 DEF KeepsDuties, SedExisting, SedLocal, SedHands, PhasesDone
<1> QED BY <1>2, <1>4, <1>5, <1>6, <1>7, SedReadKeeps

LEMMA SedCountUsersKeeps ==
  ASSUME SedInv, NEW p \in SedProcs, SedCountUsers(p) PROVE SedInv'
<1> DEFINE pr == sedProc[p]
<1> USE SeedAssumption
<1>1. SedLocal(pr) /\ pr \in SedStates
  BY DEF SedInv, SedLocal, SedHands
<1>2. CASE SedExisting # {}
  <2> DEFINE x == [step |-> "serving", codes |-> <<>>, added |-> {}, items |-> {},
                 item |-> SedNone, known |-> {}, role |-> SedNone]
  <2>1. SedGo(p, x) /\ UNCHANGED <<sedTables, sedHistory>>
    BY <1>1, <1>2, SedOrder DEF SedCountUsers, SedReads, SedAt, InPhase
  <2>2. pr.step = "users"
    BY <1>1, <1>2 DEF SedCountUsers, InPhase, SedInv, SedTypeOK
  <2>3. SedLocal(x)
    BY <1>1, <2>2, <1>2 DEF SedLocal, SedHands, SedStates, SedSteps, KnowsCodes, PhasesDone, Behind
  <2>4. GrantsNoMore(pr, x)
    BY <1>1, <2>2, <1>2 DEF GrantsNoMore, WillNotGrant
  <2>5. GrantsNoLess(pr, x)
    BY <1>1, <2>2, <1>2 DEF GrantsNoLess, WillGrant
  <2>6. KeepsDuties(pr, x)
    BY <1>1, <2>2, <1>2 DEF KeepsDuties, SedExisting, SedLocal, SedHands, PhasesDone
  <2> QED BY <2>1, <2>3, <2>4, <2>5, <2>6, SedReadKeeps
<1>3. CASE SedExisting = {}
  <2> DEFINE x == [step |-> "account", codes |-> <<>>, added |-> {}, items |-> SedNames,
                 item |-> SedNone, known |-> {}, role |-> SedNone]
  <2>1. SedGo(p, x) /\ UNCHANGED <<sedTables, sedHistory>>
    BY <1>1, <1>3, SedOrder DEF SedCountUsers, SedReads, SedAt, InPhase
  <2>2. pr.step = "users"
    BY <1>1, <1>3 DEF SedCountUsers, InPhase, SedInv, SedTypeOK
  <2>3. SedLocal(x)
    BY <1>1, <2>2, <1>3 DEF SedLocal, SedHands, SedStates, SedSteps, KnowsCodes, PhasesDone, Behind
  <2>4. GrantsNoMore(pr, x)
    BY <1>1, <2>2, <1>3 DEF GrantsNoMore, WillNotGrant
  <2>5. GrantsNoLess(pr, x)
    BY <1>1, <2>2, <1>3 DEF GrantsNoLess, WillGrant
  <2>6. KeepsDuties(pr, x)
    BY <1>1, <2>2, <1>3 DEF KeepsDuties, SedExisting, SedLocal, SedHands, PhasesDone
  <2> QED BY <2>1, <2>3, <2>4, <2>5, <2>6, SedReadKeeps
<1> QED BY <1>2, <1>3

LEMMA SedSeededKeeps ==
  ASSUME SedInv, NEW p \in SedProcs, SedSeeded(p) PROVE SedInv'
<1> DEFINE pr == sedProc[p]
<1> USE SeedAssumption
<1>1. SedLocal(pr) /\ pr \in SedStates
  BY DEF SedInv, SedLocal, SedHands
<1> DEFINE x == [step |-> "serving", codes |-> <<>>, added |-> {}, items |-> {},
                 item |-> SedNone, known |-> {}, role |-> SedNone]
<1>2. SedGo(p, x) /\ UNCHANGED <<sedTables, sedHistory>>
  BY <1>1, SedOrder DEF SedSeeded, SedReads, SedAt, InPhase
<1>3. pr.step = "account" /\ pr.items = {}
  BY <1>1 DEF SedSeeded, InPhase, SedInv, SedTypeOK
<1>4. SedLocal(x)
  BY <1>1, <1>3 DEF SedLocal, SedHands, SedStates, SedSteps, KnowsCodes, PhasesDone, Behind
<1>5. GrantsNoMore(pr, x)
  BY <1>1, <1>3 DEF GrantsNoMore, WillNotGrant
<1>6. GrantsNoLess(pr, x)
  BY <1>1, <1>3 DEF GrantsNoLess, WillGrant
<1>7. KeepsDuties(pr, x)
  BY <1>1, <1>3 DEF KeepsDuties, SedExisting, SedLocal, SedHands, PhasesDone
<1> QED BY <1>2, <1>4, <1>5, <1>6, <1>7, SedReadKeeps

LEMMA SedCatalogDoneKeeps ==
  ASSUME SedInv, NEW p \in SedProcs, SedCreatePermission(p), sedProc[p].codes = <<>> PROVE SedInv'
<1> DEFINE pr == sedProc[p]
<1> USE SeedAssumption
<1>1. SedLocal(pr) /\ pr \in SedStates
  BY DEF SedInv, SedLocal, SedHands
<1> DEFINE x == [step |-> "roles", codes |-> <<>>, added |-> {}, items |-> {},
                 item |-> SedNone, known |-> {}, role |-> SedNone]
<1>2. SedGo(p, x) /\ UNCHANGED <<sedTables, sedHistory>>
  BY <1>1, SedOrder DEF SedCreatePermission, SedReads, SedAt, InPhase
<1>3. pr.step = "catalog"
  BY <1>1 DEF SedCreatePermission, InPhase, SedInv, SedTypeOK
<1>4. SedLocal(x)
  BY <1>1, <1>3 DEF SedLocal, SedHands, SedStates, SedSteps, KnowsCodes, PhasesDone, Behind
<1>5. GrantsNoMore(pr, x)
  BY <1>1, <1>3 DEF GrantsNoMore, WillNotGrant
<1>6. GrantsNoLess(pr, x)
  BY <1>1, <1>3 DEF GrantsNoLess, WillGrant
<1>7. KeepsDuties(pr, x)
  BY <1>1, <1>3 DEF KeepsDuties, SedExisting, SedLocal, SedHands, PhasesDone
<1> QED BY <1>2, <1>4, <1>5, <1>6, <1>7, SedReadKeeps

-----------------------------------------------------------------------------
LEMMA SedDown == SedAt("down") \in SedStates /\ SedAt("down").step = "down"
  BY SeedAssumption DEF SedStates, SedSteps, SedAt

(* A process that stops: what it had in hand is left open.                 *)
LEMMA SedStopKeeps == ASSUME SedInv, NEW p \in SedProcs, SedStop(p) PROVE SedInv'
<1> DEFINE pr == sedProc[p]
<1> USE SeedAssumption
<1>1. SedLocal(pr) /\ SedTypeOK
  BY DEF SedInv
<1>2. /\ sedProc'[p] = SedAt("down") /\ DOMAIN sedProc' = SedProcs
      /\ \A q \in SedProcs \ {p} : sedProc'[q] = sedProc[q]
  BY <1>1 DEF SedStop, SedGo, SedTypeOK
<1>3. /\ UNCHANGED <<sedPerm, sedRole, sedGrant, sedUser, sedRevoked>>
      /\ sedUnsure \subseteq sedUnsure' /\ sedUnsure' \subseteq SedRoles \X SedCodes
      /\ sedSkipped \subseteq sedSkipped' /\ sedSkipped' \subseteq SedNames
  BY <1>1 DEF SedStop, sedTables, SedTypeOK
<1>4. SedTypeOK'
  BY <1>1, <1>2, <1>3 DEF SedTypeOK
<1>5. ASSUME NEW q \in SedProcs PROVE SedLocal(sedProc[q])'
  <2>1. CASE q = p
    <3>1. sedProc'[q].step = "down" /\ sedProc'[q] \in SedStates
      BY <1>2, <2>1, SedDown
    <3> QED BY <3>1 DEF SedLocal, SedHands, KnowsCodes, PhasesDone, Behind
  <2>2. CASE q # p
    <3>1. SedLocal(sedProc[q]) /\ sedProc'[q] = sedProc[q]
      BY <1>2, <2>2 DEF SedInv
    <3>2. SedHands(sedProc[q])' /\ KnowsCodes(sedProc[q])'
      BY <1>3, <3>1 DEF SedLocal, SedHands, KnowsCodes
    <3>3. PhasesDone(sedProc[q])'
      BY <1>3, <3>1 DEF SedLocal, PhasesDone
    <3> QED BY <3>2, <3>3 DEF SedLocal
  <2> QED BY <2>1, <2>2
<1>6. RevokedStay'
  <2> SUFFICES ASSUME NEW r \in SedRoles, NEW c \in SedCodes, <<r, c>> \in sedRevoked, <<r, c>> \notin sedUnsure
               PROVE  /\ c \in sedPerm /\ r \in sedRole /\ c \notin sedGrant[r]
                      /\ \A q \in SedProcs : WillNotGrant(sedProc'[q], r, c)
    BY <1>3 DEF RevokedStay, WillNotGrant
  <2>1. c \in sedPerm /\ r \in sedRole /\ c \notin sedGrant[r] /\ \A q \in SedProcs : WillNotGrant(sedProc[q], r, c)
    BY DEF SedInv, RevokedStay
  <2> QED BY <1>2, <2>1 DEF WillNotGrant, SedAt
<1>7. DefinedFollow'
  <2> SUFFICES ASSUME NEW r \in SedRoles, NEW c \in SedCodes, r \in sedRole, c \in sedPerm, c \in SedDefs[r],
                      <<r, c>> \notin sedUnsure' \cup sedRevoked, c \notin sedGrant[r]
               PROVE  Promised(r, c)'
    BY <1>3 DEF DefinedFollow
  <2>1. PICK q \in SedProcs : WillGrant(sedProc[q], r, c)
    BY <1>3 DEF SedInv, DefinedFollow, Promised
  <2>2. q # p
    BY <2>1, Zenon DEF WillGrant, SedStop, InPhase
  <2> QED BY <1>2, <2>1, <2>2, SedPromised
<1>8. RolesFollow'
  <2> SUFFICES ASSUME sedRole # {}, NEW r \in SedRoles, r \notin sedRole
               PROVE  \/ \E q \in SedProcs : sedProc'[q].step \in {"role", "fill"} /\ r \in sedProc'[q].items
                      \/ \A n \in SedNames : SedAccounts[n] = r => n \in sedSkipped'
    BY <1>3 DEF RolesFollow
  <2>1. pr.step \in {"role", "fill"} /\ r \in pr.items => \A n \in SedNames : SedAccounts[n] = r => n \in sedSkipped'
    BY DEF SedStop, InPhase
  <2> QED BY <1>2, <1>3, <2>1 DEF SedInv, RolesFollow
<1>9. AccountsFollow'
  <2> SUFFICES ASSUME NEW n \in SedNames, n \notin sedSkipped'
               PROVE  /\ sedUser[n] \in {SedNone, SedAccounts[n]}
                      /\ sedUser[n] = SedNone =>
                           \/ \E q \in SedProcs : sedProc'[q].step \in {"account", "create"}
                           \/ /\ \A m \in SedNames : sedUser[m] = SedNone
                              /\ \A q \in SedProcs : sedProc'[q].step # "serving"
    BY <1>3 DEF AccountsFollow
  <2>1. pr.step \in {"account", "create"} => sedUser[n] # SedNone
    <3> SUFFICES ASSUME pr.step \in {"account", "create"}, sedUser[n] = SedNone PROVE FALSE
      OBVIOUS
    <3>1. n \in pr.items \cup {pr.item}
      BY <1>1 DEF SedLocal, PhasesDone
    <3> QED BY <3>1 DEF SedStop, InPhase
  <2> QED BY <1>2, <1>3, <2>1 DEF SedInv, AccountsFollow, SedAt
<1> QED BY <1>4, <1>5, <1>6, <1>7, <1>8, <1>9 DEF SedInv

(* A code that is inserted                                                 *)
LEMMA SedInsertKeeps ==
  ASSUME SedInv, NEW p \in SedProcs, NEW x \in SedStates, NEW code \in SedCodes,
         sedProc[p].step \in {"catalog", "insert"}, x.step = sedProc[p].step,
         sedProc[p].step = "insert" => x.known = sedProc[p].known,
         x.added = sedProc[p].added \cup {code},
         \A i \in DOMAIN sedProc[p].codes :
           sedProc[p].codes[i] = code \/ \E j \in DOMAIN x.codes : x.codes[j] = sedProc[p].codes[i],
         code \notin sedPerm, sedPerm' = sedPerm \cup {code}, SedGo(p, x),
         sedUnsure' = sedUnsure \cup (IF LateFor(p) THEN SedRoles \X {code} ELSE {}),
         UNCHANGED <<sedRole, sedGrant, sedUser, sedRevoked, sedSkipped>>
  PROVE  SedInv'
<1> DEFINE pr == sedProc[p]
<1> USE SeedAssumption
<1>1. SedLocal(pr) /\ SedTypeOK
  BY DEF SedInv
<1>2. sedProc'[p] = x /\ DOMAIN sedProc' = SedProcs /\ \A q \in SedProcs \ {p} : sedProc'[q] = sedProc[q]
  BY <1>1 DEF SedGo, SedTypeOK
<1>3. SedTypeOK'
  <2>1. SedRoles \X {code} \subseteq SedRoles \X SedCodes
    OBVIOUS
  <2>2. sedUnsure' \subseteq SedRoles \X SedCodes /\ sedPerm' \subseteq SedCodes
    BY <1>1, <2>1 DEF SedTypeOK
  <2> QED BY <1>1, <1>2, <2>2 DEF SedTypeOK
<1>4. LateFor(p) => \A r \in SedRoles : <<r, code>> \in sedUnsure'
  OBVIOUS
<1>5. sedUnsure \subseteq sedUnsure'
  OBVIOUS
<1>6. ASSUME NEW q \in SedProcs PROVE SedLocal(sedProc[q])'
  <2>1. CASE q = p
    <3>1. SedHands(sedProc[q])' /\ KnowsCodes(sedProc[q])'
      BY <1>2, <2>1 DEF SedHands, KnowsCodes
    <3>2. PhasesDone(sedProc[q])'
      BY <1>1, <1>2, <2>1 DEF SedLocal, PhasesDone, Behind
    <3> QED BY <3>1, <3>2 DEF SedLocal
  <2>2. CASE q # p
    <3>1. SedLocal(sedProc[q]) /\ sedProc'[q] = sedProc[q]
      BY <1>2, <2>2 DEF SedInv
    <3>2. sedProc[q].step \in {"role", "fill"} => LateFor(p)
      BY <2>2 DEF LateFor, InPhase
    <3>3. KnowsCodes(sedProc[q])'
      BY <1>4, <1>5, <3>1, <3>2 DEF SedLocal, KnowsCodes
    <3>4. SedHands(sedProc[q])' /\ PhasesDone(sedProc[q])'
      BY <3>1 DEF SedLocal, SedHands, PhasesDone
    <3> QED BY <3>3, <3>4 DEF SedLocal
  <2> QED BY <2>1, <2>2
<1>7. RevokedStay'
  <2> SUFFICES ASSUME NEW r \in SedRoles, NEW c \in SedCodes, <<r, c>> \in sedRevoked, <<r, c>> \notin sedUnsure'
               PROVE  /\ c \in sedPerm' /\ r \in sedRole /\ c \notin sedGrant[r]
                      /\ \A q \in SedProcs : WillNotGrant(sedProc'[q], r, c)
    BY DEF RevokedStay, WillNotGrant
  <2>1. c \in sedPerm /\ r \in sedRole /\ c \notin sedGrant[r] /\ \A q \in SedProcs : WillNotGrant(sedProc[q], r, c)
    BY <1>5 DEF SedInv, RevokedStay
  <2> QED BY <1>2, <2>1 DEF WillNotGrant
<1>8. DefinedFollow'
  <2> SUFFICES ASSUME NEW r \in SedRoles, NEW c \in SedCodes, r \in sedRole, c \in sedPerm', c \in SedDefs[r],
                      <<r, c>> \notin sedUnsure' \cup sedRevoked, c \notin sedGrant[r]
               PROVE  Promised(r, c)'
    BY DEF DefinedFollow
  <2>1. CASE c = code
    <3>1. pr.step = "insert"
      BY <1>4, <2>1 DEF LateFor, InPhase
    <3>2. WillGrant(sedProc'[p], r, c)
      BY <1>2, <2>1, <3>1 DEF WillGrant
    <3> QED BY <3>2, SedPromised
  <2>2. CASE c # code
    <3>1. PICK q \in SedProcs : WillGrant(sedProc[q], r, c)
      BY <1>5, <2>2 DEF SedInv, DefinedFollow, Promised
    <3>2. WillGrant(sedProc'[q], r, c)
      BY <1>2, <3>1 DEF WillGrant
    <3> QED BY <3>2, SedPromised
  <2> QED BY <2>1, <2>2
<1>9. RolesFollow' /\ AccountsFollow'
  BY <1>2 DEF SedInv, RolesFollow, AccountsFollow
<1> QED BY <1>3, <1>6, <1>7, <1>8, <1>9 DEF SedInv

LEMMA SedInsertNewKeeps == ASSUME SedInv, NEW p \in SedProcs, SedInsertNew(p) PROVE SedInv'
<1> DEFINE pr == sedProc[p]  code == Head(pr.codes)
           next == [SedAt("insert") EXCEPT !.known = pr.known]
           x == [next EXCEPT !.codes = Tail(pr.codes), !.added = pr.added \cup {code}]
<1>1. SedLocal(pr) /\ pr \in SedStates /\ pr.step = "insert" /\ pr.codes # <<>> /\ InsertCode(p, next)
  BY DEF SedInv, SedLocal, SedHands, SedInsertNew, InPhase
<1>2. pr.codes \in Seq(SedCodes) /\ pr.added \subseteq SedCodes /\ pr.known \subseteq SedCodes
  BY <1>1 DEF SedStates
<1>3. CASE code \in sedPerm
  BY <1>1, <1>3, SedStopKeeps DEF InsertCode
<1>4. CASE code \notin sedPerm
  <2>1. /\ x.step = "insert" /\ x.codes = Tail(pr.codes) /\ x.added = pr.added \cup {code} /\ x.items = {}
        /\ x.item = SedNone /\ x.known = pr.known /\ x.role = SedNone
    BY DEF SedAt
  <2>2. /\ code \in SedCodes /\ Tail(pr.codes) \in Seq(SedCodes)
        /\ \A i \in DOMAIN pr.codes : pr.codes[i] = code \/ \E j \in DOMAIN x.codes : x.codes[j] = pr.codes[i]
    BY <1>1, <1>2, <2>1, SedHeadTail
  <2>3. x \in SedStates
    BY <1>2, <2>1, <2>2 DEF SedStates, SedSteps, SedAt
  <2>4. /\ sedPerm' = sedPerm \cup {code} /\ SedGo(p, x)
        /\ sedUnsure' = sedUnsure \cup (IF LateFor(p) THEN SedRoles \X {code} ELSE {})
        /\ UNCHANGED <<sedRole, sedGrant, sedUser, sedRevoked, sedSkipped>>
    BY <1>1, <1>4 DEF InsertCode
  <2> HIDE DEF x, code
  <2> QED BY <1>1, <1>4, <2>1, <2>2, <2>3, <2>4, SedInsertKeeps DEF code
<1> QED BY <1>3, <1>4

LEMMA SedCreatePermissionKeeps == ASSUME SedInv, NEW p \in SedProcs, SedCreatePermission(p) PROVE SedInv'
<1> DEFINE pr == sedProc[p]  code == Head(pr.codes)
           x == [SedAt("catalog") EXCEPT !.codes = Tail(pr.codes), !.added = pr.added \cup {code}]
<1>1. SedLocal(pr) /\ pr \in SedStates /\ pr.step = "catalog"
  BY DEF SedInv, SedLocal, SedHands, SedCreatePermission, InPhase
<1>2. pr.codes \in Seq(SedCodes) /\ pr.added \subseteq SedCodes
  BY <1>1 DEF SedStates
<1>3. CASE pr.codes = <<>>
  BY <1>3, SedCatalogDoneKeeps
<1>4. CASE pr.codes # <<>> /\ code \in sedPerm
  BY <1>4, SedStopKeeps DEF SedCreatePermission, InsertCode
<1>5. CASE pr.codes # <<>> /\ code \notin sedPerm
  <2>1. /\ x.step = "catalog" /\ x.codes = Tail(pr.codes) /\ x.added = pr.added \cup {code} /\ x.items = {}
        /\ x.item = SedNone /\ x.known = {} /\ x.role = SedNone
    BY DEF SedAt
  <2>2. /\ code \in SedCodes /\ Tail(pr.codes) \in Seq(SedCodes)
        /\ \A i \in DOMAIN pr.codes : pr.codes[i] = code \/ \E j \in DOMAIN x.codes : x.codes[j] = pr.codes[i]
    BY <1>5, <1>2, <2>1, SedHeadTail
  <2>3. x \in SedStates
    BY <1>2, <2>1, <2>2 DEF SedStates, SedSteps, SedAt
  <2>4. /\ sedPerm' = sedPerm \cup {code} /\ SedGo(p, x)
        /\ sedUnsure' = sedUnsure \cup (IF LateFor(p) THEN SedRoles \X {code} ELSE {})
        /\ UNCHANGED <<sedRole, sedGrant, sedUser, sedRevoked, sedSkipped>>
    BY <1>1, <1>5 DEF InsertCode, SedCreatePermission
  <2> HIDE DEF x, code
  <2> QED BY <1>1, <1>5, <2>1, <2>2, <2>3, <2>4, SedInsertKeeps DEF code
<1> QED BY <1>3, <1>4, <1>5

(* A role that is created: its definition is what the process fills next.  *)
LEMMA SedCreateRoleKeeps ==
  ASSUME SedInv, NEW p \in SedProcs, NEW role \in SedRoles, SedCreateRole(p, role) PROVE SedInv'
<1> DEFINE pr == sedProc[p]
           x == [pr EXCEPT !.step = "fill", !.items = @ \ {role}, !.item = role]
<1> USE SeedAssumption
<1>1. SedLocal(pr) /\ SedTypeOK /\ pr \in SedStates /\ pr.step = "role" /\ role \in pr.items /\ pr.items \subseteq SedRoles
  BY DEF SedInv, SedLocal, SedHands, SedCreateRole, InPhase
<1>2. CASE role \in sedRole
  BY <1>2, SedStopKeeps DEF SedCreateRole
<1>3. CASE role \notin sedRole
  <2>1. /\ x.step = "fill" /\ x.codes = pr.codes /\ x.added = pr.added /\ x.items = pr.items \ {role}
        /\ x.item = role /\ x.known = pr.known /\ x.role = pr.role
    BY <1>1 DEF SedStates
  <2>2. x \in SedStates
    BY <1>1, <2>1 DEF SedStates, SedSteps
  <2>3. /\ SedGo(p, x) /\ sedRole' = sedRole \cup {role}
        /\ UNCHANGED <<sedPerm, sedGrant, sedUser, sedRevoked, sedUnsure, sedSkipped>>
    BY <1>3 DEF SedCreateRole, sedHistory
  <2> HIDE DEF x
  <2>4. sedProc'[p] = x /\ DOMAIN sedProc' = SedProcs /\ \A q \in SedProcs \ {p} : sedProc'[q] = sedProc[q]
    BY <1>1, <2>3 DEF SedGo, SedTypeOK
  <2>5. SedTypeOK'
    BY <1>1, <2>3, <2>4 DEF SedTypeOK
  <2>6. ASSUME NEW q \in SedProcs PROVE SedLocal(sedProc[q])'
    <3>1. CASE q = p
      <4>1. SedHands(sedProc[q])'
        BY <1>1, <2>1, <2>2, <2>4, <3>1 DEF SedHands
      <4>2. KnowsCodes(sedProc[q])'
        BY <1>1, <2>1, <2>3, <2>4, <3>1 DEF SedLocal, KnowsCodes
      <4>3. PhasesDone(sedProc[q])'
        BY <1>1, <2>1, <2>3, <2>4, <3>1 DEF SedLocal, PhasesDone, Behind
      <4> QED BY <4>1, <4>2, <4>3 DEF SedLocal
    <3>2. CASE q # p
      <4>1. SedLocal(sedProc[q]) /\ sedProc'[q] = sedProc[q]
        BY <2>4, <3>2 DEF SedInv
      <4> QED BY <2>3, <4>1 DEF SedLocal, SedHands, KnowsCodes, PhasesDone
    <3> QED BY <3>1, <3>2
  <2>7. RevokedStay'
    <3> SUFFICES ASSUME NEW r \in SedRoles, NEW c \in SedCodes, <<r, c>> \in sedRevoked, <<r, c>> \notin sedUnsure
                 PROVE  /\ c \in sedPerm /\ r \in sedRole' /\ c \notin sedGrant[r]
                        /\ \A q \in SedProcs : WillNotGrant(sedProc'[q], r, c)
      BY <2>3 DEF RevokedStay, WillNotGrant
    <3>1. c \in sedPerm /\ r \in sedRole /\ c \notin sedGrant[r] /\ \A q \in SedProcs : WillNotGrant(sedProc[q], r, c)
      BY DEF SedInv, RevokedStay
    <3> QED BY <1>3, <2>1, <2>3, <2>4, <3>1 DEF WillNotGrant
  <2>8. DefinedFollow'
    <3> SUFFICES ASSUME NEW r \in SedRoles, NEW c \in SedCodes, r \in sedRole', c \in sedPerm, c \in SedDefs[r],
                        <<r, c>> \notin sedUnsure \cup sedRevoked, c \notin sedGrant[r]
                 PROVE  Promised(r, c)'
      BY <2>3 DEF DefinedFollow
    <3>1. CASE r = role
      <4>1. WillGrant(sedProc'[p], r, c)
        BY <1>1, <2>1, <2>4, <3>1 DEF SedLocal, KnowsCodes, WillGrant
      <4> QED BY <4>1, SedPromised
    <3>2. CASE r # role
      <4>1. PICK q \in SedProcs : WillGrant(sedProc[q], r, c)
        BY <2>3, <3>2 DEF SedInv, DefinedFollow, Promised
      <4>2. WillGrant(sedProc'[q], r, c)
        BY <1>1, <2>4, <4>1 DEF WillGrant
      <4> QED BY <4>2, SedPromised
    <3> QED BY <3>1, <3>2
  <2>9. RolesFollow'
    <3> SUFFICES ASSUME NEW r \in SedRoles, r \notin sedRole, r # role
                 PROVE  \/ \E q \in SedProcs : sedProc'[q].step \in {"role", "fill"} /\ r \in sedProc'[q].items
                        \/ \A n \in SedNames : SedAccounts[n] = r => n \in sedSkipped
      BY <2>3 DEF RolesFollow
    <3>1. r \in pr.items
      BY <1>1 DEF SedLocal, PhasesDone
    <3> QED BY <2>1, <2>4, <3>1
  <2>10. AccountsFollow'
    BY <1>1, <2>1, <2>3, <2>4 DEF SedInv, AccountsFollow
  <2> QED BY <2>5, <2>6, <2>7, <2>8, <2>9, <2>10 DEF SedInv
<1> QED BY <1>2, <1>3

(* A role whose codes are replaced: the process at the later write of two  *)
(* leaves the role open.                                                   *)
LEMMA SedReplaceKeeps ==
  ASSUME SedInv, NEW p \in SedProcs, NEW x \in SedStates, NEW role \in SedRoles, NEW codes \in SUBSET SedCodes,
         sedProc[p].step \in {"fill", "grant"}, sedProc[p].item = role,
         SedGo(p, x), ReplaceGrants(p, role, codes),
         SedLocal(x), x.step \in {"role", "sync", "read"},
         x.added \subseteq sedProc[p].added,
         sedProc[p].step = "fill" => (x.step = "role" /\ sedProc[p].items \subseteq x.items) \/ sedProc[p].items = {},
         sedProc[p].step = "grant" => x.step = "read" /\ sedProc[p].items \subseteq x.items /\ x.added = sedProc[p].added,
         \A c \in codes : <<role, c>> \in sedRevoked => <<role, c>> \in sedUnsure,
         \A c \in SedDefs[role] \cap sedPerm : c \in sedGrant[role] \/ WillGrant(sedProc[p], role, c) =>
           <<role, c>> \in sedUnsure \/ c \in codes
  PROVE  SedInv'
<1> DEFINE pr == sedProc[p]
<1> USE SeedAssumption
<1>1. SedLocal(pr) /\ SedTypeOK
  BY DEF SedInv
<1>2. sedProc'[p] = x /\ DOMAIN sedProc' = SedProcs /\ \A q \in SedProcs \ {p} : sedProc'[q] = sedProc[q]
  BY <1>1 DEF SedGo, SedTypeOK
<1>3. /\ UNCHANGED <<sedPerm, sedRole, sedUser, sedRevoked, sedSkipped>>
      /\ sedGrant' = [sedGrant EXCEPT ![role] = codes] /\ sedUnsure' = sedUnsure \cup Overwritten(p, role)
  BY DEF ReplaceGrants
<1>4. sedGrant' \in [SedRoles -> SUBSET SedCodes] /\ sedGrant'[role] = codes /\ \A r \in SedRoles \ {role} : sedGrant'[r] = sedGrant[r]
  BY <1>1, <1>3 DEF SedTypeOK
<1>5. sedUnsure \subseteq sedUnsure' /\ sedUnsure' \subseteq SedRoles \X SedCodes
  BY <1>1, <1>3 DEF SedTypeOK, Overwritten
<1>6. ASSUME NEW q \in SedProcs \ {p}, sedProc[q].step = "grant", sedProc[q].item = role, NEW c \in SedCodes
      PROVE  <<role, c>> \in sedUnsure'
  BY <1>3, <1>6 DEF Overwritten, InPhase
<1>7. SedTypeOK'
  BY <1>1, <1>2, <1>3, <1>4, <1>5 DEF SedTypeOK
<1>8. ASSUME NEW q \in SedProcs PROVE SedLocal(sedProc[q])'
  <2>1. CASE q = p
    <3>1. SedHands(sedProc[q])' /\ PhasesDone(sedProc[q])'
      BY <1>2, <1>3, <2>1 DEF SedLocal, SedHands, PhasesDone
    <3>2. KnowsCodes(sedProc[q])'
      BY <1>2, <1>3, <1>5, <2>1 DEF SedLocal, KnowsCodes
    <3> QED BY <3>1, <3>2 DEF SedLocal
  <2>2. CASE q # p
    <3>1. SedLocal(sedProc[q]) /\ sedProc'[q] = sedProc[q]
      BY <1>2, <2>2 DEF SedInv
    <3>2. SedHands(sedProc[q])' /\ PhasesDone(sedProc[q])'
      BY <1>3, <3>1 DEF SedLocal, SedHands, PhasesDone
    <3>3. KnowsCodes(sedProc[q])'
      <4>1. sedProc[q].step \in {"role", "fill"} => \A c \in sedPerm :
              sedProc[q].known = {} \/ c \in sedProc[q].known \/ \A r \in SedRoles : <<r, c>> \in sedUnsure'
        BY <1>5, <3>1 DEF SedLocal, KnowsCodes
      <4>2. CASE sedProc[q].step = "grant" /\ sedProc[q].item = role
        BY <1>3, <1>4, <1>6, <2>2, <3>1, <4>1, <4>2 DEF KnowsCodes
      <4>3. CASE sedProc[q].step = "grant" /\ sedProc[q].item # role
        <5>1. sedProc[q].item \in SedRoles
          BY <3>1, <4>3 DEF SedLocal, SedHands
        <5> QED BY <1>3, <1>4, <1>5, <3>1, <4>1, <4>3, <5>1 DEF SedLocal, KnowsCodes
      <4>4. CASE sedProc[q].step # "grant"
        BY <1>3, <3>1, <4>1, <4>4 DEF KnowsCodes
      <4> QED BY <4>2, <4>3, <4>4
    <3> QED BY <3>2, <3>3 DEF SedLocal
  <2> QED BY <2>1, <2>2
<1>9. RevokedStay'
  <2> SUFFICES ASSUME NEW r \in SedRoles, NEW c \in SedCodes, <<r, c>> \in sedRevoked, <<r, c>> \notin sedUnsure'
               PROVE  /\ c \in sedPerm /\ r \in sedRole /\ c \notin sedGrant'[r]
                      /\ \A q \in SedProcs : WillNotGrant(sedProc'[q], r, c)
    BY <1>3 DEF RevokedStay, WillNotGrant
  <2>1. c \in sedPerm /\ r \in sedRole /\ c \notin sedGrant[r] /\ \A q \in SedProcs : WillNotGrant(sedProc[q], r, c)
    BY <1>5 DEF SedInv, RevokedStay
  <2>2. c \notin sedGrant'[r]
    BY <1>4, <1>5, <2>1
  <2> QED BY <1>2, <2>1, <2>2 DEF WillNotGrant
<1>10. DefinedFollow'
  <2> SUFFICES ASSUME NEW r \in SedRoles, NEW c \in SedCodes, r \in sedRole, c \in sedPerm, c \in SedDefs[r],
                      <<r, c>> \notin sedUnsure' \cup sedRevoked, c \notin sedGrant'[r]
               PROVE  Promised(r, c)'
    BY <1>3 DEF DefinedFollow
  <2>1. c \in sedGrant[r] \/ \E q \in SedProcs : WillGrant(sedProc[q], r, c)
    BY <1>5 DEF SedInv, DefinedFollow, Promised
  <2>2. ASSUME NEW q \in SedProcs \ {p}, WillGrant(sedProc[q], r, c) PROVE Promised(r, c)'
    BY <1>2, <2>2, SedPromised
  <2>3. CASE r = role
    BY <1>4, <1>5, <2>1, <2>2, <2>3
  <2>4. CASE r # role
    <3>1. PICK q \in SedProcs : WillGrant(sedProc[q], r, c)
      BY <1>4, <2>1, <2>4
    <3>2. WillGrant(pr, r, c) => WillGrant(x, r, c)
      BY <2>4 DEF WillGrant
    <3> QED BY <1>2, <2>2, <3>1, <3>2, SedPromised
  <2> QED BY <2>3, <2>4
<1>11. RolesFollow'
  BY <1>1, <1>2, <1>3 DEF SedInv, RolesFollow, SedLocal, PhasesDone
<1>12. AccountsFollow'
  BY <1>2, <1>3 DEF SedInv, AccountsFollow
<1> QED BY <1>7, <1>8, <1>9, <1>10, <1>11, <1>12 DEF SedInv

LEMMA SedFillRoleKeeps == ASSUME SedInv, NEW p \in SedProcs, SedFillRole(p) PROVE SedInv'
<1> DEFINE pr == sedProc[p]  role == pr.item  codes == Sanitized(SedDefs[role], pr.known)
           on == [pr EXCEPT !.step = "role", !.item = SedNone]
           x == IF pr.items = {} THEN SedAt("sync") ELSE on
<1> USE SeedAssumption
<1>1. SedLocal(pr) /\ pr \in SedStates /\ pr.step = "fill" /\ role \in SedRoles /\ pr.items \subseteq SedRoles
  BY DEF SedInv, SedLocal, SedHands, SedFillRole, InPhase
<1>2. SedGo(p, x) /\ ReplaceGrants(p, role, codes)
  BY SedOrder DEF SedFillRole
<1>3. /\ on.step = "role" /\ on.codes = pr.codes /\ on.added = pr.added /\ on.items = pr.items
      /\ on.item = SedNone /\ on.known = pr.known /\ on.role = pr.role
  BY <1>1 DEF SedStates
<1>4. on \in SedStates
  BY <1>1, <1>3 DEF SedStates, SedSteps
<1>5. SedAt("sync") \in SedStates /\ SedAt("sync").step = "sync" /\ SedAt("sync").added = {}
  BY DEF SedStates, SedSteps, SedAt
<1>6. codes \in SUBSET SedCodes
  BY <1>1 DEF Sanitized
<1>7. SedLocal(on)
  BY <1>1, <1>3, <1>4 DEF SedLocal, SedHands, KnowsCodes, PhasesDone, Behind
<1>8. pr.items = {} => SedLocal(SedAt("sync"))
  BY <1>1, <1>5 DEF SedLocal, SedHands, KnowsCodes, PhasesDone, Behind
<1>9. \A c \in codes : <<role, c>> \in sedRevoked => <<role, c>> \in sedUnsure
  BY <1>1, <1>6 DEF SedInv, RevokedStay, WillNotGrant
<1>10. \A c \in SedDefs[role] \cap sedPerm : <<role, c>> \in sedUnsure \/ c \in codes
  BY <1>1 DEF SedLocal, KnowsCodes, Sanitized
<1> HIDE DEF on, codes
<1>11. /\ x \in SedStates /\ SedLocal(x) /\ x.step \in {"role", "sync", "read"} /\ x.added \subseteq pr.added
       /\ (x.step = "role" /\ pr.items \subseteq x.items) \/ pr.items = {}
  BY <1>3, <1>4, <1>5, <1>7, <1>8
<1> HIDE DEF x
<1> QED BY <1>1, <1>2, <1>6, <1>9, <1>10, <1>11, SedReplaceKeeps

LEMMA SedGrantNewKeeps == ASSUME SedInv, NEW p \in SedProcs, SedGrantNew(p) PROVE SedInv'
<1> DEFINE pr == sedProc[p]  role == pr.item  codes == Merged(pr.known, NewFor(role, pr.added))
           x == [pr EXCEPT !.step = "read", !.item = SedNone]
<1> USE SeedAssumption
<1>1. SedLocal(pr) /\ pr \in SedStates /\ pr.step = "grant" /\ role \in SedRoles /\ pr.items \subseteq SedRoles
  BY DEF SedInv, SedLocal, SedHands, SedGrantNew, InPhase
<1>2. SedGo(p, x) /\ ReplaceGrants(p, role, codes)
  BY DEF SedGrantNew
<1>3. /\ x.step = "read" /\ x.codes = pr.codes /\ x.added = pr.added /\ x.items = pr.items
      /\ x.item = SedNone /\ x.known = pr.known /\ x.role = pr.role
  BY <1>1 DEF SedStates
<1>4. x \in SedStates
  BY <1>1, <1>3 DEF SedStates, SedSteps
<1>5. codes \in SUBSET SedCodes
  BY <1>1 DEF Merged, NewFor, SedStates
<1> HIDE DEF x
<1>6. SedLocal(x)
  BY <1>1, <1>3, <1>4 DEF SedLocal, SedHands, KnowsCodes, PhasesDone, Behind
<1>7. \A c \in codes : <<role, c>> \in sedRevoked => <<role, c>> \in sedUnsure
  BY <1>1, <1>5 DEF SedInv, RevokedStay, WillNotGrant, Merged, NewFor
<1>8. \A c \in SedDefs[role] \cap sedPerm : c \in sedGrant[role] \/ WillGrant(pr, role, c) =>
        <<role, c>> \in sedUnsure \/ c \in codes
  BY <1>1 DEF SedLocal, KnowsCodes, WillGrant, Merged, NewFor
<1> HIDE DEF codes
<1> QED BY <1>1, <1>2, <1>3, <1>4, <1>5, <1>6, <1>7, <1>8, SedReplaceKeeps

-----------------------------------------------------------------------------
(* The role of an account to come is the configuration's unless a role     *)
(* that is not there yet leaves the account open.                          *)
LEMMA SedChooseKeeps ==
  ASSUME SedInv, NEW p \in SedProcs, NEW name \in SedNames, NEW role \in SedRoles, ChooseRole(p, name, role),
         UNCHANGED <<sedTables, sedRevoked, sedUnsure>>,
         sedSkipped \subseteq sedSkipped', sedSkipped' \subseteq SedNames,
         name \notin sedSkipped' => role = SedAccounts[name]
  PROVE  SedInv'
<1> DEFINE pr == sedProc[p]
           x == [pr EXCEPT !.step = "create", !.items = @ \ {name}, !.item = name, !.role = role]
<1> USE SeedAssumption
<1>1. SedLocal(pr) /\ SedTypeOK /\ pr \in SedStates /\ pr.step = "account" /\ name \in pr.items
      /\ pr.items \subseteq SedNames /\ pr.item = SedNone
  BY DEF SedInv, SedLocal, SedHands, ChooseRole, InPhase
<1>2. /\ x.step = "create" /\ x.codes = pr.codes /\ x.added = pr.added /\ x.items = pr.items \ {name}
      /\ x.item = name /\ x.known = pr.known /\ x.role = role
  BY <1>1 DEF SedStates
<1>3. x \in SedStates
  BY <1>1, <1>2 DEF SedStates, SedSteps
<1>4. SedGo(p, x)
  BY DEF ChooseRole
<1>5. UNCHANGED <<sedPerm, sedRole, sedGrant, sedUser, sedRevoked, sedUnsure>>
  BY DEF sedTables
<1> HIDE DEF x
<1>6. sedProc'[p] = x /\ DOMAIN sedProc' = SedProcs /\ \A q \in SedProcs \ {p} : sedProc'[q] = sedProc[q]
  BY <1>1, <1>4 DEF SedGo, SedTypeOK
<1>7. SedTypeOK'
  BY <1>1, <1>5, <1>6 DEF SedTypeOK
<1>8. ASSUME NEW q \in SedProcs PROVE SedLocal(sedProc[q])'
  <2>1. CASE q = p
    <3>1. SedHands(sedProc[q])' /\ KnowsCodes(sedProc[q])'
      BY <1>1, <1>2, <1>3, <1>6, <2>1 DEF SedHands, KnowsCodes
    <3>2. PhasesDone(sedProc[q])'
      BY <1>1, <1>2, <1>5, <1>6, <2>1 DEF SedLocal, PhasesDone, Behind
    <3> QED BY <3>1, <3>2 DEF SedLocal
  <2>2. CASE q # p
    <3>1. SedLocal(sedProc[q]) /\ sedProc'[q] = sedProc[q]
      BY <1>6, <2>2 DEF SedInv
    <3> QED BY <1>5, <3>1 DEF SedLocal, SedHands, KnowsCodes, PhasesDone
  <2> QED BY <2>1, <2>2
<1>9. RevokedStay'
  <2> SUFFICES ASSUME NEW r \in SedRoles, NEW c \in SedCodes, <<r, c>> \in sedRevoked, <<r, c>> \notin sedUnsure
               PROVE  /\ c \in sedPerm /\ r \in sedRole /\ c \notin sedGrant[r]
                      /\ \A q \in SedProcs : WillNotGrant(sedProc'[q], r, c)
    BY <1>5 DEF RevokedStay, WillNotGrant
  <2>1. c \in sedPerm /\ r \in sedRole /\ c \notin sedGrant[r] /\ \A q \in SedProcs : WillNotGrant(sedProc[q], r, c)
    BY DEF SedInv, RevokedStay
  <2> QED BY <1>2, <1>6, <2>1 DEF WillNotGrant
<1>10. DefinedFollow'
  <2> SUFFICES ASSUME NEW r \in SedRoles, NEW c \in SedCodes, r \in sedRole, c \in sedPerm, c \in SedDefs[r],
                      <<r, c>> \notin sedUnsure \cup sedRevoked, c \notin sedGrant[r]
               PROVE  Promised(r, c)'
    BY <1>5 DEF DefinedFollow
  <2>1. PICK q \in SedProcs : WillGrant(sedProc[q], r, c)
    BY DEF SedInv, DefinedFollow, Promised
  <2>2. q # p
    BY <1>1, <2>1 DEF WillGrant
  <2> QED BY <1>6, <2>1, <2>2, SedPromised
<1>11. RolesFollow'
  BY <1>1, <1>5, <1>6 DEF SedInv, RolesFollow
<1>12. AccountsFollow'
  BY <1>2, <1>5, <1>6 DEF SedInv, AccountsFollow
<1> QED BY <1>7, <1>8, <1>9, <1>10, <1>11, <1>12 DEF SedInv

LEMMA SedGetRoleKeeps ==
  ASSUME SedInv, NEW p \in SedProcs, NEW name \in SedNames, SedGetRole(p, name) PROVE SedInv'
<1> DEFINE role == IF SedAccounts[name] \in sedRole THEN SedAccounts[name] ELSE SedViewer
<1> USE SeedAssumption
<1>1. SedLocal(sedProc[p]) /\ sedProc[p].step = "account" /\ SedTypeOK
  BY DEF SedInv, SedGetRole, ChooseRole, InPhase
<1>2. /\ ChooseRole(p, name, role) /\ UNCHANGED <<sedTables, sedRevoked, sedUnsure>>
      /\ sedSkipped' = sedSkipped \cup {n \in {name} : \E q \in SedProcs \ {p} : InPhase(q, {"role", "fill"})}
  BY DEF SedGetRole
<1>3. role \in SedRoles
  OBVIOUS
<1>4. ASSUME SedAccounts[name] \notin sedRole PROVE name \in sedSkipped'
  <2>1. sedRole # {} /\ SedAccounts[name] \in SedRoles
    BY <1>1 DEF SedLocal, PhasesDone, Behind
  <2>2. CASE \E q \in SedProcs : sedProc[q].step \in {"role", "fill"}
    BY <1>1, <1>2, <2>2 DEF InPhase
  <2>3. CASE name \in sedSkipped
    BY <1>2, <2>3
  <2> QED BY <1>4, <2>1, <2>2, <2>3 DEF SedInv, RolesFollow
<1>5. sedSkipped \subseteq sedSkipped' /\ sedSkipped' \subseteq SedNames
  BY <1>1, <1>2 DEF SedTypeOK
<1>6. name \notin sedSkipped' => role = SedAccounts[name]
  BY <1>4
<1> HIDE DEF role
<1> QED BY <1>2, <1>3, <1>5, <1>6, SedChooseKeeps

LEMMA SedGetRoleFailsKeeps ==
  ASSUME SedInv, NEW p \in SedProcs, NEW name \in SedNames, SedGetRoleFails(p, name) PROVE SedInv'
<1>1. /\ ChooseRole(p, name, SedViewer) /\ sedSkipped' = sedSkipped \cup {name}
      /\ UNCHANGED <<sedTables, sedRevoked, sedUnsure>>
  BY DEF SedGetRoleFails
<1>2. sedSkipped \subseteq SedNames /\ SedViewer \in SedRoles
  BY SeedAssumption DEF SedInv, SedTypeOK
<1> QED BY <1>1, <1>2, SedChooseKeeps

LEMMA SedCreateUserKeeps == ASSUME SedInv, NEW p \in SedProcs, SedCreateUser(p) PROVE SedInv'
<1> DEFINE pr == sedProc[p]  name == pr.item
           x == [pr EXCEPT !.step = "account", !.item = SedNone, !.role = SedNone]
<1> USE SeedAssumption
<1>1. SedLocal(pr) /\ SedTypeOK /\ pr \in SedStates /\ pr.step = "create" /\ name \in SedNames
      /\ pr.role \in SedRoles /\ pr.items \subseteq SedNames
  BY DEF SedInv, SedLocal, SedHands, SedCreateUser, InPhase
<1>2. CASE name \in SedExisting
  BY <1>2, SedStopKeeps DEF SedCreateUser
<1>3. CASE name \notin SedExisting
  <2>1. /\ x.step = "account" /\ x.codes = pr.codes /\ x.added = pr.added /\ x.items = pr.items
        /\ x.item = SedNone /\ x.known = pr.known /\ x.role = SedNone
    BY <1>1 DEF SedStates
  <2>2. x \in SedStates
    BY <1>1, <2>1 DEF SedStates, SedSteps
  <2>3. /\ SedGo(p, x) /\ sedUser' = [sedUser EXCEPT ![name] = pr.role]
        /\ UNCHANGED <<sedPerm, sedRole, sedGrant, sedRevoked, sedUnsure, sedSkipped>>
    BY <1>3 DEF SedCreateUser, sedHistory
  <2> HIDE DEF x
  <2>4. sedProc'[p] = x /\ DOMAIN sedProc' = SedProcs /\ \A q \in SedProcs \ {p} : sedProc'[q] = sedProc[q]
    BY <1>1, <2>3 DEF SedGo, SedTypeOK
  <2>5. /\ sedUser' \in [SedNames -> SedRoles \cup {SedNone}]
        /\ sedUser'[name] = pr.role /\ sedUser'[name] # SedNone
        /\ \A n \in SedNames \ {name} : sedUser'[n] = sedUser[n]
    BY <1>1, <2>3 DEF SedTypeOK
  <2>6. SedTypeOK'
    BY <1>1, <2>3, <2>4, <2>5 DEF SedTypeOK
  <2>7. ASSUME NEW q \in SedProcs PROVE SedLocal(sedProc[q])'
    <3>1. CASE q = p
      <4>1. SedHands(sedProc[q])' /\ KnowsCodes(sedProc[q])'
        BY <1>1, <2>1, <2>2, <2>4, <3>1 DEF SedHands, KnowsCodes
      <4>2. PhasesDone(sedProc[q])'
        BY <1>1, <2>1, <2>3, <2>4, <2>5, <3>1 DEF SedLocal, PhasesDone, Behind
      <4> QED BY <4>1, <4>2 DEF SedLocal
    <3>2. CASE q # p
      <4>1. SedLocal(sedProc[q]) /\ sedProc'[q] = sedProc[q]
        BY <2>4, <3>2 DEF SedInv
      <4> QED BY <2>3, <2>5, <4>1 DEF SedLocal, SedHands, KnowsCodes, PhasesDone
    <3> QED BY <3>1, <3>2
  <2>8. RevokedStay'
    <3> SUFFICES ASSUME NEW r \in SedRoles, NEW c \in SedCodes, <<r, c>> \in sedRevoked, <<r, c>> \notin sedUnsure
                 PROVE  /\ c \in sedPerm /\ r \in sedRole /\ c \notin sedGrant[r]
                        /\ \A q \in SedProcs : WillNotGrant(sedProc'[q], r, c)
      BY <2>3 DEF RevokedStay, WillNotGrant
    <3>1. c \in sedPerm /\ r \in sedRole /\ c \notin sedGrant[r] /\ \A q \in SedProcs : WillNotGrant(sedProc[q], r, c)
      BY DEF SedInv, RevokedStay
    <3> QED BY <2>1, <2>4, <3>1 DEF WillNotGrant
  <2>9. DefinedFollow'
    <3> SUFFICES ASSUME NEW r \in SedRoles, NEW c \in SedCodes, r \in sedRole, c \in sedPerm, c \in SedDefs[r],
                        <<r, c>> \notin sedUnsure \cup sedRevoked, c \notin sedGrant[r]
                 PROVE  Promised(r, c)'
      BY <2>3 DEF DefinedFollow
    <3>1. PICK q \in SedProcs : WillGrant(sedProc[q], r, c)
      BY DEF SedInv, DefinedFollow, Promised
    <3>2. q # p
      BY <1>1, <3>1 DEF WillGrant
    <3> QED BY <2>4, <3>1, <3>2, SedPromised
  <2>10. RolesFollow'
    BY <1>1, <2>3, <2>4 DEF SedInv, RolesFollow
  <2>11. AccountsFollow'
    <3>1. name \notin sedSkipped => sedUser'[name] = SedAccounts[name]
      BY <1>1, <2>5 DEF SedLocal, PhasesDone
    <3> QED BY <2>1, <2>3, <2>4, <2>5, <3>1 DEF SedInv, AccountsFollow
  <2> QED BY <2>6, <2>7, <2>8, <2>9, <2>10, <2>11 DEF SedInv
<1> QED BY <1>2, <1>3

(* An administrator's change over what a seed has read, or is about to     *)
(* grant, leaves the code open.                                            *)
LEMMA SedEditKeeps ==
  ASSUME SedInv, NEW role \in SedRoles, NEW code \in SedCodes, SedEdit(role, code) PROVE SedInv'
<1> USE SeedAssumption
<1>1. SedTypeOK /\ role \in sedRole /\ code \in sedPerm /\ sedGrant[role] \subseteq SedCodes
  BY DEF SedInv, SedTypeOK, SedEdit
<1>2. UNCHANGED <<sedPerm, sedRole, sedUser, sedProc, sedSkipped>>
  BY DEF SedEdit
<1>3. /\ sedGrant' = [sedGrant EXCEPT ![role] = IF code \in sedGrant[role] THEN @ \ {code} ELSE @ \cup {code}]
      /\ sedRevoked' = IF code \in sedGrant[role] THEN sedRevoked \cup {<<role, code>>} ELSE sedRevoked \ {<<role, code>>}
  BY DEF SedEdit
<1>4. /\ sedGrant' \in [SedRoles -> SUBSET SedCodes]
      /\ sedGrant'[role] = IF code \in sedGrant[role] THEN sedGrant[role] \ {code} ELSE sedGrant[role] \cup {code}
      /\ \A r \in SedRoles \ {role} : sedGrant'[r] = sedGrant[r]
  BY <1>1, <1>3 DEF SedTypeOK
<1>5. /\ sedUnsure \subseteq sedUnsure' /\ sedUnsure' \subseteq SedRoles \X SedCodes
      /\ \A q \in SedProcs : sedProc[q].step \in {"grant", "fill"} /\ sedProc[q].item = role =>
           \A c \in SedCodes : <<role, c>> \in sedUnsure'
      /\ \A q \in SedProcs : code \in sedProc[q].added => <<role, code>> \in sedUnsure'
  BY <1>1 DEF SedEdit, SedTypeOK, InPhase
<1>6. SedTypeOK'
  <2>1. sedRevoked' \subseteq SedRoles \X SedCodes
    BY <1>1, <1>3 DEF SedTypeOK
  <2> QED BY <1>1, <1>2, <1>4, <1>5, <2>1 DEF SedTypeOK
<1>7. ASSUME NEW q \in SedProcs PROVE SedLocal(sedProc[q])'
  <2>1. SedLocal(sedProc[q])
    BY DEF SedInv
  <2>2. SedHands(sedProc[q])' /\ PhasesDone(sedProc[q])'
    BY <1>2, <2>1 DEF SedLocal, SedHands, PhasesDone
  <2>3. KnowsCodes(sedProc[q])'
    <3>1. sedProc[q].step \in {"role", "fill"} => \A c \in sedPerm :
            sedProc[q].known = {} \/ c \in sedProc[q].known \/ \A r \in SedRoles : <<r, c>> \in sedUnsure'
      BY <1>5, <2>1 DEF SedLocal, KnowsCodes
    <3>2. sedProc[q].step = "grant" => sedProc[q].item \in SedRoles
      BY <2>1 DEF SedLocal, SedHands
    <3>3. ASSUME sedProc[q].step = "grant", NEW c \in sedGrant'[sedProc[q].item]
          PROVE  <<sedProc[q].item, c>> \in sedUnsure' \/ c \in sedProc[q].known
      <4>1. c \in SedCodes
        BY <1>4, <3>2, <3>3
      <4>2. CASE sedProc[q].item = role
        BY <1>5, <3>3, <4>1, <4>2
      <4>3. CASE sedProc[q].item # role
        BY <1>4, <1>5, <2>1, <3>2, <3>3, <4>3 DEF SedLocal, KnowsCodes
      <4> QED BY <4>2, <4>3
    <3> QED BY <1>2, <3>1, <3>3 DEF KnowsCodes
  <2> QED BY <2>2, <2>3 DEF SedLocal
<1>8. RevokedStay'
  <2> SUFFICES ASSUME NEW r \in SedRoles, NEW c \in SedCodes, <<r, c>> \in sedRevoked', <<r, c>> \notin sedUnsure'
               PROVE  /\ c \in sedPerm /\ r \in sedRole /\ c \notin sedGrant'[r]
                      /\ \A q \in SedProcs : WillNotGrant(sedProc[q], r, c)
    BY <1>2 DEF RevokedStay, WillNotGrant
  <2>1. CASE r = role /\ c = code
    <3>1. code \in sedGrant[role]
      <4> SUFFICES ASSUME code \notin sedGrant[role] PROVE FALSE
        OBVIOUS
      <4> QED BY <1>3, <2>1
    <3>2. c \notin sedGrant'[r]
      BY <1>4, <2>1, <3>1
    <3>3. \A q \in SedProcs : WillNotGrant(sedProc[q], r, c)
      BY <1>5, <2>1 DEF WillNotGrant
    <3> QED BY <1>1, <2>1, <3>2, <3>3
  <2>2. CASE ~(r = role /\ c = code)
    <3>1. <<r, c>> \in sedRevoked /\ <<r, c>> \notin sedUnsure
      BY <1>3, <1>5, <2>2
    <3>2. c \in sedPerm /\ r \in sedRole /\ c \notin sedGrant[r] /\ \A q \in SedProcs : WillNotGrant(sedProc[q], r, c)
      BY <3>1 DEF SedInv, RevokedStay
    <3>3. c \notin sedGrant'[r]
      BY <1>4, <2>2, <3>2
    <3> QED BY <3>2, <3>3
  <2> QED BY <2>1, <2>2
<1>9. DefinedFollow'
  <2> SUFFICES ASSUME NEW r \in SedRoles, NEW c \in SedCodes, r \in sedRole, c \in sedPerm, c \in SedDefs[r],
                      <<r, c>> \notin sedUnsure' \cup sedRevoked', c \notin sedGrant'[r]
               PROVE  Promised(r, c)'
    BY <1>2 DEF DefinedFollow
  <2>1. <<r, c>> \notin sedUnsure \cup sedRevoked /\ c \notin sedGrant[r]
    <3>1. CASE r = role /\ c = code
      BY <1>3, <1>4, <3>1
    <3>2. CASE ~(r = role /\ c = code)
      BY <1>3, <1>4, <1>5, <3>2
    <3> QED BY <3>1, <3>2
  <2>2. PICK q \in SedProcs : WillGrant(sedProc[q], r, c)
    BY <2>1 DEF SedInv, DefinedFollow, Promised
  <2> QED BY <1>2, <2>2, SedPromised
<1>10. RolesFollow' /\ AccountsFollow'
  BY <1>2 DEF SedInv, RolesFollow, AccountsFollow
<1> QED BY <1>6, <1>7, <1>8, <1>9, <1>10 DEF SedInv

-----------------------------------------------------------------------------
LEMMA SedStepKeeps == SedInv /\ [SeedNext]_seedVars => SedInv'
<1> SUFFICES ASSUME SedInv, [SeedNext]_seedVars PROVE SedInv'
  OBVIOUS
<1>1. ASSUME NEW p \in SedProcs, SeedStep(p) PROVE SedInv'
  <2>1. CASE \E name \in SedNames : SedGetRole(p, name)
    BY <2>1, SedGetRoleKeeps
  <2>2. CASE \E role \in SedRoles : SedCreateRole(p, role) \/ SedReadGrants(p, role)
    BY <2>2, SedCreateRoleKeeps, SedReadGrantsKeeps
  <2>3. CASE SedStart(p) \/ SedCountPermissions(p) \/ SedCreatePermission(p)
    BY <2>3, SedStartKeeps, SedCountPermissionsKeeps, SedCreatePermissionKeeps
  <2>4. CASE SedKnownFails(p) \/ SedCountRoles(p) \/ SedKnownCodes(p) \/ SedFillRole(p)
    BY <2>4, SedKnownFailsKeeps, SedCountRolesKeeps, SedKnownCodesKeeps, SedFillRoleKeeps
  <2>5. CASE SedListCodes(p) \/ SedHas(p) \/ SedInsertNew(p) \/ SedInserted(p)
    BY <2>5, SedListCodesKeeps, SedHasKeeps, SedInsertNewKeeps, SedInsertedKeeps
  <2>6. CASE SedListRoles(p) \/ SedGrantNew(p) \/ SedSynced(p)
    BY <2>6, SedListRolesKeeps, SedGrantNewKeeps, SedSyncedKeeps
  <2>7. CASE SedCountUsers(p) \/ SedCreateUser(p) \/ SedSeeded(p)
    BY <2>7, SedCountUsersKeeps, SedCreateUserKeeps, SedSeededKeeps
  <2> QED BY <1>1, <2>1, <2>2, <2>3, <2>4, <2>5, <2>6, <2>7, Zenon DEF SeedStep
<1>2. ASSUME NEW p \in SedProcs, SedCrash(p) PROVE SedInv'
  BY <1>2, SedStopKeeps DEF SedCrash
<1>3. ASSUME NEW p \in SedProcs, NEW name \in SedNames, SedGetRoleFails(p, name) PROVE SedInv'
  BY <1>3, SedGetRoleFailsKeeps
<1>4. ASSUME NEW role \in SedRoles, NEW code \in SedCodes, SedEdit(role, code) PROVE SedInv'
  BY <1>4, SedEditKeeps
<1>5. CASE UNCHANGED seedVars
  <2>1. UNCHANGED <<sedPerm, sedRole, sedGrant, sedUser, sedProc, sedRevoked, sedUnsure, sedSkipped>>
    BY <1>5 DEF seedVars, sedTables, sedHistory
  <2>2. SedTypeOK' /\ RevokedStay' /\ RolesFollow' /\ AccountsFollow'
    BY <2>1 DEF SedInv, SedTypeOK, RevokedStay, WillNotGrant, RolesFollow, AccountsFollow
  <2>3. DefinedFollow'
    BY <2>1 DEF SedInv, DefinedFollow, Promised, WillGrant
  <2>4. (\A p \in SedProcs : SedLocal(sedProc[p]))'
    BY <2>1 DEF SedInv, SedLocal, SedHands, KnowsCodes, PhasesDone
  <2> QED BY <2>2, <2>3, <2>4 DEF SedInv
<1> QED BY <1>1, <1>2, <1>3, <1>4, <1>5, Zenon DEF SeedNext

(* What an administrator took from a role stays taken through restarts and *)
(* upgrades, and after them every built-in role holds the rest of its      *)
(* definition and every configured account has its role, for any processes,*)
(* catalogue, roles and accounts: but where seeds stopped or overlapped.   *)
THEOREM SeedIsKept == SeedSpec => []SeedHolds
<1>1. SedInv => SeedHolds
  <2> SUFFICES ASSUME SedInv PROVE SeedHolds
    OBVIOUS
  <2> USE SeedAssumption
  <2>1. Settled => SedCodes \subseteq sedPerm /\ \A p \in SedProcs : sedProc[p].step \in {"down", "serving"}
    BY DEF SedInv, SedLocal, PhasesDone, Behind, Settled, Seeding, InPhase
  <2>2. \A r \in SedRoles, c \in SedCodes : <<r, c>> \in sedRevoked /\ <<r, c>> \notin sedUnsure => c \notin sedGrant[r]
    BY DEF SedInv, RevokedStay
  <2>3. ASSUME Settled, NEW r \in SedRoles, NEW c \in SedCodes, <<r, c>> \notin sedUnsure, r \in sedRole, c \in SedDefs[r]
        PROVE  <<r, c>> \in sedRevoked \/ c \in sedGrant[r]
    <3>1. ~Promised(r, c)
      BY <2>1, <2>3 DEF Promised, WillGrant
    <3> QED BY <2>1, <2>3, <3>1 DEF SedInv, DefinedFollow
  <2>4. GrantsFollow
    BY <2>2, <2>3 DEF GrantsFollow
  <2>5. AccountsSeeded
    <3> SUFFICES ASSUME Settled, NEW n \in SedNames \ sedSkipped PROVE sedUser[n] = SedAccounts[n]
      BY DEF AccountsSeeded
    <3>1. \E p \in SedProcs : sedProc[p].step = "serving"
      BY DEF Settled, InPhase
    <3> QED BY <2>1, <3>1 DEF SedInv, AccountsFollow
  <2> QED BY <2>4, <2>5 DEF SeedHolds
<1> QED BY <1>1, SedInitInv, SedStepKeeps, PTL DEF SeedSpec
=============================================================================
