--------------------------- MODULE ContentProofs ----------------------------
(***************************************************************************)
(* Proofs about what is sent and with whose consent, for any callers,      *)
(* contents, fields and requests: TemplateCenter (review and revisions),   *)
(* PreferenceCenter (cache and consent log) and CampaignAdmin (creation    *)
(* and publication).                                                       *)
(***************************************************************************)
EXTENDS TemplateCenter, PreferenceCenter, CampaignAdmin, TLAPS

-----------------------------------------------------------------------------
(***************************************************************************)
(* TemplateCenter.  A write tests the version it has read in its WHERE     *)
(* clause, so what it read is still the row. The snapshots saved or still  *)
(* to be saved each name the content of their revision.                    *)
(***************************************************************************)
TplRows == [status : TplStatus, version : Nat, revision : Nat, content : TplContents,
            code : {"given", "tmp", "final"}]

TplCalls == [op : TplOps \cup {TplNone}, row : TplRows \cup {TplNone},
             expected : Nat \cup {TplNone}, saw : TplContents \cup {TplNone},
             step : {"idle", "shown", "write", "snapshot"}]

TemplateTypeOK ==
  /\ tplRow \in TplRows \cup {TplNone}
  /\ tplVersions \subseteq [revision : Nat, content : TplContents]
  /\ tplCall \in [TplCallers -> TplCalls]
  /\ tplBorn \in BOOLEAN

(* The row is inserted once: before that nobody has seen it.               *)
BornOnce ==
  /\ tplRow # TplNone => tplBorn
  /\ ~tplBorn => tplVersions = {} /\ \A c \in TplCallers : tplCall[c].step = "idle"

(* What a request was shown: while the version is the row's, the row.      *)
ShownOK(call) ==
  call.step = "shown" =>
    /\ call.row \in TplRows
    /\ tplRow # TplNone =>
         /\ call.row.version <= tplRow.version
         /\ call.row.version = tplRow.version => call.row.content = tplRow.content

(* What a request is about to write: while the version it read is the      *)
(* row's, it differs from the row as its operation may differ.             *)
PendingOK(call) ==
  call.step = "write" =>
    /\ call.row \in TplRows /\ call.op \in TplOps
    /\ call.row.status = "approved" => call.op \in {"approve", "delete"}
    /\ call.expected # TplNone => call.expected <= call.row.version
    /\ call.saw # TplNone =>
         /\ call.expected # TplNone
         /\ call.expected = call.row.version => call.saw = call.row.content
    /\ tplRow # TplNone =>
         /\ call.row.version <= tplRow.version
         /\ call.row.version = tplRow.version =>
              /\ call.op \in Snapshots => call.row.revision = tplRow.revision + 1
              /\ call.op \notin Snapshots => call.row.revision = tplRow.revision
              /\ call.op \notin {"update", "rollback"} => call.row.content = tplRow.content

Revisions(call) ==
  IF call.step = "snapshot" THEN {[revision |-> call.row.revision, content |-> call.row.content]} ELSE {}

(* The snapshots saved, and those that are about to be.                    *)
Taken == tplVersions \cup UNION {Revisions(tplCall[c]) : c \in TplCallers}

TakenOK ==
  /\ \A c \in TplCallers : tplCall[c].step = "snapshot" => tplCall[c].row \in TplRows
  /\ \A v \in Taken :
       /\ tplRow # TplNone => v.revision <= tplRow.revision
       /\ tplRow # TplNone /\ tplRow.revision = v.revision => tplRow.content = v.content
       /\ \A w \in Taken : w.revision = v.revision => w.content = v.content

CallsOK == \A c \in TplCallers : ShownOK(tplCall[c]) /\ PendingOK(tplCall[c])

TemplateInv == TemplateTypeOK /\ BornOnce /\ CallsOK /\ TakenOK /\ ContentWasReviewed

-----------------------------------------------------------------------------
LEMMA TplOpsAre ==
  TplOps = {"update", "delete", "submit", "approve", "reject", "disable", "enable", "rollback", "code"}
BY DEF TplOps, TplAllowed

LEMMA UpdatesDrafts ==
  /\ TplAllowed["update"] = {"draft", "rejected"}
  /\ \A op \in TplOps, row \in TplRows :
       /\ TplWrites(op, row) \in TplStatus
       /\ row.status \in TplAllowed[op] /\ TplWrites(op, row) = "approved" => op \in {"approve", "code"}
<1>1. TplAllowed["update"] = {"draft", "rejected"} /\ TplAllowed["delete"] = {"draft", "rejected"}
  BY DEF TplAllowed, Editable, TplStatus
<1>2. ASSUME NEW op \in TplOps, NEW row \in TplRows PROVE TplWrites(op, row) \in TplStatus
  BY TplOpsAre DEF TplWrites, TplRows, TplStatus
<1>3. ASSUME NEW op \in TplOps, NEW row \in TplRows, row.status \in TplAllowed[op],
             op \notin {"approve", "code"}
      PROVE TplWrites(op, row) # "approved"
  BY <1>1, <1>3, TplOpsAre DEF TplWrites, TplRows
<1> QED BY <1>1, <1>2, <1>3

LEMMA TemplateInitInv == TemplateInit => TemplateInv
<1> SUFFICES ASSUME TemplateInit PROVE TemplateInv
  OBVIOUS
<1>1. TplIdle \in TplCalls /\ TplIdle.step = "idle"
  BY DEF TplIdle, TplCalls
<1>2. TemplateTypeOK
  BY <1>1 DEF TemplateInit, TemplateTypeOK
<1>3. Taken = {}
  BY <1>1 DEF TemplateInit, Taken, Revisions
<1> QED BY <1>1, <1>2, <1>3 DEF TemplateInit, TemplateInv, BornOnce, CallsOK, ShownOK, PendingOK, TakenOK,
     ContentWasReviewed

(* A step of one request that leaves the row and the snapshots alone.      *)
LEMMA OneCall ==
  ASSUME TemplateInv, NEW c \in TplCallers, NEW call \in TplCalls,
         UNCHANGED <<tplRow, tplVersions, tplBorn, tplReviewed>>,
         tplCall' = [tplCall EXCEPT ![c] = call],
         call.step # "snapshot", call.step = "idle" \/ tplBorn,
         ShownOK(call), PendingOK(call)
  PROVE TemplateInv'
<1> USE DEF TemplateInv
<1>1. TemplateTypeOK' /\ BornOnce'
  BY DEF TemplateTypeOK, BornOnce
<1>2. ContentWasReviewed'
  BY DEF ContentWasReviewed
<1>3. CallsOK'
  BY DEF CallsOK, ShownOK, PendingOK, TemplateTypeOK
<1>4. \A d \in TplCallers : Revisions(tplCall'[d]) \subseteq Revisions(tplCall[d])
  BY DEF Revisions, TemplateTypeOK
<1>5. Taken' \subseteq Taken
  BY <1>4 DEF Taken
<1>6. TakenOK'
  BY <1>5 DEF TakenOK, TemplateTypeOK
<1> QED BY <1>1, <1>2, <1>3, <1>6

LEMMA IdleCall == TplIdle \in TplCalls /\ TplIdle.step = "idle" /\ ShownOK(TplIdle) /\ PendingOK(TplIdle)
BY DEF TplIdle, TplCalls, ShownOK, PendingOK

LEMMA TemplateStepShow == ASSUME TemplateInv, NEW c \in TplCallers, TplShow(c) PROVE TemplateInv'
<1> DEFINE call == [TplIdle EXCEPT !.row = tplRow, !.step = "shown"]
<1> USE DEF TemplateInv
<1>1. tplRow \in TplRows
  BY DEF TplShow, TemplateTypeOK
<1>2. call \in TplCalls /\ call.step = "shown" /\ call.row = tplRow
  BY <1>1 DEF TplIdle, TplCalls
<1>3. ShownOK(call) /\ PendingOK(call) /\ tplBorn
  BY <1>1, <1>2 DEF ShownOK, PendingOK, TplRows, TplShow, BornOnce
<1> QED BY <1>2, <1>3, OneCall DEF TplShow

LEMMA TemplateStepConflict == ASSUME TemplateInv, NEW c \in TplCallers, TplConflict(c) PROVE TemplateInv'
BY IdleCall, OneCall DEF TplConflict

LEMMA TemplateStepBegin ==
  ASSUME TemplateInv, NEW c \in TplCallers, NEW content \in TplContents, NEW op \in TplOps,
         NEW named \in BOOLEAN, TplBegin(c, op, content, named)
  PROVE  TemplateInv'
<1> USE DEF TemplateInv
<1> DEFINE shown == tplCall[c].row
           new == [tplRow EXCEPT !.status = TplWrites(op, tplRow), !.content = content,
                     !.revision = IF op \in Snapshots THEN @ + 1 ELSE @]
           call == [op |-> op, expected |-> IF named THEN shown.version ELSE TplNone, step |-> "write",
                    saw |-> IF op = "approve" /\ named THEN shown.content ELSE TplNone, row |-> new]
<1>1. /\ tplRow \in TplRows /\ tplCall[c].step = "shown" /\ op # "code"
      /\ tplRow.status \in TplAllowed[op]
      /\ op \notin {"update", "rollback"} => content = tplRow.content
      /\ tplCall' = [tplCall EXCEPT ![c] = call]
      /\ UNCHANGED <<tplRow, tplVersions, tplBorn, tplReviewed>>
  BY DEF TplBegin, TemplateTypeOK
<1>2. /\ shown \in TplRows /\ shown.version \in Nat /\ shown.content \in TplContents
      /\ shown.version <= tplRow.version
      /\ shown.version = tplRow.version => shown.content = tplRow.content
      /\ tplBorn /\ tplRow # TplNone
  BY <1>1 DEF CallsOK, ShownOK, TplRows, BornOnce, TplBegin
<1>3. TplWrites(op, tplRow) \in TplStatus /\ (TplWrites(op, tplRow) = "approved" => op = "approve")
  BY <1>1, UpdatesDrafts
<1>4. /\ new \in TplRows /\ new.status = TplWrites(op, tplRow) /\ new.content = content
      /\ new.version = tplRow.version
      /\ new.revision = IF op \in Snapshots THEN tplRow.revision + 1 ELSE tplRow.revision
  <2> DEFINE rev == IF op \in Snapshots THEN tplRow.revision + 1 ELSE tplRow.revision
  <2>1. rev \in Nat /\ tplRow.revision \in Nat
    BY <1>1 DEF TplRows
  <2>2. new = [tplRow EXCEPT !.status = TplWrites(op, tplRow), !.content = content, !.revision = rev]
    OBVIOUS
  <2> HIDE DEF rev
  <2>3. /\ new \in TplRows /\ new.status = TplWrites(op, tplRow) /\ new.content = content
        /\ new.version = tplRow.version /\ new.revision = rev
    BY <1>1, <1>3, <2>1, <2>2 DEF TplRows
  <2> QED BY <2>3 DEF rev
<1>5. call \in TplCalls /\ call.step = "write" /\ call.op = op /\ call.row = new
      /\ call.expected = (IF named THEN shown.version ELSE TplNone)
      /\ call.saw = (IF op = "approve" /\ named THEN shown.content ELSE TplNone)
  BY <1>2, <1>4 DEF TplCalls
<1>6. PendingOK(call)
  <2>1. tplRow.version \in Nat /\ new.version \in Nat /\ TplNone \notin Nat
    BY <1>1, <1>4, TemplateAssumption DEF TplRows
  <2>2. call.expected # TplNone => call.expected <= call.row.version
    BY <1>2, <1>4, <1>5
  <2>3. call.saw # TplNone =>
         /\ call.expected # TplNone
         /\ call.expected = call.row.version => call.saw = call.row.content
    BY <1>1, <1>2, <1>4, <1>5, <2>1
  <2> HIDE DEF call, new
  <2>4. call.row.version = tplRow.version /\ call.row.version <= tplRow.version
        /\ (call.op \notin {"update", "rollback"} => call.row.content = tplRow.content)
    BY <1>1, <1>4, <1>5, <2>1
  <2> QED BY <1>3, <1>4, <1>5, <2>2, <2>3, <2>4 DEF PendingOK
<1>7. ShownOK(call)
  BY <1>5 DEF ShownOK
<1> HIDE DEF call
<1> QED BY <1>1, <1>2, <1>5, <1>6, <1>7, OneCall

LEMMA TemplateStepCreate ==
  ASSUME TemplateInv, NEW c \in TplCallers, NEW content \in TplContents, NEW given \in BOOLEAN,
         TplCreate(c, content, given)
  PROVE  TemplateInv'
<1> USE DEF TemplateInv
<1> DEFINE row == [status |-> "draft", version |-> 0, revision |-> 0, content |-> content,
                   code |-> IF given THEN "given" ELSE "tmp"]
           final == [row EXCEPT !.code = "final"]
           call == [op |-> "code", row |-> final, expected |-> TplNone, step |-> "write", saw |-> TplNone]
<1>1. /\ ~tplBorn /\ tplRow' = row /\ tplBorn' = TRUE /\ UNCHANGED <<tplVersions, tplReviewed>>
      /\ tplVersions = {} /\ \A d \in TplCallers : tplCall[d].step = "idle"
  BY DEF TplCreate, BornOnce
<1>2. row \in TplRows /\ row.status = "draft" /\ row.version = 0 /\ row.revision = 0 /\ row.content = content
  BY DEF TplRows, TplStatus
<1>3. final \in TplRows /\ final.status = "draft" /\ final.version = 0 /\ final.revision = 0 /\ final.content = content
  BY <1>2 DEF TplRows
<1>4. /\ call \in TplCalls /\ call.step = "write" /\ call.op = "code" /\ call.row = final
      /\ call.expected = TplNone /\ call.saw = TplNone
  BY <1>3, TplOpsAre DEF TplCalls
<1>5. tplCall' \in [TplCallers -> TplCalls] /\ \A d \in TplCallers : tplCall'[d] = call \/ tplCall'[d] = tplCall[d]
  BY <1>4 DEF TplCreate, TemplateTypeOK
<1> HIDE DEF row, final, call
<1>6. TemplateTypeOK' /\ BornOnce'
  BY <1>1, <1>2, <1>5 DEF TemplateTypeOK, BornOnce
<1>7. CallsOK'
  <2>1. \A d \in TplCallers : tplCall'[d] = call \/ tplCall'[d].step = "idle"
    BY <1>1, <1>5
  <2> QED BY <1>1, <1>2, <1>3, <1>4, <2>1, TplOpsAre DEF CallsOK, ShownOK, PendingOK, Snapshots
<1>8. \A d \in TplCallers : tplCall'[d].step # "snapshot"
  BY <1>1, <1>4, <1>5
<1>9. Taken' = {}
  BY <1>1, <1>8 DEF Taken, Revisions
<1>10. TakenOK' /\ ContentWasReviewed'
  BY <1>1, <1>2, <1>8, <1>9 DEF TakenOK, ContentWasReviewed, Usable
<1> QED BY <1>6, <1>7, <1>10

LEMMA TemplateStepDelete == ASSUME TemplateInv, NEW c \in TplCallers, TplDelete(c) PROVE TemplateInv'
<1> USE DEF TemplateInv
<1>1. /\ tplRow' = TplNone /\ tplCall' = [tplCall EXCEPT ![c] = TplIdle] /\ tplCall[c].step = "write"
      /\ UNCHANGED <<tplVersions, tplBorn, tplReviewed>>
  BY DEF TplDelete
<1>2. TemplateTypeOK' /\ BornOnce'
  BY <1>1, IdleCall DEF TemplateTypeOK, BornOnce
<1>3. \A d \in TplCallers : tplCall'[d] = tplCall[d] \/ tplCall'[d].step = "idle"
  BY <1>1, IdleCall DEF TemplateTypeOK
<1>4. CallsOK'
  BY <1>1, <1>3 DEF CallsOK, ShownOK, PendingOK
<1>5. Taken' \subseteq Taken
  BY <1>1, <1>3 DEF Taken, Revisions
<1>6. TakenOK'
  BY <1>1, <1>3, <1>5 DEF TakenOK
<1>7. ContentWasReviewed'
  BY <1>1 DEF ContentWasReviewed
<1> QED BY <1>2, <1>4, <1>6, <1>7

LEMMA TemplateStepSnapshot == ASSUME TemplateInv, NEW c \in TplCallers, TplSnapshot(c) PROVE TemplateInv'
<1> USE DEF TemplateInv
<1> DEFINE v == [revision |-> tplCall[c].row.revision, content |-> tplCall[c].row.content]
<1>1. /\ tplCall[c].step = "snapshot" /\ tplCall' = [tplCall EXCEPT ![c] = TplIdle]
      /\ tplVersions' = tplVersions \cup {v} \/ UNCHANGED tplVersions
      /\ UNCHANGED <<tplRow, tplBorn, tplReviewed>>
  BY DEF TplSnapshot
<1>2. tplCall[c].row \in TplRows
  BY <1>1 DEF TakenOK
<1>3. v \in [revision : Nat, content : TplContents]
  BY <1>2 DEF TplRows
<1>4. v \in Taken
  BY <1>1 DEF Taken, Revisions
<1> HIDE DEF v
<1>5. TemplateTypeOK' /\ BornOnce'
  BY <1>1, <1>3, IdleCall DEF TemplateTypeOK, BornOnce
<1>6. \A d \in TplCallers : tplCall'[d] = tplCall[d] \/ tplCall'[d].step = "idle"
  BY <1>1, IdleCall DEF TemplateTypeOK
<1>7. CallsOK'
  BY <1>1, <1>6 DEF CallsOK, ShownOK, PendingOK
<1>8. Taken' \subseteq Taken
  BY <1>1, <1>4, <1>6 DEF Taken, Revisions
<1>9. TakenOK' /\ ContentWasReviewed'
  BY <1>1, <1>6, <1>8 DEF TakenOK, ContentWasReviewed
<1> QED BY <1>5, <1>7, <1>9

LEMMA TemplateStepWrite == ASSUME TemplateInv, NEW c \in TplCallers, TplWrite(c) PROVE TemplateInv'
<1> USE DEF TemplateInv
<1> DEFINE call == tplCall[c]
           row == [call.row EXCEPT !.version = ExpectedVersion(call) + 1]
           next == IF call.op \in Snapshots THEN [call EXCEPT !.row = row, !.step = "snapshot"] ELSE TplIdle
<1>1. /\ call.step = "write" /\ call.op # "delete" /\ tplRow # TplNone
      /\ tplRow.version = ExpectedVersion(call)
      /\ tplRow' = row /\ tplCall' = [tplCall EXCEPT ![c] = next]
      /\ tplReviewed' = (IF call.op = "approve"
           THEN tplReviewed \cup {IF call.saw = TplNone THEN row.content ELSE call.saw} ELSE tplReviewed)
      /\ UNCHANGED <<tplVersions, tplBorn>>
  BY DEF TplWrite, UpdateCAS
<1>2. PendingOK(call) /\ call \in TplCalls /\ call.row \in TplRows /\ tplRow \in TplRows
  BY <1>1 DEF CallsOK, TemplateTypeOK, PendingOK
<1>3. call.row.version \in Nat /\ tplRow.version \in Nat /\ tplRow.revision \in Nat
      /\ call.expected \in Nat \cup {TplNone} /\ TplNone \notin Nat
  BY <1>2, TemplateAssumption DEF TplRows, TplCalls
(* Both versions a request may name are the version it read: the row has   *)
(* not been written since.                                                 *)
<1>4. call.row.version = tplRow.version /\ ExpectedVersion(call) = tplRow.version
      /\ (call.expected # TplNone => call.expected = call.row.version)
  <2>1. CASE call.expected = TplNone
    BY <1>1, <2>1 DEF ExpectedVersion
  <2>2. CASE call.expected # TplNone
    <3>1. call.expected <= call.row.version /\ call.row.version <= tplRow.version /\ tplRow.version = call.expected
      BY <1>1, <1>2, <2>2 DEF PendingOK, ExpectedVersion
    <3>2. call.expected \in Nat
      BY <1>3, <2>2
    <3> QED BY <1>1, <1>3, <3>1, <3>2
  <2> QED BY <2>1, <2>2
<1>5. /\ row \in TplRows /\ row.version = tplRow.version + 1 /\ row.status = call.row.status
      /\ row.revision = call.row.revision /\ row.content = call.row.content
  BY <1>1, <1>2, <1>3 DEF TplRows
<1>6. /\ call.op \in TplOps
      /\ call.op \in Snapshots => row.revision = tplRow.revision + 1
      /\ call.op \notin Snapshots => row.revision = tplRow.revision /\ row.content = tplRow.content
  BY <1>1, <1>2, <1>4, <1>5, TplOpsAre DEF PendingOK, Snapshots
<1>7. next \in TplCalls /\ next.step \in {"snapshot", "idle"}
      /\ (next.step = "snapshot" => call.op \in Snapshots /\ next.row = row)
  BY <1>2, <1>5, IdleCall DEF TplCalls
<1>8. row.status = "approved" => row.content \in tplReviewed'
  BY <1>1, <1>2, <1>4, <1>5 DEF PendingOK
<1> HIDE DEF row, next
<1>9. tplBorn /\ tplBorn'
  BY <1>1 DEF BornOnce
<1>10. TemplateTypeOK' /\ BornOnce'
  BY <1>1, <1>5, <1>7, <1>9 DEF TemplateTypeOK, BornOnce
<1>11. \A d \in TplCallers : IF d = c THEN tplCall'[d] = next ELSE tplCall'[d] = tplCall[d]
  <2>1. tplCall \in [TplCallers -> TplCalls]
    BY DEF TemplateTypeOK
  <2>2. \A d \in TplCallers : [tplCall EXCEPT ![c] = next][d] = IF d = c THEN next ELSE tplCall[d]
    BY <2>1
  <2> QED BY <1>1, <2>2, Zenon
<1>12. CallsOK'
  <2>1. ASSUME NEW d \in TplCallers PROVE ShownOK(tplCall[d])' /\ PendingOK(tplCall[d])'
    <3>1. CASE d = c
      BY <1>7, <1>11, <3>1 DEF ShownOK, PendingOK
    <3>2. CASE d # c
      <4>1. tplCall'[d] = tplCall[d] /\ ShownOK(tplCall[d]) /\ PendingOK(tplCall[d])
        BY <1>11, <3>2 DEF CallsOK
      <4>2. tplCall[d].row \in TplRows /\ tplCall[d].row.version <= tplRow.version
            => tplCall[d].row.version <= tplRow'.version /\ tplCall[d].row.version # tplRow'.version
        BY <1>1, <1>3, <1>5 DEF TplRows
      <4> QED BY <1>1, <4>1, <4>2 DEF ShownOK, PendingOK
    <3> QED BY <3>1, <3>2
  <2> QED BY <2>1 DEF CallsOK
<1>13. TakenOK'
  <2> DEFINE v == [revision |-> row.revision, content |-> row.content]
  <2>1. Taken' \subseteq Taken \cup (IF call.op \in Snapshots THEN {v} ELSE {})
    BY <1>1, <1>7, <1>11 DEF Taken, Revisions
  <2>2. \A w \in Taken : w.revision \in Nat /\ w.revision <= tplRow.revision
    <3>1. \A d \in TplCallers : Revisions(tplCall[d]) \subseteq [revision : Nat, content : TplContents]
      BY DEF TakenOK, Revisions, TplRows
    <3>2. Taken \subseteq [revision : Nat, content : TplContents]
      BY <3>1 DEF Taken, TemplateTypeOK
    <3> QED BY <1>1, <3>2 DEF TakenOK
  <2>3. v.revision = row.revision /\ v.content = row.content
    OBVIOUS
  <2> HIDE DEF v
  <2>4. CASE call.op \in Snapshots
    <3>1. \A w \in Taken : w.revision <= row.revision /\ w.revision # row.revision
      BY <1>3, <1>6, <2>2, <2>4
    <3>2. row.revision <= row.revision
      BY <1>5 DEF TplRows
    <3>3. \A u \in Taken' : u \in Taken \/ u = v
      BY <2>1
    <3>4. \A u \in Taken' : u.revision <= tplRow'.revision /\ (tplRow'.revision = u.revision => tplRow'.content = u.content)
      BY <1>1, <2>3, <3>1, <3>2, <3>3
    <3>5. \A u, w \in Taken' : w.revision = u.revision => w.content = u.content
      BY <2>3, <3>1, <3>3 DEF TakenOK
    <3> QED BY <1>5, <1>7, <1>11, <3>4, <3>5 DEF TakenOK
  <2>5. CASE call.op \notin Snapshots
    <3>1. Taken' \subseteq Taken
      BY <2>1, <2>5
    <3> QED BY <1>1, <1>6, <1>7, <1>11, <2>5, <3>1 DEF TakenOK
  <2> QED BY <2>4, <2>5
<1>14. ContentWasReviewed'
  BY <1>1, <1>8 DEF ContentWasReviewed, Usable
<1> QED BY <1>10, <1>12, <1>13, <1>14

LEMMA TemplateStep == TemplateInv /\ [TemplateNext]_templateVars => TemplateInv'
<1> SUFFICES ASSUME TemplateInv, [TemplateNext]_templateVars PROVE TemplateInv'
  OBVIOUS
<1>1. CASE UNCHANGED templateVars
  BY <1>1 DEF templateVars, TemplateInv, TemplateTypeOK, BornOnce, CallsOK, ShownOK, PendingOK, TakenOK, Taken,
     Revisions, ContentWasReviewed
<1> QED BY <1>1, TemplateStepShow, TemplateStepConflict, TemplateStepBegin, TemplateStepCreate, TemplateStepDelete,
     TemplateStepSnapshot, TemplateStepWrite DEF TemplateNext

(* What a campaign may copy was approved, and where the reviewer names the  *)
(* version he looked at, it is what that version said.                      *)
THEOREM ApprovedIsWhatWasSeen == TemplateSpec => []ContentWasReviewed
BY TemplateInitInv, TemplateStep, PTL DEF TemplateSpec, TemplateInv

(* A revision number names one content for ever, although row and snapshot *)
(* are written by separate statements and requests race for the number.     *)
THEOREM RevisionNamesContent == TemplateSpec => []SnapshotsMatch
<1>1. TemplateInv => SnapshotsMatch
  BY DEF TemplateInv, TakenOK, Taken, SnapshotsMatch
<1> QED BY <1>1, TemplateInitInv, TemplateStep, PTL DEF TemplateSpec

-----------------------------------------------------------------------------
(***************************************************************************)
(* PreferenceCenter.  A cached or read value was in the table at a time    *)
(* that is not too long ago; a field out of doubt has had one request at a *)
(* time, whose log entry is that of the row.                               *)
(***************************************************************************)
PrefRequests == [step : {"idle", "write", "append", "invalidate"}, next : SUBSET PrefFields,
                 logs : SUBSET PrefFields, delete : BOOLEAN, alone : BOOLEAN]
PrefReads == [now : Nat, read : BOOLEAN, pref : SUBSET PrefFields]
PrefEntries == [pref : SUBSET PrefFields, expiresAt : Nat]

PreferenceTypeOK ==
  /\ prefRow \in SUBSET PrefFields /\ prefConsent \in SUBSET PrefFields /\ prefDoubt \in SUBSET PrefFields
  /\ prefCall \in [PrefCallers -> PrefRequests]
  /\ prefCache \in PrefEntries \cup {PrefNone}
  /\ prefReader \in [PrefReaders -> PrefReads \cup {PrefNone}]
  /\ prefClock \in Nat /\ prefLast \in [SUBSET PrefFields -> Nat]

(* What was read was what the row said since the read began; an entry      *)
(* expires within a ttl of that.                                           *)
ReadRecently ==
  /\ prefLast[prefRow] = prefClock
  /\ \A row \in SUBSET PrefFields : prefLast[row] <= prefClock
  /\ \A r \in PrefReaders : prefReader[r] # PrefNone =>
       /\ prefReader[r].now <= prefClock
       /\ prefReader[r].read => prefReader[r].now <= prefLast[prefReader[r].pref]
  /\ prefCache # PrefNone => prefCache.expiresAt <= prefLast[prefCache.pref] + PrefTTL

FreshInv == PreferenceTypeOK /\ ReadRecently

Changing(call) == call.step \in {"write", "append"}

(* A request that nobody overlaps writes what it compared; one that is     *)
(* overlapped casts doubt on every field until a later one is alone.       *)
AloneOrDoubt ==
  \A c \in PrefCallers :
    /\ ~Changing(prefCall[c]) => prefCall[c].logs = {} /\ ~prefCall[c].alone
    /\ Changing(prefCall[c]) /\ ~prefCall[c].alone => prefDoubt = PrefFields
    /\ prefCall[c].alone =>
         /\ \A d \in PrefCallers \ {c} : prefCall[d] = PrefIdle
         /\ prefCall[c].step = "write" => prefCall[c].logs = diffConsent(prefRow, prefCall[c].next)
         /\ prefCall[c].step = "append" => prefRow = prefCall[c].next

PreferenceInv == FreshInv /\ AloneOrDoubt /\ ConsentExplains

-----------------------------------------------------------------------------
LEMMA PreferenceInitInv == PreferenceInit => PreferenceInv
<1> SUFFICES ASSUME PreferenceInit PROVE PreferenceInv
  OBVIOUS
<1>1. PrefIdle \in PrefRequests /\ PrefIdle.logs = {} /\ PrefIdle.alone = FALSE /\ PrefIdle.step = "idle"
  BY DEF PrefIdle, PrefRequests
<1>2. prefLast \in [SUBSET PrefFields -> Nat]
  BY DEF PreferenceInit, Never
<1>3. PreferenceTypeOK
  BY <1>1, <1>2 DEF PreferenceInit, PreferenceTypeOK
<1>4. ReadRecently
  <2>1. \A row \in SUBSET PrefFields : prefLast[row] = IF row = {} THEN 1 ELSE 0
    BY DEF PreferenceInit, Never
  <2>2. prefRow = {} /\ {} \in SUBSET PrefFields /\ prefClock = 1 /\ prefCache = PrefNone
        /\ \A r \in PrefReaders : prefReader[r] = PrefNone
    BY DEF PreferenceInit
  <2> QED BY <2>1, <2>2 DEF ReadRecently
<1>5. AloneOrDoubt /\ ConsentExplains
  BY <1>1 DEF PreferenceInit, AloneOrDoubt, ConsentExplains, Changing
<1> QED BY <1>3, <1>4, <1>5 DEF PreferenceInv, FreshInv

(* Steps that leave the row, the clock and its history alone.              *)
LEMMA RequestsKeepFresh ==
  ASSUME FreshInv, prefCall' \in [PrefCallers -> PrefRequests], UNCHANGED <<prefRow, prefLast, prefReadVars>>,
         prefConsent' \in SUBSET PrefFields, prefDoubt' \in SUBSET PrefFields
  PROVE  FreshInv'
BY DEF FreshInv, PreferenceTypeOK, ReadRecently, prefReadVars

(* The steps of Resolve, the cache and the clock leave requests alone.     *)
LEMMA ReadsKeepConsent ==
  ASSUME AloneOrDoubt, ConsentExplains, UNCHANGED <<prefRow, prefConsent, prefDoubt, prefCall>>
  PROVE  AloneOrDoubt' /\ ConsentExplains'
BY DEF AloneOrDoubt, ConsentExplains, Changing

LEMMA PrefStepRead ==
  ASSUME PreferenceInv, NEW r \in PrefReaders, PrefMiss(r) \/ PrefGet(r) PROVE PreferenceInv'
<1> USE DEF PreferenceInv
<1>1. AloneOrDoubt' /\ ConsentExplains'
  BY ReadsKeepConsent DEF PrefMiss, PrefGet, prefApiVars
<1>2. UNCHANGED <<prefRow, prefConsent, prefDoubt, prefCall, prefCache, prefClock, prefLast>>
  BY DEF PrefMiss, PrefGet, prefApiVars
<1>3. PrefTTL \in Nat /\ prefClock \in Nat /\ prefLast[prefRow] = prefClock /\ prefRow \in SUBSET PrefFields
  BY PreferenceAssumption DEF FreshInv, PreferenceTypeOK, ReadRecently
<1>4. PICK e \in PrefReads :
        /\ prefReader' = [prefReader EXCEPT ![r] = e] /\ e.now <= prefClock
        /\ e.read => e.now <= prefLast[e.pref]
  <2>1. CASE PrefMiss(r)
    <3> DEFINE e == [now |-> prefClock, read |-> FALSE, pref |-> {}]
    <3>1. e \in PrefReads /\ e.now = prefClock /\ ~e.read
      BY <1>3 DEF PrefReads
    <3>2. prefReader' = [prefReader EXCEPT ![r] = e]
      BY <2>1 DEF PrefMiss
    <3> HIDE DEF e
    <3>3. e.now <= prefClock
      BY <1>3, <3>1
    <3> QED BY <3>1, <3>2, <3>3
  <2>2. CASE PrefGet(r)
    <3> DEFINE e == [prefReader[r] EXCEPT !.read = TRUE, !.pref = prefRow]
    <3>1. prefReader[r] \in PrefReads /\ prefReader[r].now <= prefClock
      BY <2>2 DEF PrefGet, FreshInv, PreferenceTypeOK, ReadRecently
    <3>2. e \in PrefReads /\ e.now = prefReader[r].now /\ e.pref = prefRow
      BY <1>3, <3>1 DEF PrefReads
    <3>3. prefReader' = [prefReader EXCEPT ![r] = e]
      BY <2>2 DEF PrefGet
    <3> QED BY <1>3, <3>1, <3>2, <3>3
  <2> QED BY <2>1, <2>2
<1>5. prefReader' \in [PrefReaders -> PrefReads \cup {PrefNone}]
      /\ \A q \in PrefReaders : prefReader'[q] = IF q = r THEN e ELSE prefReader[q]
  BY <1>4 DEF FreshInv, PreferenceTypeOK
<1>6. PreferenceTypeOK'
  BY <1>2, <1>5 DEF FreshInv, PreferenceTypeOK
<1>7. ReadRecently'
  BY <1>2, <1>4, <1>5 DEF FreshInv, ReadRecently
<1> QED BY <1>1, <1>6, <1>7 DEF FreshInv

LEMMA PrefStepFill == ASSUME PreferenceInv, NEW r \in PrefReaders, PrefFill(r) PROVE PreferenceInv'
<1> USE DEF PreferenceInv
<1>1. AloneOrDoubt' /\ ConsentExplains'
  BY ReadsKeepConsent DEF PrefFill, prefApiVars
<1> DEFINE entry == [pref |-> prefReader[r].pref, expiresAt |-> ExpiresAt(prefReader[r])]
<1>2. /\ prefReader[r] # PrefNone /\ prefReader[r].read /\ prefCache' = entry
      /\ prefReader' = [prefReader EXCEPT ![r] = PrefNone]
      /\ UNCHANGED <<prefRow, prefConsent, prefDoubt, prefCall, prefClock, prefLast>>
  BY DEF PrefFill, prefApiVars
<1>3. prefReader[r] \in PrefReads /\ prefReader[r].now <= prefLast[prefReader[r].pref]
  BY <1>2 DEF FreshInv, PreferenceTypeOK, ReadRecently
<1>4. /\ prefReader[r].now \in Nat /\ prefReader[r].pref \in SUBSET PrefFields
      /\ prefLast[prefReader[r].pref] \in Nat /\ PrefTTL \in Nat
  BY <1>3, PreferenceAssumption DEF PrefReads, FreshInv, PreferenceTypeOK
<1>5. /\ entry \in PrefEntries /\ entry.pref = prefReader[r].pref
      /\ entry.expiresAt = prefReader[r].now + PrefTTL
  BY <1>4 DEF PrefEntries, ExpiresAt
<1> HIDE DEF entry
<1>6. entry.expiresAt <= prefLast[entry.pref] + PrefTTL
  BY <1>3, <1>4, <1>5
<1>7. PreferenceTypeOK'
  BY <1>2, <1>5 DEF FreshInv, PreferenceTypeOK
<1>8. ReadRecently'
  BY <1>2, <1>6 DEF FreshInv, PreferenceTypeOK, ReadRecently
<1> QED BY <1>1, <1>7, <1>8 DEF FreshInv

(* A later time in the history makes nothing staler.                       *)
LEMMA LaterKeepsFresh ==
  ASSUME FreshInv, prefRow' \in SUBSET PrefFields, prefClock' \in Nat, prefClock <= prefClock',
         prefLast' \in [SUBSET PrefFields -> Nat], prefLast'[prefRow'] = prefClock',
         \A row \in SUBSET PrefFields : prefLast[row] <= prefLast'[row] /\ prefLast'[row] <= prefClock',
         prefCall' \in [PrefCallers -> PrefRequests], UNCHANGED <<prefConsent, prefDoubt, prefCache, prefReader>>
  PROVE  FreshInv'
<1>1. PreferenceTypeOK'
  BY DEF FreshInv, PreferenceTypeOK
<1>2. ASSUME NEW r \in PrefReaders, prefReader'[r] # PrefNone
      PROVE  /\ prefReader'[r].now <= prefClock'
             /\ prefReader'[r].read => prefReader'[r].now <= prefLast'[prefReader'[r].pref]
  <2>1. prefReader[r] \in PrefReads /\ prefReader'[r] = prefReader[r]
    BY <1>2 DEF FreshInv, PreferenceTypeOK
  <2>2. prefReader[r].now \in Nat /\ prefReader[r].pref \in SUBSET PrefFields
    BY <2>1 DEF PrefReads
  <2>3. prefLast[prefReader[r].pref] \in Nat /\ prefLast'[prefReader[r].pref] \in Nat /\ prefClock \in Nat
    BY <2>2 DEF FreshInv, PreferenceTypeOK
  <2>4. prefReader[r].now <= prefClock /\ (prefReader[r].read => prefReader[r].now <= prefLast[prefReader[r].pref])
    BY <1>2, <2>1 DEF FreshInv, ReadRecently
  <2> QED BY <2>1, <2>2, <2>3, <2>4
<1>3. ASSUME prefCache # PrefNone PROVE prefCache.expiresAt <= prefLast'[prefCache.pref] + PrefTTL
  <2>1. prefCache \in PrefEntries
    BY <1>3 DEF FreshInv, PreferenceTypeOK
  <2>2. /\ prefCache.pref \in SUBSET PrefFields /\ prefCache.expiresAt \in Nat /\ PrefTTL \in Nat
        /\ prefLast[prefCache.pref] \in Nat /\ prefLast'[prefCache.pref] \in Nat
    BY <2>1, PreferenceAssumption DEF FreshInv, PreferenceTypeOK, PrefEntries
  <2>3. prefCache.expiresAt <= prefLast[prefCache.pref] + PrefTTL
    BY <1>3 DEF FreshInv, ReadRecently
  <2> QED BY <2>2, <2>3
<1> QED BY <1>1, <1>2, <1>3 DEF FreshInv, ReadRecently

LEMMA PrefStepTick == ASSUME PreferenceInv, PrefTick PROVE PreferenceInv'
<1> USE DEF PreferenceInv
<1>1. AloneOrDoubt' /\ ConsentExplains'
  BY ReadsKeepConsent DEF PrefTick
<1>2. /\ prefRow \in SUBSET PrefFields /\ prefClock \in Nat /\ prefLast \in [SUBSET PrefFields -> Nat]
      /\ prefLast[prefRow] = prefClock /\ prefCall \in [PrefCallers -> PrefRequests]
  BY DEF FreshInv, PreferenceTypeOK, ReadRecently
<1>3. prefClock' = prefClock + 1 /\ prefLast' = [prefLast EXCEPT ![prefRow] = prefClock']
      /\ UNCHANGED <<prefRow, prefConsent, prefCall, prefDoubt, prefCache, prefReader>>
  BY DEF PrefTick
<1>4. \A row \in SUBSET PrefFields : prefLast'[row] = IF row = prefRow THEN prefClock + 1 ELSE prefLast[row]
  BY <1>2, <1>3
<1>5. prefLast' \in [SUBSET PrefFields -> Nat]
  BY <1>2, <1>3
<1>6. \A row \in SUBSET PrefFields : prefLast[row] <= prefLast'[row]
  BY <1>2, <1>4
<1>8. \A row \in SUBSET PrefFields : prefLast'[row] <= prefClock'
  <2>1. \A row \in SUBSET PrefFields : prefLast[row] \in Nat /\ prefLast[row] <= prefClock
    BY <1>2 DEF FreshInv, ReadRecently
  <2> QED BY <1>2, <1>3, <1>4, <2>1
<1>7. FreshInv'
  BY <1>2, <1>3, <1>4, <1>5, <1>6, <1>8, LaterKeepsFresh
<1> QED BY <1>1, <1>7

LEMMA PrefStepEvict == ASSUME PreferenceInv, PrefEvict PROVE PreferenceInv'
<1>1. AloneOrDoubt' /\ ConsentExplains'
  BY ReadsKeepConsent DEF PreferenceInv, PrefEvict, prefApiVars
<1>2. FreshInv'
  BY DEF PreferenceInv, FreshInv, PrefEvict, prefApiVars, PreferenceTypeOK, ReadRecently
<1> QED BY <1>1, <1>2 DEF PreferenceInv

-----------------------------------------------------------------------------
LEMMA PrefIdleIs ==
  PrefIdle \in PrefRequests /\ PrefIdle.step = "idle" /\ PrefIdle.logs = {} /\ PrefIdle.alone = FALSE
BY DEF PrefIdle, PrefRequests

(* A request begins: nobody else in flight, or doubt about every field.    *)
LEMMA PrefBeginKeeps ==
  ASSUME PreferenceInv, NEW c \in PrefCallers, NEW call \in PrefRequests, call.step = "write", call.alone = FALSE,
         call.logs = diffConsent(prefRow, call.next), PrefBegin(c, call), prefCall[c] = PrefIdle,
         UNCHANGED <<prefRow, prefExists, prefConsent, prefLast, prefFaults, prefReadVars>>
  PROVE  PreferenceInv'
<1> USE DEF PreferenceInv
<1> DEFINE others == {d \in PrefCallers \ {c} : prefCall[d] # PrefIdle}
           mine == [call EXCEPT !.alone = (others = {})]
<1>0. prefCall \in [PrefCallers -> PrefRequests] /\ prefDoubt \in SUBSET PrefFields
      /\ prefConsent \in SUBSET PrefFields
  BY DEF FreshInv, PreferenceTypeOK
<1>1. /\ mine \in PrefRequests /\ mine.step = "write" /\ mine.logs = call.logs /\ mine.next = call.next
      /\ mine.alone = (others = {})
  BY DEF PrefRequests
<1>2. prefCall' = [d \in PrefCallers |->
        IF d = c THEN mine ELSE IF d \in others THEN [prefCall[d] EXCEPT !.alone = FALSE] ELSE PrefIdle]
      /\ prefDoubt' = (IF others = {} THEN prefDoubt ELSE PrefFields)
  BY DEF PrefBegin
<1>3. \A d \in PrefCallers : LET other == [prefCall[d] EXCEPT !.alone = FALSE] IN
        /\ other \in PrefRequests /\ other.step = prefCall[d].step /\ other.logs = prefCall[d].logs
        /\ other.alone = FALSE
  BY <1>0 DEF PrefRequests
<1> HIDE DEF mine
<1>4. prefCall' \in [PrefCallers -> PrefRequests]
  BY <1>1, <1>2, <1>3, PrefIdleIs
<1>5. FreshInv'
  BY <1>0, <1>2, <1>4, RequestsKeepFresh
<1>6. CASE others = {}
  <2>1. \A d \in PrefCallers : IF d = c THEN prefCall'[d] = mine ELSE prefCall'[d] = PrefIdle
    BY <1>2, <1>6
  <2>2. \A d \in PrefCallers : prefCall[d] = PrefIdle
    BY <1>6
  <2>3. AloneOrDoubt'
    <3>1. mine.alone = TRUE /\ mine.logs = diffConsent(prefRow', mine.next) /\ mine.step = "write"
      BY <1>1, <1>6
    <3> QED BY <2>1, <3>1, PrefIdleIs DEF AloneOrDoubt, Changing
  <2>4. ConsentExplains'
    BY <1>2, <1>6, <2>1, <2>2, PrefIdleIs DEF ConsentExplains
  <2> QED BY <1>5, <2>3, <2>4
<1>7. CASE others # {}
  <2>1. prefDoubt' = PrefFields
    BY <1>2, <1>7
  <2>2. \A d \in PrefCallers : prefCall'[d].alone = FALSE /\ (Changing(prefCall'[d]) \/ prefCall'[d].logs = {})
    <3>1. ASSUME NEW d \in PrefCallers PROVE prefCall'[d].alone = FALSE /\ (Changing(prefCall'[d]) \/ prefCall'[d].logs = {})
      <4>1. CASE d = c
        BY <1>1, <1>2, <1>7, <4>1 DEF Changing
      <4>2. CASE d \in others
        BY <1>2, <1>3, <4>2 DEF AloneOrDoubt, Changing
      <4>3. CASE d # c /\ d \notin others
        BY <1>2, <4>3, PrefIdleIs
      <4> QED BY <4>1, <4>2, <4>3
    <3> QED BY <3>1
  <2> QED BY <1>5, <2>1, <2>2 DEF AloneOrDoubt, ConsentExplains, Changing
<1> QED BY <1>6, <1>7

LEMMA PrefStepBegin ==
  ASSUME PreferenceInv, NEW c \in PrefCallers,
         (\E named, out \in SUBSET PrefFields : PrefUpsert(c, named, out)) \/ PrefDelete(c)
  PROVE  PreferenceInv'
<1>0. prefRow \in SUBSET PrefFields
  BY DEF PreferenceInv, FreshInv, PreferenceTypeOK
<1>1. ASSUME NEW named \in SUBSET PrefFields, NEW out \in SUBSET PrefFields, PrefUpsert(c, named, out)
      PROVE  PreferenceInv'
  <2> DEFINE next == (prefRow \ named) \cup out
             call == [PrefIdle EXCEPT !.step = "write", !.next = next, !.logs = diffConsent(prefRow, next)]
  <2>1. /\ call \in PrefRequests /\ call.step = "write" /\ call.alone = FALSE
        /\ call.logs = diffConsent(prefRow, call.next)
    BY <1>0 DEF PrefIdle, PrefRequests, diffConsent
  <2>2. PrefBegin(c, call) /\ prefCall[c] = PrefIdle
        /\ UNCHANGED <<prefRow, prefExists, prefConsent, prefLast, prefFaults, prefReadVars>>
    BY <1>1 DEF PrefUpsert
  <2> HIDE DEF call
  <2> QED BY <2>1, <2>2, PrefBeginKeeps
<1>2. ASSUME PrefDelete(c) PROVE PreferenceInv'
  <2> DEFINE call == [PrefIdle EXCEPT !.step = "write", !.delete = TRUE, !.logs = diffConsent(prefRow, {})]
  <2>1. /\ call \in PrefRequests /\ call.step = "write" /\ call.alone = FALSE
        /\ call.logs = diffConsent(prefRow, call.next)
    BY <1>0 DEF PrefIdle, PrefRequests, diffConsent
  <2>2. PrefBegin(c, call) /\ prefCall[c] = PrefIdle
        /\ UNCHANGED <<prefRow, prefExists, prefConsent, prefLast, prefFaults, prefReadVars>>
    BY <1>2 DEF PrefDelete
  <2> HIDE DEF call
  <2> QED BY <2>1, <2>2, PrefBeginKeeps
<1> QED BY <1>1, <1>2

(* A request ends a part of its work: what must hold of its next step.     *)
LEMMA OneRequest ==
  ASSUME PreferenceInv, NEW c \in PrefCallers, NEW call \in PrefRequests,
         prefCall' = [prefCall EXCEPT ![c] = call],
         prefCall[c].step # "idle", ~Changing(call) => call.logs = {} /\ ~call.alone,
         Changing(call) => Changing(prefCall[c]) /\ call.alone = prefCall[c].alone /\ call.step # "write",
         call.alone => prefRow' = call.next,
         prefDoubt = PrefFields =>
           prefDoubt' = PrefFields \/ (prefCall[c].alone /\ ~Changing(call)),
         UNCHANGED prefRow \/ prefCall[c].step = "write"
  PROVE  AloneOrDoubt'
<1> USE DEF PreferenceInv
<1>1. \A d \in PrefCallers : IF d = c THEN prefCall'[d] = call ELSE prefCall'[d] = prefCall[d]
  BY DEF FreshInv, PreferenceTypeOK
<1>2. ASSUME NEW d \in PrefCallers, prefCall'[d].alone
      PROVE  /\ \A e \in PrefCallers \ {d} : prefCall'[e] = PrefIdle
             /\ prefCall'[d].step = "write" => prefCall'[d].logs = diffConsent(prefRow', prefCall'[d].next)
             /\ prefCall'[d].step = "append" => prefRow' = prefCall'[d].next
  <2>1. CASE d = c
    BY <1>1, <1>2, <2>1 DEF AloneOrDoubt
  <2>2. CASE d # c
    <3>1. prefCall[c] = PrefIdle
      BY <1>1, <1>2, <2>2 DEF AloneOrDoubt
    <3> QED BY <3>1, PrefIdleIs
  <2> QED BY <2>1, <2>2
<1>3. ASSUME NEW d \in PrefCallers
      PROVE  /\ ~Changing(prefCall'[d]) => prefCall'[d].logs = {} /\ ~prefCall'[d].alone
             /\ Changing(prefCall'[d]) /\ ~prefCall'[d].alone => prefDoubt' = PrefFields
  <2>1. CASE d = c
    BY <1>1, <2>1 DEF AloneOrDoubt
  <2>2. CASE d # c
    BY <1>1, <2>2, PrefIdleIs DEF AloneOrDoubt, Changing
  <2> QED BY <2>1, <2>2
<1> QED BY <1>2, <1>3 DEF AloneOrDoubt

LEMMA PrefStepWrite == ASSUME PreferenceInv, NEW c \in PrefCallers, PrefWrite(c) PROVE PreferenceInv'
<1> USE DEF PreferenceInv
<1> DEFINE old == prefCall[c]
           call == [old EXCEPT !.step = "append"]
<1>0. /\ prefRow \in SUBSET PrefFields /\ prefClock \in Nat /\ prefLast \in [SUBSET PrefFields -> Nat]
      /\ prefCall \in [PrefCallers -> PrefRequests] /\ old \in PrefRequests
      /\ \A row \in SUBSET PrefFields : prefLast[row] \in Nat
  BY DEF FreshInv, PreferenceTypeOK
<1>1. /\ old.step = "write" /\ prefRow' = old.next /\ prefCall' = [prefCall EXCEPT ![c] = call]
      /\ prefLast' = [prefLast EXCEPT ![prefRow] = prefClock, ![prefRow'] = prefClock]
      /\ UNCHANGED <<prefConsent, prefDoubt, prefCache, prefReader, prefClock>>
  BY DEF PrefWrite, Written, prefReadVars
<1>2. /\ call \in PrefRequests /\ call.step = "append" /\ call.logs = old.logs /\ call.next = old.next
      /\ call.alone = old.alone /\ prefRow' \in SUBSET PrefFields
  BY <1>0, <1>1 DEF PrefRequests
<1> HIDE DEF call
<1>3. FreshInv'
  <2>1. prefLast' \in [SUBSET PrefFields -> Nat]
    BY <1>0, <1>1, <1>2
  <2>2. \A row \in SUBSET PrefFields :
          prefLast'[row] = IF row = prefRow' \/ row = prefRow THEN prefClock ELSE prefLast[row]
    BY <1>0, <1>1, <1>2
  <2>3. prefLast[prefRow] = prefClock
    BY DEF FreshInv, ReadRecently
  <2>4. \A row \in SUBSET PrefFields : prefLast[row] <= prefClock
    BY DEF FreshInv, ReadRecently
  <2>5. \A row \in SUBSET PrefFields : prefLast[row] <= prefLast'[row] /\ prefLast'[row] <= prefClock'
    BY <1>1, <1>0, <2>2, <2>4
  <2>6. prefCall' \in [PrefCallers -> PrefRequests]
    BY <1>0, <1>1, <1>2
  <2> QED BY <1>0, <1>1, <1>2, <2>1, <2>2, <2>5, <2>6, LaterKeepsFresh
<1>4. AloneOrDoubt'
  BY <1>1, <1>2, OneRequest DEF Changing
<1>5. \A d \in PrefCallers : prefCall'[d].logs = prefCall[d].logs
  BY <1>0, <1>1, <1>2
<1>6. ConsentExplains'
  <2>1. CASE old.alone
    <3>1. old.logs = diffConsent(prefRow, old.next)
      BY <1>1, <2>1 DEF AloneOrDoubt
    <3>2. \A f : f \notin old.logs => (f \in prefRow' <=> f \in prefRow)
      BY <1>1, <3>1 DEF diffConsent
    <3> QED BY <1>1, <1>5, <3>2 DEF ConsentExplains
  <2>2. CASE ~old.alone
    <3>1. prefDoubt' = PrefFields
      BY <1>1, <2>2 DEF AloneOrDoubt, Changing
    <3> QED BY <3>1 DEF ConsentExplains
  <2> QED BY <2>1, <2>2
<1> QED BY <1>3, <1>4, <1>6

LEMMA PrefStepAppend ==
  ASSUME PreferenceInv, NEW c \in PrefCallers, PrefAppend(c) \/ PrefAppendFails(c) PROVE PreferenceInv'
<1> USE DEF PreferenceInv
<1> DEFINE old == prefCall[c]
           later == [PrefIdle EXCEPT !.step = "invalidate"]
<1>0. /\ prefCall \in [PrefCallers -> PrefRequests] /\ old \in PrefRequests
      /\ prefConsent \in SUBSET PrefFields /\ prefDoubt \in SUBSET PrefFields
      /\ old.logs \in SUBSET PrefFields /\ old.next \in SUBSET PrefFields
  BY DEF FreshInv, PreferenceTypeOK, PrefRequests
<1>1. later \in PrefRequests /\ later.step = "invalidate" /\ later.logs = {} /\ later.alone = FALSE
  BY DEF PrefIdle, PrefRequests
<1>2. old.step = "append" /\ UNCHANGED <<prefRow, prefLast, prefReadVars>>
  BY DEF PrefAppend, PrefAppendFails
<1>3. PICK call \in {later, PrefIdle} : prefCall' = [prefCall EXCEPT ![c] = call]
  BY DEF PrefAppend, PrefAppendFails
<1>4. call \in PrefRequests /\ call.logs = {} /\ call.alone = FALSE /\ call.step \in {"invalidate", "idle"}
  BY <1>1, <1>3, PrefIdleIs
<1> HIDE DEF later
<1>5. prefCall' \in [PrefCallers -> PrefRequests]
      /\ \A d \in PrefCallers : prefCall'[d].logs = IF d = c THEN {} ELSE prefCall[d].logs
  BY <1>0, <1>3, <1>4
<1>6. /\ prefDoubt' \in SUBSET PrefFields /\ prefConsent' \in SUBSET PrefFields
      /\ prefDoubt = PrefFields => prefDoubt' = PrefFields \/ old.alone
  BY <1>0 DEF PrefAppend, PrefAppendFails
<1>7. FreshInv'
  BY <1>2, <1>5, <1>6, RequestsKeepFresh
<1>8. AloneOrDoubt'
  BY <1>2, <1>3, <1>4, <1>6, OneRequest DEF Changing
<1>9. ConsentExplains'
  <2>1. CASE ~old.alone
    <3>1. prefDoubt = PrefFields
      BY <1>2, <2>1 DEF AloneOrDoubt, Changing
    <3>2. prefDoubt' = PrefFields
      BY <1>6, <2>1, <3>1
    <3> QED BY <3>2 DEF ConsentExplains
  <2>2. CASE old.alone /\ PrefAppend(c)
    <3>1. /\ prefConsent' = (prefConsent \ old.logs) \cup (old.logs \cap old.next)
          /\ prefDoubt' = prefDoubt \ old.logs /\ prefRow' = prefRow /\ prefRow = old.next
      BY <1>2, <2>2 DEF PrefAppend, AloneOrDoubt
    <3>2. \A d \in PrefCallers \ {c} : prefCall[d].logs = {}
      BY <2>2, PrefIdleIs DEF AloneOrDoubt
    <3>3. ASSUME NEW f \in PrefFields \ prefDoubt' PROVE f \in prefConsent' <=> f \in prefRow'
      <4>1. CASE f \in old.logs
        BY <3>1, <4>1
      <4>2. CASE f \notin old.logs
        BY <3>1, <3>2, <3>3, <4>2 DEF ConsentExplains
      <4> QED BY <4>1, <4>2
    <3> QED BY <3>3 DEF ConsentExplains
  <2>3. CASE PrefAppendFails(c)
    <3>1. prefDoubt' = prefDoubt \cup old.logs /\ UNCHANGED <<prefConsent, prefRow>>
      BY <2>3 DEF PrefAppendFails
    <3> QED BY <1>5, <3>1 DEF ConsentExplains
  <2> QED BY <2>1, <2>2, <2>3
<1> QED BY <1>7, <1>8, <1>9

LEMMA PrefStepInvalidate == ASSUME PreferenceInv, NEW c \in PrefCallers, PrefInvalidate(c) PROVE PreferenceInv'
<1> USE DEF PreferenceInv
<1>0. prefCall \in [PrefCallers -> PrefRequests]
  BY DEF FreshInv, PreferenceTypeOK
<1>1. /\ prefCall[c].step = "invalidate" /\ prefCall' = [prefCall EXCEPT ![c] = PrefIdle]
      /\ prefCache' \in {prefCache, PrefNone}
      /\ UNCHANGED <<prefRow, prefConsent, prefDoubt, prefLast, prefReader, prefClock>>
  BY DEF PrefInvalidate
<1>2. prefCall' \in [PrefCallers -> PrefRequests]
      /\ \A d \in PrefCallers : prefCall'[d].logs = IF d = c THEN {} ELSE prefCall[d].logs
  BY <1>0, <1>1, PrefIdleIs
<1>3. FreshInv'
  BY <1>1, <1>2 DEF FreshInv, PreferenceTypeOK, ReadRecently
<1>4. AloneOrDoubt'
  BY <1>1, PrefIdleIs, OneRequest DEF Changing
<1>5. prefCall[c].logs = {}
  BY <1>1 DEF AloneOrDoubt, Changing
<1>6. ConsentExplains'
  BY <1>1, <1>2, <1>5 DEF ConsentExplains
<1> QED BY <1>3, <1>4, <1>6

LEMMA PreferenceStep == PreferenceInv /\ [PreferenceNext]_preferenceVars => PreferenceInv'
<1> SUFFICES ASSUME PreferenceInv, [PreferenceNext]_preferenceVars PROVE PreferenceInv'
  OBVIOUS
<1>1. CASE UNCHANGED preferenceVars
  <2>1. UNCHANGED <<prefRow, prefConsent, prefDoubt, prefCall, prefCache, prefReader, prefClock, prefLast>>
    BY <1>1 DEF preferenceVars, prefApiVars, prefReadVars
  <2> QED BY <2>1, ReadsKeepConsent DEF PreferenceInv, FreshInv, PreferenceTypeOK, ReadRecently
<1> QED BY <1>1, PrefStepBegin, PrefStepWrite, PrefStepAppend, PrefStepInvalidate, PrefStepRead, PrefStepFill,
     PrefStepEvict, PrefStepTick DEF PreferenceNext

(* What the gateway is told about a user was in the table within the TTL of *)
(* the preference cache, whoever filled it from a read that was overtaken.  *)
THEOREM CacheWithinTTL == PreferenceSpec => []PreferenceFresh
<1>1. ASSUME FreshInv, Valid(prefCache) PROVE prefLast[prefCache.pref] + PrefTTL > prefClock
  <2>1. prefCache \in PrefEntries /\ prefCache # PrefNone /\ prefClock < prefCache.expiresAt
    BY <1>1 DEF Valid, FreshInv, PreferenceTypeOK
  <2>2. prefCache.expiresAt \in Nat /\ prefClock \in Nat /\ prefLast[prefCache.pref] \in Nat /\ PrefTTL \in Nat
    BY <1>1, <2>1, PreferenceAssumption DEF FreshInv, PreferenceTypeOK, PrefEntries
  <2>3. prefCache.expiresAt <= prefLast[prefCache.pref] + PrefTTL
    BY <1>1, <2>1 DEF FreshInv, ReadRecently
  <2> QED BY <2>1, <2>2, <2>3
<1>2. PreferenceInv => PreferenceFresh
  BY <1>1 DEF PreferenceInv, PreferenceFresh
<1> QED BY <1>2, PreferenceInitInv, PreferenceStep, PTL DEF PreferenceSpec

(* The consent log explains the row of every field that no overlapping or  *)
(* half-failed request has left in doubt.                                   *)
THEOREM LogExplainsRow == PreferenceSpec => []ConsentExplains
BY PreferenceInitInv, PreferenceStep, PTL DEF PreferenceSpec, PreferenceInv

-----------------------------------------------------------------------------
(***************************************************************************)
(* CampaignAdmin.  Create answers repeated requests alike: a campaign that *)
(* is there stays there, and as long as nobody edits it, it is what the    *)
(* first successful request asked for.  A published campaign changes by    *)
(* its own requests only: the others meet a status test in the UPDATE.     *)
(***************************************************************************)
AdmSteps == {"idle", "lookup", "template", "quota", "insert", "again", "edit", "publish"}

AdmTypeOK ==
  /\ admTask \in AdmRows \cup {AdmNone}
  /\ admCall \in [AdmCallers -> [step : AdmSteps, digest : AdmDigests \cup {AdmNone},
                                 draft : BOOLEAN, queue : BOOLEAN, after : BOOLEAN]]
  /\ admEdited \in BOOLEAN

Holds(digest) == admTask # AdmNone /\ admTask.digest = digest

(* What the requests in flight may rely on                                 *)
CallsKnow ==
  \A c \in AdmCallers :
    /\ admCall[c].step \in {"again", "edit", "publish"} => admTask # AdmNone
    /\ admCall[c].step \in AdmSteps \ {"idle", "publish"} => admCall[c].digest \in AdmDigests
    /\ ~admEdited /\ admCall[c].after => admCall[c].step = "lookup" /\ Holds(admCall[c].digest)

AnswersAgree ==
  ~admEdited => \A a \in admAnswers : (a.ok => Holds(a.digest)) /\ (a.after => a.ok)

AdmInv == AdmTypeOK /\ CallsKnow /\ AnswersAgree
LEMMA AdmInit == AdminInit => AdmInv
<1> SUFFICES ASSUME AdminInit PROVE AdmInv
  OBVIOUS
<1> USE DEF AdminInit, AdmIdle, AdmSteps
<1>1. AdmTypeOK
  BY DEF AdmTypeOK
<1>2. CallsKnow /\ AnswersAgree
  BY DEF CallsKnow, AnswersAgree
<1> QED BY <1>1, <1>2 DEF AdmInv

(* An answer is as good as the row it was compared with                    *)
LEMMA AnswerKeeps ==
  ASSUME AdmInv, NEW c \in AdmCallers, NEW ok \in BOOLEAN, Answer(c, ok),
         admTask' \in AdmRows \cup {AdmNone}, UNCHANGED admEdited,
         ~admEdited => (admTask # AdmNone => admTask' = admTask),
         admTask # AdmNone => admTask' # AdmNone,
         ~admEdited => (ok => admTask' # AdmNone /\ admTask'.digest = admCall[c].digest),
         ~admEdited => (admCall[c].after => ok)
  PROVE  AdmInv'
<1> USE DEF AdmInv, AdmTypeOK, AdmIdle, AdmSteps
<1>1. AdmTypeOK'
  BY DEF Answer
<1>2. CallsKnow'
  BY DEF Answer, CallsKnow, Holds
<1>3. AnswersAgree'
  BY DEF Answer, AnswersAgree, Holds
<1> QED BY <1>1, <1>2, <1>3

(* A request that goes on                                                  *)
LEMMA GotoKeeps ==
  ASSUME AdmInv, NEW c \in AdmCallers, NEW step \in AdmSteps, AdmGoto(c, step),
         UNCHANGED <<admTask, admEdited>>,
         step \in {"again", "edit", "publish"} => admTask # AdmNone,
         admCall[c].digest \in AdmDigests,
         ~admEdited => ~admCall[c].after
  PROVE  AdmInv'
BY DEF AdmInv, AdmTypeOK, CallsKnow, AnswersAgree, Holds, AdmGoto

LEMMA CreateStep ==
  ASSUME AdmInv, NEW c \in AdmCallers,
         AdmLookup(c) \/ AdmTemplate(c) \/ AdmQuota(c) \/ AdmInsert(c) \/ AdmAgain(c)
  PROVE  AdmInv'
<1> USE DEF AdmSteps
<1>m. ASSUME admTask # AdmNone, admCall[c].step \in {"lookup", "again"},
             Answer(c, Matches(admCall[c])), UNCHANGED <<admTask, admEdited>>
      PROVE  AdmInv'
  <2>1. CASE Matches(admCall[c])
    <3>1. Matches(admCall[c]) = TRUE
      BY <2>1
    <3>2. Answer(c, TRUE)
      BY <1>m, <3>1
    <3> QED BY <1>m, <2>1, <3>2, AnswerKeeps DEF Matches, AdmInv, AdmTypeOK
  <2>2. CASE ~Matches(admCall[c])
    <3>1. Matches(admCall[c]) = FALSE
      BY <2>2
    <3>2. Answer(c, FALSE)
      BY <1>m, <3>1
    <3> QED BY <1>m, <2>2, <3>2, AnswerKeeps DEF Matches, AdmInv, AdmTypeOK, CallsKnow, Holds
  <2> QED BY <2>1, <2>2
<1>1. CASE AdmLookup(c)
  BY <1>1, <1>m, GotoKeeps DEF AdmLookup, AdmInv, AdmTypeOK, CallsKnow, Holds
<1>2. CASE AdmTemplate(c)
  BY <1>2, AnswerKeeps, GotoKeeps DEF AdmTemplate, AdmInv, AdmTypeOK, CallsKnow
<1>3. CASE AdmQuota(c)
  BY <1>3, AnswerKeeps, GotoKeeps DEF AdmQuota, AdmInv, AdmTypeOK, CallsKnow
<1>4. CASE AdmInsert(c)
  <2>1. CASE admTask # AdmNone
    BY <1>4, <2>1, GotoKeeps DEF AdmInsert, AdmInv, CallsKnow
  <2>2. CASE admTask = AdmNone
    <3> DEFINE row == [status |-> IF admCall[c].draft THEN "draft" ELSE "pending",
                       digest |-> admCall[c].digest]
    <3>1. admTask' = row /\ Answer(c, TRUE) /\ admEdited' = admEdited
      BY <1>4, <2>2 DEF AdmInsert
    <3>2. row \in AdmRows
      BY <1>4 DEF AdmInsert, AdmInv, CallsKnow, AdmRows
    <3>3. row # AdmNone /\ row.digest = admCall[c].digest
      BY <3>2, AdmAssumption
    <3> HIDE DEF row
    <3> QED BY <2>2, <3>1, <3>2, <3>3, AnswerKeeps
  <2> QED BY <2>1, <2>2
<1>5. CASE AdmAgain(c)
  BY <1>5, <1>m DEF AdmAgain, AdmInv, CallsKnow
<1> QED BY <1>1, <1>2, <1>3, <1>4, <1>5

(* Drafts, copies and what happens to the row around the requests          *)
LEMMA OtherStep ==
  ASSUME AdmInv,
         \/ \E c \in AdmCallers :
              \/ \E digest \in AdmDigests, draft, queue \in BOOLEAN :
                   AdmCreate(c, digest, draft, queue)
              \/ \E digest \in AdmDigests, template \in BOOLEAN :
                   AdmUpdateDraft(c, digest, template)
              \/ AdmPublish(c) \/ AdmWriteDraft(c) \/ AdmWritePublished(c)
         \/ \E digest \in AdmDigests, draft \in BOOLEAN : AdmCopy(digest, draft)
         \/ AdmTemplateReviewed \/ AdmQuotaChanges \/ AdmProceeds
         \/ UNCHANGED adminVars
  PROVE  AdmInv'
<1> USE DEF AdmInv, AdmTypeOK, CallsKnow, AnswersAgree, Holds, AdmIdle, AdmSteps, AdmTerminal
<1>1. ASSUME NEW c \in AdmCallers, NEW digest \in AdmDigests, NEW draft \in BOOLEAN,
             NEW queue \in BOOLEAN, AdmCreate(c, digest, draft, queue)
      PROVE  AdmInv'
  <2> DEFINE before == [digest |-> digest, after |-> FALSE, ok |-> TRUE] \in admAnswers
  <2>1. ~admEdited /\ before => Holds(digest)
    OBVIOUS
  <2>2. before \in BOOLEAN
    <3>1. CASE before
      <4>1. before = TRUE
        BY <3>1
      <4> QED BY <4>1, Zenon
    <3>2. CASE ~before
      <4>1. before = FALSE
        BY <3>2
      <4> QED BY <4>1, Zenon
    <3> QED BY <3>1, <3>2
  <2>3. admCall' = [admCall EXCEPT ![c] = [step |-> "lookup", digest |-> digest,
                       draft |-> draft, queue |-> queue, after |-> before]]
    BY <1>1 DEF AdmCreate, AdmBegin
  <2> HIDE DEF before
  <2> QED BY <1>1, <2>1, <2>2, <2>3 DEF AdmCreate
<1>2. ASSUME NEW c \in AdmCallers, NEW digest \in AdmDigests,
            NEW template \in BOOLEAN, AdmUpdateDraft(c, digest, template)
      PROVE  AdmInv'
  BY <1>2 DEF AdmUpdateDraft, AdmBegin, Draft
<1>3. ASSUME NEW c \in AdmCallers, AdmPublish(c) PROVE AdmInv'
  BY <1>3 DEF AdmPublish, AdmBegin, Draft
<1>4. ASSUME NEW c \in AdmCallers, AdmWriteDraft(c) PROVE AdmInv'
  BY <1>4, AdmAssumption DEF AdmWriteDraft, AdmEnd, AdmRows
<1>5. ASSUME NEW c \in AdmCallers, AdmWritePublished(c) PROVE AdmInv'
  BY <1>5, AdmAssumption DEF AdmWritePublished, AdmEnd, AdmRows
<1>6. ASSUME NEW digest \in AdmDigests, NEW draft \in BOOLEAN, AdmCopy(digest, draft)
      PROVE  AdmInv'
  BY <1>6, AdmAssumption DEF AdmCopy, AdmRows
<1>7. CASE AdmTemplateReviewed \/ AdmQuotaChanges
  BY <1>7 DEF AdmTemplateReviewed, AdmQuotaChanges
<1>8. CASE AdmProceeds
  BY <1>8, AdmAssumption DEF AdmProceeds, AdmRows
<1>9. CASE UNCHANGED adminVars
  BY <1>9 DEF adminVars
<1> QED BY <1>1, <1>2, <1>3, <1>4, <1>5, <1>6, <1>7, <1>8, <1>9

LEMMA AdmStep == AdmInv /\ [AdminNext]_adminVars => AdmInv'
BY CreateStep, OtherStep DEF AdminNext

(* Whoever asks for the campaign that is there gets it, whoever asks for   *)
(* another one under its biz_id does not, and a request that succeeded     *)
(* once succeeds again while nobody edits the campaign.                    *)
THEOREM CreateAgrees == AdminSpec => []CreateIdempotent
<1>1. AdmInv => CreateIdempotent
  BY DEF AdmInv, AnswersAgree, Holds, CreateIdempotent
<1> QED BY <1>1, AdmInit, AdmStep, PTL DEF AdminSpec

(* Nobody holds a draft that was published, unless the publishing says so. *)
NoDraftHeld ==
  admTask # AdmNone /\ admTask.status # "draft" /\ ~admRaced =>
    \A c \in AdmCallers : admCall[c].step \notin {"edit", "publish"}

AdmSettledInv == AdmInv /\ NoDraftHeld

LEMMA NoDraftHeldStep == AdmSettledInv /\ [AdminNext]_adminVars => NoDraftHeld'
<1> SUFFICES ASSUME AdmInv, NoDraftHeld, [AdminNext]_adminVars,
                    admTask' # AdmNone, admTask'.status # "draft", ~admRaced', NEW d \in AdmCallers
             PROVE  admCall'[d].step \notin {"edit", "publish"}
  BY DEF AdmSettledInv, NoDraftHeld
<1> USE DEF AdmInv, AdmTypeOK, NoDraftHeld, AdmSteps
<1>1. ASSUME NEW c \in AdmCallers, NEW step, AdmGoto(c, step), step \notin {"edit", "publish"},
             UNCHANGED <<admTask, admRaced>>
      PROVE  admCall'[d].step \notin {"edit", "publish"}
  BY <1>1 DEF AdmGoto
<1>2. ASSUME NEW c \in AdmCallers, admCall' = [admCall EXCEPT ![c] = AdmIdle],
             admTask = AdmNone \/ (admTask.status # "draft" /\ ~admRaced)
      PROVE  admCall'[d].step \notin {"edit", "publish"}
  BY <1>2 DEF AdmIdle, CallsKnow
<1>3. ASSUME NEW c \in AdmCallers,
             AdmLookup(c) \/ AdmTemplate(c) \/ AdmQuota(c) \/ AdmInsert(c) \/ AdmAgain(c)
      PROVE  admCall'[d].step \notin {"edit", "publish"}
  <2>1. admRaced' = admRaced /\ (admTask' = admTask \/ admTask = AdmNone)
    BY <1>3 DEF AdmLookup, AdmTemplate, AdmQuota, AdmInsert, AdmAgain
  <2>2. admTask = AdmNone \/ (admTask.status # "draft" /\ ~admRaced)
    BY <2>1
  <2>3. \/ \E ok \in BOOLEAN : Answer(c, ok)
        \/ \E step \in {"template", "insert", "quota", "again"} : AdmGoto(c, step)
    <3>1. Matches(admCall[c]) \in BOOLEAN
      BY DEF Matches
    <3> QED BY <1>3, <3>1 DEF AdmLookup, AdmTemplate, AdmQuota, AdmInsert, AdmAgain
  <2>4. CASE \E ok \in BOOLEAN : Answer(c, ok)
    BY <1>2, <2>2, <2>4 DEF Answer
  <2>5. CASE \E step \in {"template", "insert", "quota", "again"} : AdmGoto(c, step)
    BY <2>2, <2>5 DEF AdmGoto, CallsKnow
  <2> QED BY <2>3, <2>4, <2>5
<1>4. ASSUME NEW c \in AdmCallers, AdmWriteDraft(c) PROVE admCall'[d].step \notin {"edit", "publish"}
  <2>1. admTask # AdmNone /\ admTask.status = "draft" => admTask'.status = "draft"
    BY <1>4, AdmAssumption DEF AdmWriteDraft, AdmRows
  <2>2. admTask = AdmNone \/ (admTask.status # "draft" /\ ~admRaced)
    BY <1>4, <2>1 DEF AdmWriteDraft
  <2> QED BY <1>2, <1>4, <2>2 DEF AdmWriteDraft, AdmEnd
<1>5. ASSUME NEW c \in AdmCallers, AdmWritePublished(c) PROVE admCall'[d].step \notin {"edit", "publish"}
  BY <1>5 DEF AdmWritePublished, AdmEnd, AdmIdle
<1>6. ASSUME NEW c \in AdmCallers, NEW digest \in AdmDigests, NEW draft \in BOOLEAN, NEW queue \in BOOLEAN,
             AdmCreate(c, digest, draft, queue)
      PROVE  admCall'[d].step \notin {"edit", "publish"}
  <2> DEFINE before == [digest |-> digest, after |-> FALSE, ok |-> TRUE] \in admAnswers
             call == [step |-> "lookup", digest |-> digest, draft |-> draft, queue |-> queue, after |-> before]
  <2>1. admCall' = [admCall EXCEPT ![c] = call]
    BY <1>6 DEF AdmCreate, AdmBegin
  <2> HIDE DEF before
  <2>3. call.step = "lookup"
    OBVIOUS
  <2> HIDE DEF call
  <2>2. UNCHANGED <<admTask, admRaced>>
    BY <1>6 DEF AdmCreate
  <2> QED BY <2>1, <2>2, <2>3
<1>7. ASSUME NEW c \in AdmCallers, AdmPublish(c) \/ \E digest \in AdmDigests, template \in BOOLEAN :
                                     AdmUpdateDraft(c, digest, template)
      PROVE  admCall'[d].step \notin {"edit", "publish"}
  BY <1>7 DEF AdmPublish, AdmUpdateDraft, Draft
<1>8. ASSUME NEW digest \in AdmDigests, NEW draft \in BOOLEAN, AdmCopy(digest, draft)
      PROVE  admCall'[d].step \notin {"edit", "publish"}
  BY <1>8 DEF AdmCopy, CallsKnow
<1>9. CASE AdmTemplateReviewed \/ AdmQuotaChanges \/ UNCHANGED adminVars
  BY <1>9 DEF AdmTemplateReviewed, AdmQuotaChanges, adminVars
<1>10. CASE AdmProceeds
  BY <1>10, AdmAssumption DEF AdmProceeds, AdmRows
<1> QED BY <1>3, <1>4, <1>5, <1>6, <1>7, <1>8, <1>9, <1>10 DEF AdminNext

SettledStep ==
  admTask # AdmNone /\ admTask.status # "draft" /\ ~admRaced =>
    /\ admTask'.digest = admTask.digest
    /\ admTask.status \in AdmTerminal => admTask'.status = admTask.status
    /\ admTask'.status \in {"draft", "pending"} => admTask.status = "pending"

LEMMA PublishedKept == AdmSettledInv /\ [AdminNext]_adminVars => SettledStep
<1> SUFFICES ASSUME AdmInv, NoDraftHeld, [AdminNext]_adminVars,
                    admTask # AdmNone, admTask.status # "draft", ~admRaced
             PROVE  SettledStep
  BY DEF AdmSettledInv, SettledStep
<1>1. admTask \in AdmRows
  BY DEF AdmInv, AdmTypeOK
<1>2. CASE admTask' = admTask
  BY <1>1, <1>2 DEF SettledStep, AdmRows, AdmTerminal
<1>3. CASE AdmProceeds
  BY <1>1, <1>3, AdmAssumption DEF AdmProceeds, SettledStep, AdmRows, AdmTerminal
<1>4. \A c \in AdmCallers : ~AdmWriteDraft(c) /\ ~AdmWritePublished(c)
  BY DEF NoDraftHeld, AdmWriteDraft, AdmWritePublished
<1>5. admTask' = admTask \/ AdmProceeds
  BY <1>4 DEF AdminNext, AdmCreate, AdmUpdateDraft, AdmPublish, AdmLookup, AdmTemplate, AdmQuota, AdmInsert,
              AdmAgain, AdmCopy, AdmTemplateReviewed, AdmQuotaChanges, adminVars
<1> QED BY <1>2, <1>3, <1>5

(* What was published is what is sent: no request that began after it      *)
(* changes the form of the campaign, reopens it or undoes its end.         *)
THEOREM PublishedStays == AdminSpec => PublishedIsSettled
<1>1. AdminInit => AdmSettledInv
  BY AdmInit DEF AdmSettledInv, NoDraftHeld, AdminInit
<1>2. AdmSettledInv /\ [AdminNext]_adminVars => AdmSettledInv'
  BY AdmStep, NoDraftHeldStep DEF AdmSettledInv
<1>3. SettledStep =>
        [admTask # AdmNone /\ admTask.status # "draft" /\ ~admRaced =>
           /\ admTask'.digest = admTask.digest
           /\ admTask.status \in AdmTerminal => admTask'.status = admTask.status
           /\ admTask'.status \in {"draft", "pending"} => admTask.status = "pending"]_adminVars
  BY DEF SettledStep
<1> QED BY <1>1, <1>2, <1>3, PublishedKept, PTL DEF AdminSpec, PublishedIsSettled
=============================================================================
