--------------------------- MODULE AudienceProofs ---------------------------
(***************************************************************************)
(* Proofs about who is sent to and who is not, for any users, entries,     *)
(* requests and pages: SuppressionList (the sets follow the table) and     *)
(* SegmentAssets (the count of a segment, and its expansion page by page). *)
(***************************************************************************)
EXTENDS SuppressionList, SegmentAssets, SequenceTheorems, FiniteSetTheorems, TLAPS

-----------------------------------------------------------------------------
(***************************************************************************)
(* SuppressionList.  An entry that is not in doubt has been worked on by   *)
(* one request at a time, so that the last of them has left set and table  *)
(* alike; clean is what a request has had to itself since it began.        *)
(***************************************************************************)
SupCalls == [op : {"idle", "add", "remove", "rebuild", "batch"}, entries : SUBSET SupEntries,
             todo : SUBSET SupEntries, seen : SUBSET SupEntries, batch : SUBSET SupEntries,
             clean : SUBSET SupEntries]

SupTypeOK ==
  /\ supDb \subseteq SupEntries /\ supRedis \subseteq SupEntries /\ supDoubt \subseteq SupEntries
  /\ supCall \in [SupCallers -> SupCalls]

(* Who works on what                                                       *)
Alone(c) ==
  /\ supCall[c].op = "idle" => supCall[c].entries = {}
  /\ supCall[c].op \in {"idle", "add", "remove"} => supCall[c].todo = supCall[c].entries
  /\ supCall[c].op \in {"rebuild", "batch"} => supCall[c].entries = SupEntries
  /\ supCall[c].clean \subseteq supCall[c].entries
  /\ supCall[c].entries \ supCall[c].clean \subseteq supDoubt
  /\ \A d \in SupCallers \ {c} : supCall[c].clean \cap supCall[d].entries = {}

(* What a request may rely on, for the entries it has had to itself        *)
Knows(c) ==
  \A e \in supCall[c].clean :
    /\ supCall[c].op = "add" => e \in supDb
    /\ supCall[c].op = "remove" => e \notin supDb
    /\ supCall[c].op \in {"rebuild", "batch"} =>
         /\ e \in supCall[c].todo <=> e \in supDb
         /\ e \in supCall[c].seen => e \in supDb
         /\ e \in supCall[c].seen /\ (supCall[c].op = "batch" => e \notin supCall[c].batch)
              => e \in supRedis
         /\ supCall[c].op = "batch" /\ e \in supCall[c].batch => e \in supDb
         /\ e \notin supDoubt => (e \in supRedis <=> e \in supDb)

SupInv == SupTypeOK /\ (\A c \in SupCallers : Alone(c) /\ Knows(c)) /\ SuppressionSynced

LEMMA SupInit == SuppressionInit => SupInv
BY DEF SuppressionInit, SupInv, SupTypeOK, Alone, Knows, SuppressionSynced, SupIdle, SupCalls, Busy

-----------------------------------------------------------------------------
(* A request begins with entries whose rows it has just settled.           *)
LEMMA BeginKeeps ==
  ASSUME SupInv, NEW c \in SupCallers, NEW op \in {"add", "remove", "rebuild"},
         NEW entries \in SUBSET SupEntries, NEW todo \in SUBSET SupEntries,
         supCall[c] = SupIdle, SupBegun(c, op, entries, todo),
         supDb' \subseteq SupEntries, UNCHANGED supRedis,
         \A e \in SupEntries \ entries : e \in supDb' <=> e \in supDb,
         op \in {"add", "remove"} => todo = entries,
         op = "add" => entries \subseteq supDb',
         op = "remove" => entries \cap supDb' = {},
         op = "rebuild" => entries = SupEntries /\ todo = supDb /\ supDb' = supDb
  PROVE  SupInv'
<1> DEFINE others == SupCallers \ {c}
           shared == entries \cap UNION {Busy(d) : d \in others}
           mine == [SupIdle EXCEPT !.op = op, !.entries = entries, !.todo = todo,
                                   !.clean = entries \ shared]
           Rest(d) == [supCall[d] EXCEPT !.clean = @ \ shared, !.seen = @ \ (todo \ supDb)]
<1>a. \A e : e \in shared <=> e \in entries /\ \E d \in others : e \in supCall[d].entries
  BY DEF Busy
<1>b. /\ supDoubt' = supDoubt \cup shared
      /\ supCall' = [d \in SupCallers |-> IF d = c THEN mine ELSE Rest(d)]
  BY Zenon DEF SupBegun
<1> HIDE DEF shared
<1>c. shared \subseteq entries
  BY <1>a
<1>d. /\ mine \in SupCalls /\ mine.op = op /\ mine.entries = entries /\ mine.todo = todo
      /\ mine.clean = entries \ shared /\ mine.seen = {}
  BY <1>c DEF SupIdle, SupCalls
<1>e. ASSUME NEW d \in others
      PROVE  /\ Rest(d) \in SupCalls
             /\ Rest(d).op = supCall[d].op /\ Rest(d).entries = supCall[d].entries
             /\ Rest(d).todo = supCall[d].todo /\ Rest(d).batch = supCall[d].batch
             /\ Rest(d).clean = supCall[d].clean \ shared
             /\ Rest(d).seen = supCall[d].seen \ (todo \ supDb)
  BY DEF SupInv, SupTypeOK, SupCalls
<1>1. supCall' \in [SupCallers -> SupCalls] /\ supDoubt' = supDoubt \cup shared
  BY <1>b, <1>d, <1>e
<1>2. /\ supCall'[c].op = op /\ supCall'[c].entries = entries /\ supCall'[c].todo = todo
      /\ supCall'[c].clean = entries \ shared /\ supCall'[c].seen = {}
  BY <1>b, <1>d
<1>3. ASSUME NEW d \in others
      PROVE  /\ supCall'[d].op = supCall[d].op /\ supCall'[d].entries = supCall[d].entries
             /\ supCall'[d].todo = supCall[d].todo /\ supCall'[d].batch = supCall[d].batch
             /\ supCall'[d].clean = supCall[d].clean \ shared
             /\ supCall'[d].seen = supCall[d].seen \ (todo \ supDb)
             /\ entries \cap supCall[d].entries \subseteq shared
  BY <1>a, <1>b, <1>e
<1> HIDE DEF mine, Rest
<1>4. SupTypeOK'
  BY <1>1, <1>c DEF SupInv, SupTypeOK
<1>5. \A d \in SupCallers : Alone(d)'
  <2>1. Alone(c)'
    BY <1>1, <1>2, <1>3 DEF Alone
  <2>2. ASSUME NEW d \in others PROVE Alone(d)'
    <3>1. ASSUME NEW f \in SupCallers \ {d} PROVE supCall'[d].clean \cap supCall'[f].entries = {}
      <4>1. CASE f = c
        BY <1>2, <1>3, <4>1 DEF Alone, SupInv
      <4>2. CASE f # c
        BY <1>3, <4>2 DEF Alone, SupInv
      <4> QED BY <4>1, <4>2
    <3>2. supCall'[d].entries \ supCall'[d].clean \subseteq supDoubt'
      BY <1>1, <1>3 DEF Alone, SupInv
    <3> QED BY <1>3, <3>1, <3>2 DEF Alone, SupInv
  <2> QED BY <2>1, <2>2
<1>6. ASSUME NEW e \in SupEntries, e \notin supDoubt, \A d \in others : e \notin supCall[d].entries
      PROVE  e \in supRedis <=> e \in supDb
  <2>1. \A d \in SupCallers : e \notin Busy(d)
    BY <1>6 DEF SupIdle, Busy
  <2> QED BY <1>6, <2>1 DEF SupInv, SuppressionSynced
<1>7. \A d \in SupCallers : Knows(d)'
  <2>1. Knows(c)'
    BY <1>a, <1>1, <1>2, <1>6 DEF Knows
  <2>2. ASSUME NEW d \in others PROVE Knows(d)'
    <3>1. \A e \in supCall'[d].clean : e \in supCall[d].clean /\ e \notin entries /\ e \in SupEntries
      BY <1>3 DEF SupInv, Alone, SupTypeOK, SupCalls
    <3>2. Knows(d)
      BY DEF SupInv
    <3>3. \A e \in supCall'[d].clean : (e \in supDb' <=> e \in supDb) /\ e \in supCall[d].clean
      BY <3>1
    <3> QED BY <1>1, <1>3, <3>2, <3>3 DEF Knows
  <2> QED BY <2>1, <2>2
<1>8. SuppressionSynced'
  <2>1. ASSUME NEW e \in SupEntries, e \notin supDoubt', \A d \in SupCallers : e \notin Busy(d)'
        PROVE  e \in supRedis' <=> e \in supDb'
    <3>1. e \notin entries /\ \A d \in others : e \notin supCall[d].entries
      BY <1>2, <1>3, <2>1 DEF Busy
    <3> QED BY <1>1, <1>6, <2>1, <3>1
  <2> QED BY <2>1 DEF SuppressionSynced
<1> QED BY <1>4, <1>5, <1>7, <1>8 DEF SupInv

LEMMA BeginStep ==
  ASSUME SupInv, NEW c \in SupCallers,
         \/ \E entries \in SUBSET SupEntries : SupAdd(c, entries)
         \/ \E entry \in SupEntries : SupRemove(c, entry)
         \/ SupRebuild(c)
  PROVE  SupInv'
<1>t. supDb \subseteq SupEntries
  BY DEF SupInv, SupTypeOK
<1>1. ASSUME NEW entries \in SUBSET SupEntries, SupAdd(c, entries) PROVE SupInv'
  BY <1>1, <1>t, BeginKeeps DEF SupAdd
<1>2. ASSUME NEW entry \in SupEntries, SupRemove(c, entry) PROVE SupInv'
  BY <1>2, <1>t, BeginKeeps DEF SupRemove, NeedsSync
<1>3. CASE SupRebuild(c)
  BY <1>3, <1>t, BeginKeeps DEF SupRebuild
<1> QED BY <1>1, <1>2, <1>3

(* A step of one request that leaves the others as they are: it touches    *)
(* the sets only where it works, and the table not at all.                 *)
LEMMA OwnStep ==
  ASSUME SupInv, NEW c \in SupCallers, NEW call \in SupCalls,
         supCall' = [supCall EXCEPT ![c] = call], supDb' = supDb,
         supRedis' \subseteq SupEntries, supDoubt' \subseteq SupEntries,
         \A e \in SupEntries \ supCall[c].entries :
            (e \in supRedis' <=> e \in supRedis) /\ (e \in supDoubt' <=> e \in supDoubt),
         supCall[c].entries \cap supDoubt \subseteq supDoubt' \cup supCall[c].clean,
         call.clean \subseteq supCall[c].clean, call.entries \subseteq supCall[c].entries,
         Alone(c)', Knows(c)',
         \A e \in supCall[c].entries \ call.entries :
            e \notin supDoubt' /\ (\A d \in SupCallers \ {c} : e \notin supCall[d].entries)
              => (e \in supRedis' <=> e \in supDb)
  PROVE  SupInv'
<1>1. SupTypeOK'
  BY DEF SupInv, SupTypeOK
<1>2. supCall'[c] = call /\ \A d \in SupCallers \ {c} : supCall'[d] = supCall[d]
  BY DEF SupInv, SupTypeOK
<1>3. ASSUME NEW d \in SupCallers \ {c} PROVE Alone(d)' /\ Knows(d)'
  <2>1. Alone(d) /\ Knows(d) /\ supCall'[d] = supCall[d] /\ supCall[d].clean \subseteq SupEntries
    BY <1>2 DEF SupInv, SupTypeOK, SupCalls
  <2>2. supCall[d].clean \cap supCall[c].entries = {} /\ supCall[c].clean \cap supCall[d].entries = {}
    BY DEF SupInv, Alone
  <2>3. supCall[d].entries \ supCall[d].clean \subseteq supDoubt'
    BY <2>1, <2>2 DEF SupInv, SupTypeOK, SupCalls, Alone
  <2>4. Alone(d)'
    BY <1>2, <2>1, <2>2, <2>3 DEF Alone
  <2>5. Knows(d)'
    BY <2>1, <2>2 DEF Knows
  <2> QED BY <2>4, <2>5
<1>4. SuppressionSynced'
  <2>1. ASSUME NEW e \in SupEntries, e \notin supDoubt', \A d \in SupCallers : e \notin Busy(d)'
        PROVE  e \in supRedis' <=> e \in supDb'
    <3>1. e \notin call.entries /\ \A d \in SupCallers \ {c} : e \notin supCall[d].entries
      BY <1>2, <2>1 DEF Busy
    <3>2. CASE e \in supCall[c].entries
      BY <2>1, <3>1, <3>2
    <3>3. CASE e \notin supCall[c].entries
      BY <2>1, <3>1, <3>3 DEF SupInv, SuppressionSynced, Busy
    <3> QED BY <3>2, <3>3
  <2> QED BY <2>1 DEF SuppressionSynced
<1> QED BY <1>1, <1>2, <1>3, <1>4 DEF SupInv

LEMMA SupLoadStep ==
  ASSUME SupInv, NEW c \in SupCallers, NEW batch \in SUBSET SupEntries, SupLoad(c, batch)
  PROVE  SupInv'
<1> DEFINE call == [supCall[c] EXCEPT !.op = "batch", !.batch = batch, !.seen = @ \cup batch]
<1>1. /\ supCall[c].op = "rebuild" /\ batch \subseteq supDb \ supCall[c].seen
      /\ supCall' = [supCall EXCEPT ![c] = call]
      /\ UNCHANGED <<supDb, supRedis, supDoubt>>
  BY DEF SupLoad, SupInv, SupTypeOK
<1>2. /\ call \in SupCalls /\ call.op = "batch" /\ call.entries = supCall[c].entries
      /\ call.todo = supCall[c].todo /\ call.clean = supCall[c].clean
      /\ call.batch = batch /\ call.seen = supCall[c].seen \cup batch
  BY DEF SupInv, SupTypeOK, SupCalls
<1>3. supCall'[c] = call /\ \A d \in SupCallers \ {c} : supCall'[d] = supCall[d]
  BY <1>1 DEF SupInv, SupTypeOK
<1> HIDE DEF call
<1>4. Alone(c) /\ Knows(c)
  BY DEF SupInv
<1>5. Alone(c)' /\ Knows(c)'
  BY <1>1, <1>2, <1>3, <1>4 DEF Alone, Knows
<1>6. supRedis \subseteq SupEntries /\ supDoubt \subseteq SupEntries
  BY DEF SupInv, SupTypeOK
<1> QED BY <1>1, <1>2, <1>5, <1>6, OwnStep

LEMMA SupBatchAddedStep ==
  ASSUME SupInv, NEW c \in SupCallers, SupBatchAdded(c)
  PROVE  SupInv'
<1> DEFINE call == [supCall[c] EXCEPT !.op = "rebuild", !.batch = {}]
<1>1. /\ supCall[c].op = "batch" /\ supRedis' = supRedis \cup supCall[c].batch
      /\ supCall' = [supCall EXCEPT ![c] = call]
      /\ UNCHANGED <<supDb, supDoubt>>
  BY DEF SupBatchAdded, SupInv, SupTypeOK
<1>2. /\ call \in SupCalls /\ call.op = "rebuild" /\ call.entries = supCall[c].entries
      /\ call.todo = supCall[c].todo /\ call.clean = supCall[c].clean
      /\ call.seen = supCall[c].seen
  BY DEF SupInv, SupTypeOK, SupCalls
<1>3. supCall'[c] = call /\ \A d \in SupCallers \ {c} : supCall'[d] = supCall[d]
  BY <1>1 DEF SupInv, SupTypeOK
<1> HIDE DEF call
<1>4. Alone(c) /\ Knows(c)
  BY DEF SupInv
<1>5. Alone(c)' /\ Knows(c)'
  BY <1>1, <1>2, <1>3, <1>4 DEF Alone, Knows
<1>6. supRedis \subseteq SupEntries /\ supDoubt \subseteq SupEntries /\ supCall[c].batch \subseteq SupEntries
  BY DEF SupInv, SupTypeOK, SupCalls
<1>7. supCall[c].entries = SupEntries
  BY <1>1, <1>4 DEF Alone
<1> QED BY <1>1, <1>2, <1>5, <1>6, <1>7, OwnStep

(* A request ends: what it had to itself is settled, the rest in doubt.    *)
LEMMA EndKeeps ==
  ASSUME SupInv, NEW c \in SupCallers, supCall' = [supCall EXCEPT ![c] = SupIdle], supDb' = supDb,
         supRedis' \subseteq SupEntries, supDoubt' \subseteq SupEntries,
         \A e \in SupEntries \ supCall[c].entries :
            (e \in supRedis' <=> e \in supRedis) /\ (e \in supDoubt' <=> e \in supDoubt),
         supCall[c].entries \cap supDoubt \subseteq supDoubt' \cup supCall[c].clean,
         \A e \in supCall[c].clean : e \notin supDoubt' => (e \in supRedis' <=> e \in supDb)
  PROVE  SupInv'
<1>1. supCall'[c] = SupIdle
  BY DEF SupInv, SupTypeOK
<1>2. /\ SupIdle \in SupCalls /\ SupIdle.clean = {} /\ SupIdle.entries = {}
      /\ SupIdle.op = "idle" /\ SupIdle.todo = {}
  BY DEF SupIdle, SupCalls
<1>3. Alone(c)' /\ Knows(c)'
  BY <1>1, <1>2 DEF Alone, Knows
<1>4. supCall[c].entries \ supCall[c].clean \subseteq supDoubt'
  BY DEF SupInv, Alone
<1> QED BY <1>2, <1>3, <1>4, OwnStep

LEMMA EndStep ==
  ASSUME SupInv, NEW c \in SupCallers,
         \/ SupSync(c) \/ SupRebuilt(c)
         \/ \E executed \in SUBSET SupEntries : SupFails(c, executed)
  PROVE  SupInv'
<1>t. /\ Alone(c) /\ Knows(c)
      /\ supRedis \subseteq SupEntries /\ supDoubt \subseteq SupEntries /\ supDb \subseteq SupEntries
      /\ supCall[c].entries \subseteq SupEntries /\ supCall[c].todo \subseteq SupEntries
      /\ supCall[c].batch \subseteq SupEntries
  BY DEF SupInv, SupTypeOK, SupCalls
<1>1. CASE SupSync(c)
  <2>1. /\ supCall' = [supCall EXCEPT ![c] = SupIdle] /\ supDb' = supDb
        /\ supDoubt' = supDoubt \ supCall[c].clean
        /\ supCall[c].op \in {"add", "remove"} /\ supCall[c].todo = supCall[c].entries
        /\ supCall[c].op = "add" => supRedis' = supRedis \cup supCall[c].entries
        /\ supCall[c].op = "remove" => supRedis' = supRedis \ supCall[c].entries
    BY <1>1, <1>t DEF SupSync, Synced, Alone
  <2>2. \A e \in supCall[c].clean : e \in supCall[c].entries /\ (e \in supRedis' <=> e \in supDb)
    BY <1>t, <2>1 DEF Alone, Knows
  <2> QED BY <1>t, <2>1, <2>2, EndKeeps
<1>2. CASE SupRebuilt(c)
  <2>1. /\ supCall' = [supCall EXCEPT ![c] = SupIdle] /\ supDb' = supDb /\ supRedis' = supRedis
        /\ supDoubt' = supDoubt \ (supCall[c].clean \cap supDb)
        /\ supCall[c].op = "rebuild" /\ supCall[c].todo \cap supDb \subseteq supCall[c].seen
        /\ supCall[c].entries = SupEntries
    BY <1>2, <1>t DEF SupRebuilt, Alone
  <2>2. \A e \in supCall[c].clean : e \notin supDoubt' => (e \in supRedis <=> e \in supDb)
    BY <1>t, <2>1 DEF Knows
  <2> QED BY <1>t, <2>1, <2>2, EndKeeps
<1>3. ASSUME NEW executed \in SUBSET SupEntries, SupFails(c, executed) PROVE SupInv'
  <2>1. /\ supCall' = [supCall EXCEPT ![c] = SupIdle] /\ supDb' = supDb
        /\ supDoubt' = supDoubt \cup supCall[c].entries
        /\ supRedis' \in {supRedis \ executed, supRedis \cup executed}
    BY <1>3 DEF SupFails
  <2>2. executed \subseteq supCall[c].entries
    <3>1. CASE supCall[c].op = "batch"
      BY <1>3, <1>t, <3>1 DEF SupFails, Alone
    <3>2. CASE supCall[c].op = "rebuild"
      BY <1>3, <3>2 DEF SupFails
    <3>3. CASE supCall[c].op \in {"idle", "add", "remove"}
      BY <1>3, <1>t, <3>3 DEF SupFails, Alone
    <3> QED BY <3>1, <3>2, <3>3 DEF SupInv, SupTypeOK, SupCalls
  <2>3. supCall[c].clean \subseteq supCall[c].entries
    BY <1>t DEF Alone
  <2> QED BY <1>t, <2>1, <2>2, <2>3, EndKeeps
<1> QED BY <1>1, <1>2, <1>3

LEMMA LossStep == ASSUME SupInv, SupRedisLoss PROVE SupInv'
<1> DEFINE Rest(c) == [supCall[c] EXCEPT !.clean = {}]
<1>1. /\ supCall' = [c \in SupCallers |-> Rest(c)] /\ supDb' = supDb
      /\ supRedis' = {} /\ supDoubt' = SupEntries
  BY DEF SupRedisLoss
<1>2. ASSUME NEW c \in SupCallers
      PROVE  /\ Rest(c) \in SupCalls /\ Rest(c).op = supCall[c].op /\ Rest(c).clean = {}
             /\ Rest(c).entries = supCall[c].entries /\ Rest(c).todo = supCall[c].todo
             /\ supCall[c].entries \subseteq SupEntries
  BY DEF SupInv, SupTypeOK, SupCalls
<1> HIDE DEF Rest
<1>3. SupTypeOK'
  BY <1>1, <1>2 DEF SupInv, SupTypeOK
<1>4. ASSUME NEW c \in SupCallers PROVE Alone(c)' /\ Knows(c)'
  BY <1>1, <1>2 DEF SupInv, Alone, Knows
<1>5. SuppressionSynced'
  BY <1>1 DEF SuppressionSynced
<1> QED BY <1>3, <1>4, <1>5 DEF SupInv

LEMMA SupStep == SupInv /\ [SuppressionNext]_suppressionVars => SupInv'
<1>1. SupInv /\ UNCHANGED suppressionVars => SupInv'
  BY DEF suppressionVars, SupInv, SupTypeOK, Alone, Knows, SuppressionSynced, Busy
<1> QED BY <1>1, BeginStep, SupLoadStep, SupBatchAddedStep, EndStep, LossStep DEF SuppressionNext

(* The send path asks what the table says for every entry nobody works on  *)
(* and no fault or overlap has left in doubt.                              *)
THEOREM SetsFollowTable == SuppressionSpec => []SuppressionSynced
<1>1. SupInv => SuppressionSynced
  BY DEF SupInv
<1> QED BY <1>1, SupInit, SupStep, PTL DEF SuppressionSpec

-----------------------------------------------------------------------------
(***************************************************************************)
(* SegmentAssets.  The count is written from what the same request has     *)
(* left in the table; a walk has, after n pages, every member of the first *)
(* n pages that stayed, because the pages are cut from a sorted list and   *)
(* the total bounds their number.                                          *)
(***************************************************************************)
SegRequests ==
  [op : {"idle", "import", "clear", "refresh", "delete", "refer"},
   step : {"idle", "wipe", "upsert", "count", "update", "drop", "insert"},
   users : SUBSET SegUsers, count : Nat, alone : BOOLEAN]

SegWalks ==
  [step : {"idle", "count", "list", "done"}, kind : {"exclude", "count"}, pageNo : Nat, offset : Nat,
   total : Nat, out : SUBSET SegUsers, missed : SUBSET SegUsers, partial : BOOLEAN, disturbed : BOOLEAN]

SegmentTypeOK ==
  /\ segRow \in [exists : BOOLEAN, active : BOOLEAN, count : Nat]
  /\ segMembers \in Seq(SegUsers) /\ segCall \in [SegCallers -> SegRequests]
  /\ segDoubt \in BOOLEAN /\ segWalk \in SegWalks

(* What a request does at a step.                                          *)
StepOfOp(call) ==
  /\ call.op = "idle" => call = SegIdle
  /\ call.op # "idle" => call.step # "idle"
  /\ call.step = "wipe" => call.op \in {"import", "clear", "delete"}
  /\ call.step = "insert" => call.op = "refer"
  /\ call.step = "upsert" => call.op = "import"

(* A request that nobody overlaps finds the row and the members as it left *)
(* them.                                                                   *)
CountOrDoubt ==
  /\ ~segRow.exists => segRow.count = 0
  /\ \A c \in SegCallers :
       /\ StepOfOp(segCall[c])
       /\ segCall[c].op # "idle" /\ ~segCall[c].alone => segDoubt
       /\ segCall[c].alone =>
            /\ \A d \in SegCallers \ {c} : segCall[d] = SegIdle
            /\ segRow.exists
            /\ segCall[c].step = "update" => segCall[c].count = Len(segMembers)
            /\ segCall[c].step = "drop" => segMembers = <<>>

(* A walk that nothing disturbs has found every member up to its offset.   *)
WalkFound ==
  segWalk.step \in {"count", "list"} /\ ~segWalk.disturbed =>
    /\ \A i \in 1..Len(segMembers) : i <= segWalk.offset => segMembers[i] \in segWalk.out
    /\ segWalk.step = "list" => segWalk.total = Len(segMembers)

SegmentInv == SegmentTypeOK /\ CountOrDoubt /\ WalkFound /\ MembersCounted /\ ExcludeComplete

-----------------------------------------------------------------------------
LEMMA SegIdleIs ==
  /\ SegIdle \in SegRequests /\ SegIdle.op = "idle" /\ SegIdle.step = "idle" /\ SegIdle.alone = FALSE
  /\ StepOfOp(SegIdle)
BY DEF SegIdle, SegRequests, StepOfOp

LEMMA NoWalkIs ==
  NoWalk \in SegWalks /\ NoWalk.step = "idle" /\ NoWalk.offset = 0 /\ NoWalk.disturbed = FALSE
BY DEF NoWalk, SegWalks

LEMMA NoMembers == <<>> \in Seq(SegUsers) /\ Len(<<>>) = 0
BY EmptySeq

LEMMA SegmentInitInv == SegmentInit => SegmentInv
<1> SUFFICES ASSUME SegmentInit PROVE SegmentInv
  OBVIOUS
<1>0. Len(segMembers) = 0 /\ segMembers \in Seq(SegUsers)
  BY NoMembers, Zenon DEF SegmentInit
<1>1. /\ segRow \in [exists : BOOLEAN, active : BOOLEAN, count : Nat]
      /\ segCall \in [SegCallers -> SegRequests] /\ segDoubt \in BOOLEAN /\ segWalk \in SegWalks
  BY SegIdleIs, NoWalkIs DEF SegmentInit
<1>2. CountOrDoubt
  BY SegIdleIs DEF SegmentInit, CountOrDoubt
<1>3. WalkFound /\ ExcludeComplete
  BY NoWalkIs DEF SegmentInit, WalkFound, ExcludeComplete
<1>4. MembersCounted
  BY <1>0 DEF SegmentInit, MembersCounted
<1> QED BY <1>0, <1>1, <1>2, <1>3, <1>4 DEF SegmentInv, SegmentTypeOK

(* A walk under way remembers that the members changed under it.           *)
LEMMA SetMembersKeepsWalk ==
  ASSUME SegmentInv, NEW members, SetMembers(members)
  PROVE  segWalk' \in SegWalks /\ WalkFound' /\ ExcludeComplete'
<1>1. segWalk \in SegWalks
  BY DEF SegmentInv, SegmentTypeOK
<1>2. /\ segWalk' \in SegWalks /\ segWalk'.step = segWalk.step /\ segWalk'.offset = segWalk.offset
      /\ segWalk'.out = segWalk.out /\ segWalk'.total = segWalk.total /\ segWalk'.missed = segWalk.missed
      /\ segWalk'.partial = segWalk.partial
      /\ segWalk'.disturbed = (segWalk.disturbed \/ segMembers' # segMembers)
  BY <1>1 DEF SetMembers, SegWalks
<1>3. CASE segWalk'.disturbed
  BY <1>2, <1>3 DEF WalkFound, ExcludeComplete
<1>4. CASE ~segWalk'.disturbed
  <2>1. segMembers' = segMembers /\ ~segWalk.disturbed
    BY <1>2, <1>4
  <2>2. WalkFound'
    BY <1>2, <2>1 DEF SegmentInv, WalkFound
  <2> QED BY <1>2, <2>1, <2>2 DEF SegmentInv, ExcludeComplete
<1> QED BY <1>3, <1>4

LEMMA WalkUntouched ==
  ASSUME SegmentInv, UNCHANGED <<segMembers, segWalk>>
  PROVE  segWalk' \in SegWalks /\ segMembers' \in Seq(SegUsers) /\ WalkFound' /\ ExcludeComplete'
BY DEF SegmentInv, SegmentTypeOK, WalkFound, ExcludeComplete

LEMMA CountUntouched ==
  ASSUME SegmentInv, UNCHANGED <<segRow, segMembers, segCall, segDoubt>>
  PROVE  CountOrDoubt' /\ MembersCounted'
BY DEF SegmentInv, CountOrDoubt, StepOfOp, MembersCounted

(* A request takes its next step, or ends.                                 *)
LEMMA OneSegRequest ==
  ASSUME SegmentInv, NEW c \in SegCallers, NEW call \in SegRequests,
         segCall' = [segCall EXCEPT ![c] = call], segCall[c].op # "idle", StepOfOp(call),
         call.op = "idle" => ~call.alone,
         call.op # "idle" => call.alone = segCall[c].alone,
         call.alone =>
           /\ segRow'.exists
           /\ call.step = "update" => call.count = Len(segMembers')
           /\ call.step = "drop" => segMembers' = <<>>,
         segDoubt => segDoubt' \/ (call.op = "idle" /\ segCall[c].alone),
         ~segRow'.exists => segRow'.count = 0
  PROVE  CountOrDoubt' /\ segCall' \in [SegCallers -> SegRequests]
<1> USE DEF SegmentInv
<1>1. segCall' \in [SegCallers -> SegRequests]
      /\ \A d \in SegCallers : segCall'[d] = IF d = c THEN call ELSE segCall[d]
  BY DEF SegmentTypeOK
<1>2. ASSUME NEW d \in SegCallers, d # c
      PROVE  /\ StepOfOp(segCall'[d]) /\ ~segCall'[d].alone
             /\ segCall'[d].op # "idle" => segDoubt'
  <2>1. segCall'[d] = segCall[d] /\ StepOfOp(segCall[d])
    BY <1>1, <1>2 DEF CountOrDoubt
  <2>2. ~segCall[d].alone
    BY <1>2, SegIdleIs DEF CountOrDoubt
  <2>3. ASSUME segCall[d].op # "idle" PROVE segDoubt'
    <3>1. segDoubt /\ ~segCall[c].alone
      BY <1>2, <2>2, <2>3, SegIdleIs DEF CountOrDoubt
    <3> QED BY <3>1
  <2> QED BY <2>1, <2>2, <2>3
<1>3. ASSUME call.alone PROVE \A d \in SegCallers \ {c} : segCall'[d] = SegIdle
  BY <1>1, <1>3 DEF CountOrDoubt
<1>4. call.op # "idle" /\ ~call.alone => segDoubt'
  BY DEF CountOrDoubt
<1>5. CountOrDoubt'
  BY <1>1, <1>2, <1>3, <1>4 DEF CountOrDoubt
<1> QED BY <1>1, <1>5

LEMMA SegStepBegin ==
  ASSUME SegmentInv, NEW c \in SegCallers, SegStart(c) PROVE SegmentInv'
<1> USE DEF SegmentInv
<1>1. PICK op \in {"import", "clear", "refresh", "delete", "refer"}, step \in {"wipe", "upsert", "count", "insert"},
           users \in SUBSET SegUsers :
        /\ SegBegin(c, op, step, users) /\ segRow.exists
        /\ step = "wipe" => op \in {"import", "clear", "delete"}
        /\ step = "insert" => op = "refer"
        /\ step = "upsert" => op = "import"
  BY DEF SegStart
<1> DEFINE others == {d \in SegCallers \ {c} : segCall[d] # SegIdle}
           call == [op |-> op, step |-> step, users |-> users, count |-> 0, alone |-> others = {}]
<1>2. /\ UNCHANGED <<segRow, segMembers, segRefs, segWalk>> /\ segDoubt' = (segDoubt \/ others # {})
      /\ segCall' = [d \in SegCallers |->
           IF d = c THEN call ELSE IF d \in others THEN [segCall[d] EXCEPT !.alone = FALSE] ELSE SegIdle]
      /\ segCall[c] = SegIdle
  BY <1>1 DEF SegBegin
<1>3. /\ call \in SegRequests /\ call.op = op /\ call.step = step /\ call.alone = (others = {})
      /\ StepOfOp(call)
  BY <1>1 DEF SegRequests, StepOfOp
<1>4. segCall \in [SegCallers -> SegRequests] /\ \A d \in SegCallers : StepOfOp(segCall[d])
  BY DEF SegmentTypeOK, CountOrDoubt
<1>5. \A d \in others : LET other == [segCall[d] EXCEPT !.alone = FALSE] IN
        /\ other \in SegRequests /\ other.op = segCall[d].op /\ other.step = segCall[d].step
        /\ other.alone = FALSE /\ other.op # "idle" /\ StepOfOp(other)
  BY <1>4 DEF SegRequests, StepOfOp
<1> HIDE DEF call
<1>6. segCall' \in [SegCallers -> SegRequests] /\ segDoubt' \in BOOLEAN
  BY <1>2, <1>3, <1>5, SegIdleIs DEF SegmentTypeOK
<1>7. CASE others = {}
  <2>1. \A d \in SegCallers : IF d = c THEN segCall'[d] = call ELSE segCall'[d] = SegIdle
    BY <1>2, <1>7
  <2>2. \A d \in SegCallers : segCall[d] = SegIdle
    BY <1>2, <1>7
  <2>3. call.alone = TRUE /\ call.step \notin {"update", "drop"} /\ segRow'.exists
    BY <1>1, <1>2, <1>3, <1>7
  <2>4. CountOrDoubt'
    BY <1>2, <1>3, <2>1, <2>3, SegIdleIs DEF CountOrDoubt
  <2>5. MembersCounted'
    BY <1>2, <1>7, <2>2, SegIdleIs DEF MembersCounted
  <2> QED BY <1>2, <1>6, <2>4, <2>5, WalkUntouched DEF SegmentTypeOK
<1>8. CASE others # {}
  <2>1. segDoubt'
    BY <1>2, <1>8
  <2>2. \A d \in SegCallers : StepOfOp(segCall'[d]) /\ segCall'[d].alone = FALSE
    BY <1>2, <1>3, <1>5, <1>8, SegIdleIs
  <2>3. CountOrDoubt' /\ MembersCounted'
    BY <1>2, <2>1, <2>2 DEF CountOrDoubt, MembersCounted
  <2> QED BY <1>2, <1>6, <2>3, WalkUntouched DEF SegmentTypeOK
<1> QED BY <1>7, <1>8

LEMMA SegStepRow == ASSUME SegmentInv, SegCreate \/ SegUpdate PROVE SegmentInv'
<1> USE DEF SegmentInv
<1>1. UNCHANGED <<segMembers, segCall, segDoubt, segWalk>>
  BY DEF SegCreate, SegUpdate
<1>2. segRow' \in [exists : BOOLEAN, active : BOOLEAN, count : Nat] /\ segRow'.exists
      /\ segRow'.count = segRow.count
  <2>1. segRow \in [exists : BOOLEAN, active : BOOLEAN, count : Nat] /\ (~segRow.exists => segRow.count = 0)
    BY DEF SegmentTypeOK, CountOrDoubt
  <2>2. CASE SegCreate
    BY <2>1, <2>2 DEF SegCreate
  <2>3. CASE SegUpdate
    BY <2>1, <2>3 DEF SegUpdate
  <2> QED BY <2>2, <2>3
<1>3. CountOrDoubt' /\ MembersCounted'
  BY <1>1, <1>2 DEF CountOrDoubt, StepOfOp, MembersCounted
<1> QED BY <1>1, <1>2, <1>3, WalkUntouched DEF SegmentTypeOK

(* Wiping and filling: a request is under way, so nothing is claimed.      *)
LEMMA SegStepWipe == ASSUME SegmentInv, NEW c \in SegCallers, SegWipe(c) PROVE SegmentInv'
<1> USE DEF SegmentInv
<1>1. segCall[c].step = "wipe" /\ SetMembers(<<>>) /\ UNCHANGED <<segRow, segRefs, segDoubt, segCalls>>
  BY DEF SegWipe
<1>2. segCall[c] \in SegRequests /\ segCall[c].op \in {"import", "clear", "delete"} /\ StepOfOp(segCall[c])
  BY <1>1 DEF SegmentTypeOK, CountOrDoubt, StepOfOp
<1>3. PICK step \in {"upsert", "count", "drop"} :
        segCall' = [segCall EXCEPT ![c].step = step] /\ (step = "upsert" => segCall[c].op = "import")
  BY <1>2 DEF SegWipe
<1> DEFINE call == [segCall[c] EXCEPT !.step = step]
<1>4. /\ call \in SegRequests /\ call.op = segCall[c].op /\ call.step = step /\ call.alone = segCall[c].alone
      /\ StepOfOp(call)
  BY <1>2, <1>3 DEF SegRequests, StepOfOp
<1>5. segCall' = [segCall EXCEPT ![c] = call]
  BY <1>3
<1> HIDE DEF call
<1>6. CountOrDoubt' /\ segCall' \in [SegCallers -> SegRequests]
  <2>1. call.alone => segRow'.exists
    BY <1>1, <1>4 DEF CountOrDoubt
  <2>2. segMembers' = <<>> /\ call.step # "update"
    BY <1>1, <1>4 DEF SetMembers
  <2>3. ~segRow'.exists => segRow'.count = 0
    BY <1>1 DEF CountOrDoubt
  <2> QED BY <1>1, <1>2, <1>4, <1>5, <2>1, <2>2, <2>3, OneSegRequest
<1>7. MembersCounted'
  <2>1. segCall'[c].op \notin {"idle", "refer"}
    BY <1>2, <1>4, <1>5 DEF SegmentTypeOK
  <2> QED BY <2>1 DEF MembersCounted
<1>8. segMembers' \in Seq(SegUsers)
  BY <1>1, NoMembers DEF SetMembers
<1> QED BY <1>1, <1>6, <1>7, <1>8, SetMembersKeepsWalk DEF SegmentTypeOK

LEMMA SegStepUpsert == ASSUME SegmentInv, NEW c \in SegCallers, SegUpsert(c) PROVE SegmentInv'
<1> USE DEF SegmentInv
<1> DEFINE call == [segCall[c] EXCEPT !.step = "count"]
           fresh == segCall[c].users \ ToSet(segMembers)
<1>1. PICK new \in SetToSeqs(fresh) : SetMembers(segMembers \o new)
  BY DEF SegUpsert
<1>2. segCall[c].step = "upsert" /\ segCall' = [segCall EXCEPT ![c] = call]
      /\ UNCHANGED <<segRow, segRefs, segDoubt, segCalls>>
  BY DEF SegUpsert
<1>3. segCall[c] \in SegRequests /\ StepOfOp(segCall[c])
  BY DEF SegmentTypeOK, CountOrDoubt
<1>4. segCall[c].op = "import"
  BY <1>2, <1>3 DEF StepOfOp
<1>5. /\ call \in SegRequests /\ call.op = segCall[c].op /\ call.step = "count" /\ call.alone = segCall[c].alone
      /\ call.op # "idle" /\ StepOfOp(call)
  BY <1>2, <1>3, <1>4 DEF SegRequests, StepOfOp
<1>6. new \in Seq(SegUsers)
  <2>1. fresh \in SUBSET SegUsers /\ IsFiniteSet(fresh)
    BY <1>3, FS_Subset, SegmentAssumption DEF SegRequests
  <2>2. Cardinality(fresh) \in Nat
    BY <2>1, FS_CardinalityType
  <2>3. new \in [1..Cardinality(fresh) -> fresh]
    BY <1>1 DEF SetToSeqs
  <2> HIDE DEF fresh
  <2>4. new \in [1..Cardinality(fresh) -> SegUsers]
    BY <2>1, <2>3
  <2> QED BY <2>2, <2>4
<1> HIDE DEF call, fresh
<1>7. segMembers' \in Seq(SegUsers)
  BY <1>1, <1>6, ConcatProperties DEF SetMembers, SegmentTypeOK
<1>8. CountOrDoubt' /\ segCall' \in [SegCallers -> SegRequests]
  <2>1. segCall[c].op # "idle" /\ call.step \notin {"update", "drop"}
    BY <1>4, <1>5
  <2>2. (call.alone => segRow'.exists) /\ (~segRow'.exists => segRow'.count = 0)
    BY <1>2, <1>5 DEF CountOrDoubt
  <2> QED BY <1>2, <1>5, <2>1, <2>2, OneSegRequest
<1>9. MembersCounted'
  <2>1. segCall'[c].op = segCall[c].op /\ segCall[c].op = "import"
    BY <1>2, <1>4, <1>5 DEF SegmentTypeOK
  <2> QED BY <2>1 DEF MembersCounted
<1> QED BY <1>1, <1>2, <1>7, <1>8, <1>9, SetMembersKeepsWalk DEF SegmentTypeOK

LEMMA SegStepCount == ASSUME SegmentInv, NEW c \in SegCallers, SegCount(c) PROVE SegmentInv'
<1> USE DEF SegmentInv
<1> DEFINE call == [segCall[c] EXCEPT !.step = "update", !.count = Len(segMembers)]
<1>1. segCall[c].step = "count" /\ segCall' = [segCall EXCEPT ![c] = call]
      /\ UNCHANGED <<segRow, segMembers, segRefs, segDoubt, segWalk, segCalls>>
  BY DEF SegCount, CountedBy
<1>2. segCall[c] \in SegRequests /\ StepOfOp(segCall[c]) /\ Len(segMembers) \in Nat
  BY LenProperties DEF SegmentTypeOK, CountOrDoubt
<1>3. /\ call \in SegRequests /\ call.op = segCall[c].op /\ call.step = "update" /\ call.alone = segCall[c].alone
      /\ call.count = Len(segMembers) /\ call.op # "idle" /\ StepOfOp(call)
  BY <1>1, <1>2, SegIdleIs DEF SegRequests, StepOfOp
<1> HIDE DEF call
<1>4. CountOrDoubt' /\ segCall' \in [SegCallers -> SegRequests]
  <2>1. (call.alone => segRow'.exists) /\ (~segRow'.exists => segRow'.count = 0)
    BY <1>1, <1>3 DEF CountOrDoubt
  <2> QED BY <1>1, <1>3, <2>1, OneSegRequest
<1>5. MembersCounted'
  <2>1. \A d \in SegCallers : segCall'[d].op = segCall[d].op
    BY <1>1, <1>3 DEF SegmentTypeOK
  <2> QED BY <1>1, <2>1 DEF MembersCounted
<1> QED BY <1>1, <1>4, <1>5, WalkUntouched DEF SegmentTypeOK

(* A request ends: alone, with the count right; or the doubt stays.        *)
LEMMA SegStepEnd ==
  ASSUME SegmentInv, NEW c \in SegCallers,
         \/ SegUpdateCount(c) \/ SegDrop(c) \/ SegFails(c)
         \/ \E column \in {"segment_code", "exclude_segment_code"} : SegReferred(c, column)
  PROVE  SegmentInv'
<1> USE DEF SegmentInv
<1>1. /\ segCall[c].op # "idle" /\ segCall' = [segCall EXCEPT ![c] = SegIdle]
      /\ UNCHANGED <<segMembers, segWalk, segCalls>>
  BY SegIdleIs DEF SegUpdateCount, SegDrop, SegFails, SegReferred, SegEnd, CountOrDoubt, StepOfOp
<1>2. segCall[c] \in SegRequests /\ StepOfOp(segCall[c]) /\ Len(segMembers) \in Nat
      /\ segRow \in [exists : BOOLEAN, active : BOOLEAN, count : Nat] /\ (~segRow.exists => segRow.count = 0)
      /\ segDoubt \in BOOLEAN
  BY LenProperties DEF SegmentTypeOK, CountOrDoubt
<1>3. /\ segRow' \in [exists : BOOLEAN, active : BOOLEAN, count : Nat] /\ (~segRow'.exists => segRow'.count = 0)
      /\ segDoubt' \in BOOLEAN /\ (segDoubt => segDoubt' \/ segCall[c].alone)
  <2>1. CASE SegUpdateCount(c)
    BY <1>2, <2>1 DEF SegUpdateCount, SegEnd, SegRequests
  <2>2. CASE SegDrop(c)
    BY <1>2, <2>2 DEF SegDrop, SegEnd, SegRequests
  <2>3. CASE SegFails(c) \/ \E column \in {"segment_code", "exclude_segment_code"} : SegReferred(c, column)
    BY <1>2, <2>3 DEF SegFails, SegReferred, SegEnd
  <2> QED BY <2>1, <2>2, <2>3
<1>4. CountOrDoubt' /\ segCall' \in [SegCallers -> SegRequests]
  BY <1>1, <1>3, SegIdleIs, OneSegRequest
<1>5. MembersCounted'
  <2>1. CASE SegUpdateCount(c)
    <3>1. segCall[c].alone => segRow'.count = Len(segMembers)
      BY <1>2, <2>1 DEF SegUpdateCount, CountOrDoubt
    <3>2. ~segCall[c].alone => segDoubt'
      BY <1>1, <2>1 DEF SegUpdateCount, SegEnd, CountOrDoubt
    <3> QED BY <1>1, <3>1, <3>2 DEF MembersCounted
  <2>2. CASE SegDrop(c)
    <3>1. segRow'.count = 0 /\ (segCall[c].alone => Len(segMembers) = 0)
      BY <2>2, NoMembers DEF SegDrop, CountOrDoubt
    <3>2. ~segCall[c].alone => segDoubt'
      BY <1>1, <2>2 DEF SegDrop, SegEnd, CountOrDoubt
    <3> QED BY <1>1, <3>1, <3>2 DEF MembersCounted
  <2>3. CASE SegFails(c)
    BY <2>3 DEF SegFails, SegEnd, MembersCounted
  <2>4. CASE \E column \in {"segment_code", "exclude_segment_code"} : SegReferred(c, column)
    <3>1. segCall[c].op = "refer" /\ UNCHANGED <<segRow, segDoubt>>
      BY <1>2, <2>4 DEF SegReferred, SegEnd, StepOfOp
    <3>2. \A d \in SegCallers : segCall'[d] = IF d = c THEN SegIdle ELSE segCall[d]
      BY <1>1 DEF SegmentTypeOK
    <3> QED BY <1>1, <3>1, <3>2 DEF MembersCounted
  <2> QED BY <2>1, <2>2, <2>3, <2>4
<1> QED BY <1>1, <1>3, <1>4, <1>5, WalkUntouched DEF SegmentTypeOK

-----------------------------------------------------------------------------
LEMMA MinOfTwo ==
  ASSUME NEW a \in Nat, NEW b \in Nat
  PROVE  Min({a, b}) \in {a, b} /\ Min({a, b}) <= a /\ Min({a, b}) <= b
<1>1. \E x \in {a, b} : \A y \in {a, b} : x <= y
  <2>1. a <= b \/ b <= a
    OBVIOUS
  <2> QED BY <2>1
<1>2. Min({a, b}) \in {a, b} /\ \A y \in {a, b} : Min({a, b}) <= y
  BY <1>1 DEF Min
<1> QED BY <1>2

(* The rows of a page are the members that follow the offset.              *)
LEMMA PageRows ==
  ASSUME SegmentTypeOK, NEW offset \in Nat,
         NEW last, last = Min({offset + SegPageSize, Len(segMembers)}),
         NEW rows, rows = SubSeq(segMembers, offset + 1, last)
  PROVE  /\ rows \in Seq(SegUsers) /\ Len(rows) \in Nat
         /\ \A i \in 1..Len(segMembers) : i <= offset + Len(rows) => i <= offset \/ segMembers[i] \in ToSet(rows)
<1>1. Len(segMembers) \in Nat /\ offset + SegPageSize \in Nat /\ segMembers \in Seq(SegUsers)
  BY LenProperties, SegmentAssumption DEF SegmentTypeOK
<1>2. last \in Nat /\ last <= Len(segMembers)
  BY <1>1, MinOfTwo
<1>3. \A i \in (offset + 1)..last : segMembers[i] \in SegUsers
  <2>1. \A i \in (offset + 1)..last : i \in 1..Len(segMembers)
    BY <1>1, <1>2
  <2> QED BY <1>1, <2>1, ElementOfSeq
<1>4. /\ rows \in Seq(SegUsers) /\ Len(rows) = IF offset + 1 <= last THEN last - (offset + 1) + 1 ELSE 0
      /\ \A k \in 1..(last - (offset + 1) + 1) : rows[k] = segMembers[offset + 1 + k - 1]
  <2> DEFINE from == offset + 1
  <2>1. from \in Int /\ last \in Int
    BY <1>2
  <2>2. \A i \in from..last : segMembers[i] \in SegUsers
    BY <1>3
  <2>3. rows = SubSeq(segMembers, from, last)
    OBVIOUS
  <2> HIDE DEF from
  <2>4. /\ SubSeq(segMembers, from, last) \in Seq(SegUsers)
        /\ Len(SubSeq(segMembers, from, last)) = IF from <= last THEN last - from + 1 ELSE 0
        /\ \A k \in 1..(last - from + 1) : SubSeq(segMembers, from, last)[k] = segMembers[from + k - 1]
    <3>1. SubSeq(segMembers, from, last) \in Seq(SegUsers)
      BY <2>1, <2>2, SubSeqProperties, Zenon
    <3>3. Len(SubSeq(segMembers, from, last)) = IF from <= last THEN last - from + 1 ELSE 0
      BY <2>1, <2>2, SubSeqProperties
    <3>2. \A k \in 1..(last - from + 1) : SubSeq(segMembers, from, last)[k] = segMembers[from + k - 1]
      BY <2>1, <2>2, SubSeqProperties
    <3> QED BY <3>1, <3>2, <3>3, Zenon
  <2> QED BY <2>3, <2>4, Zenon DEF from
<1>5. Len(rows) \in Nat
  BY <1>4, LenProperties
<1>6. ASSUME NEW i \in 1..Len(segMembers), i <= offset + Len(rows), ~(i <= offset)
      PROVE  segMembers[i] \in ToSet(rows)
  <2> DEFINE k == i - offset
  <2>1. k \in 1..Len(rows) /\ k \in 1..(last - (offset + 1) + 1) /\ offset + 1 + k - 1 = i
    <3>1. \A l \in Nat, m \in 1..Len(segMembers) :
            /\ l = (IF offset + 1 <= last THEN last - (offset + 1) + 1 ELSE 0)
            /\ m <= offset + l /\ ~(m <= offset)
            => m - offset \in 1..l /\ m - offset \in 1..(last - (offset + 1) + 1) /\ offset + 1 + (m - offset) - 1 = m
      BY <1>1, <1>2
    <3> QED BY <1>4, <1>5, <1>6, <3>1, Zenon
  <2>2. rows[k] = segMembers[i]
    BY <1>4, <2>1
  <2>3. k \in DOMAIN rows
    BY <1>4, <2>1, LenProperties
  <2> QED BY <2>2, <2>3 DEF ToSet
<1> QED BY <1>4, <1>5, <1>6

LEMMA ElementsOfSeq == ASSUME NEW s \in Seq(SegUsers) PROVE ToSet(s) \in SUBSET SegUsers
<1>1. \A i \in DOMAIN s : s[i] \in SegUsers
  BY LenProperties, ElementOfSeq
<1> QED BY <1>1 DEF ToSet

(* A walk ends having found every member, or says that it was cut.         *)
LEMMA FinishedComplete ==
  ASSUME SegmentTypeOK, NEW walk \in SegWalks, NEW partial \in BOOLEAN,
         ~partial /\ ~walk.disturbed => \A i \in 1..Len(segMembers) : segMembers[i] \in walk.out
  PROVE  LET done == Finished(walk, partial) IN
         /\ done \in SegWalks /\ done.step = "done"
         /\ ~done.partial /\ ~done.disturbed => done.missed = {}
<1> DEFINE done == Finished(walk, partial)
<1>1. segMembers \in Seq(SegUsers) /\ DOMAIN segMembers = 1..Len(segMembers)
  BY LenProperties DEF SegmentTypeOK
<1>2. ToSet(segMembers) \in SUBSET SegUsers
  BY <1>1, ElementsOfSeq
<1>3. done \in SegWalks /\ done.step = "done" /\ done.partial = partial /\ done.disturbed = walk.disturbed
      /\ done.missed = ToSet(segMembers) \ walk.out
  BY <1>2 DEF Finished, NoWalk, SegWalks
<1>4. ~partial /\ ~walk.disturbed => ToSet(segMembers) \ walk.out = {}
  BY <1>1 DEF ToSet
<1> QED BY <1>3, <1>4

(* The steps of the walk.                                                  *)
LEMMA SegStepWalk ==
  ASSUME SegmentInv, SegWalkCount \/ SegWalkList \/ \E kind \in {"exclude", "count"} : SegWalkStart(kind)
  PROVE  SegmentInv'
<1> USE DEF SegmentInv
<1>1. UNCHANGED <<segRow, segMembers, segRefs, segCall, segDoubt, segCalls>>
  BY DEF SegWalkCount, SegWalkList, SegWalkStart
<1>2. segWalk \in SegWalks /\ segWalk.offset \in Nat /\ segWalk.pageNo \in Nat /\ Len(segMembers) \in Nat
      /\ segWalk.total \in Nat /\ segWalk.out \in SUBSET SegUsers /\ segMembers \in Seq(SegUsers)
  BY LenProperties DEF SegmentTypeOK, SegWalks
<1>3. segWalk' \in SegWalks /\ WalkFound' /\ ExcludeComplete'
  <2>1. CASE \E kind \in {"exclude", "count"} : SegWalkStart(kind)
    <3>1. PICK kind \in {"exclude", "count"} : segWalk' = [NoWalk EXCEPT !.step = "count", !.kind = kind]
      BY <2>1 DEF SegWalkStart
    <3>2. segWalk' \in SegWalks /\ segWalk'.step = "count" /\ segWalk'.offset = 0
      BY <3>1 DEF NoWalk, SegWalks
    <3>3. \A i \in 1..Len(segMembers) : ~(i <= 0)
      BY <1>2
    <3> QED BY <1>1, <3>2, <3>3 DEF WalkFound, ExcludeComplete
  <2>2. CASE SegWalkCount
    <3>1. segWalk.step = "count"
      BY <2>2 DEF SegWalkCount
    <3>2. CASE segWalk' = Finished(segWalk, TRUE)
      <4>1. /\ segWalk' \in SegWalks /\ segWalk'.step = "done"
            /\ ~segWalk'.partial /\ ~segWalk'.disturbed => segWalk'.missed = {}
        BY <1>2, <3>2, FinishedComplete
      <4> QED BY <4>1 DEF WalkFound, ExcludeComplete
    <3>3. CASE segWalk' = Finished(segWalk, FALSE) /\ segWalk.offset >= Len(segMembers)
      <4>1. ~segWalk.disturbed => \A i \in 1..Len(segMembers) : segMembers[i] \in segWalk.out
        BY <1>2, <3>1, <3>3 DEF WalkFound
      <4>2. /\ segWalk' \in SegWalks /\ segWalk'.step = "done"
            /\ ~segWalk'.partial /\ ~segWalk'.disturbed => segWalk'.missed = {}
        BY <1>2, <3>3, <4>1, FinishedComplete
      <4> QED BY <4>2 DEF WalkFound, ExcludeComplete
    <3>4. CASE segWalk' = [segWalk EXCEPT !.step = "list", !.total = Len(segMembers)]
      <4>1. /\ segWalk' \in SegWalks /\ segWalk'.step = "list" /\ segWalk'.total = Len(segMembers)
            /\ segWalk'.offset = segWalk.offset /\ segWalk'.out = segWalk.out
            /\ segWalk'.disturbed = segWalk.disturbed
        BY <1>2, <3>4 DEF SegWalks
      <4> QED BY <1>1, <3>1, <4>1 DEF WalkFound, ExcludeComplete
    <3> QED BY <2>2, <3>2, <3>3, <3>4 DEF SegWalkCount, TooManyPages
  <2>3. CASE SegWalkList
    <3> DEFINE last == Min({segWalk.offset + SegPageSize, Len(segMembers)})
               rows == SubSeq(segMembers, segWalk.offset + 1, last)
               next == [segWalk EXCEPT !.step = "count", !.pageNo = @ + 1,
                          !.offset = @ + Len(rows), !.out = @ \cup ToSet(rows)]
    <3>1. /\ rows \in Seq(SegUsers) /\ Len(rows) \in Nat
          /\ \A i \in 1..Len(segMembers) :
               i <= segWalk.offset + Len(rows) => i <= segWalk.offset \/ segMembers[i] \in ToSet(rows)
      BY <1>2, PageRows
    <3>2. segWalk.step = "list" /\ segWalk' \in {Finished(next, TRUE), Finished(next, FALSE), next}
          /\ (segWalk' = Finished(next, FALSE) => next.offset >= segWalk.total \/ segWalk' \in {Finished(next, TRUE), next})
      BY <2>3 DEF SegWalkList
    <3> HIDE DEF rows, last
    <3>3. ToSet(rows) \in SUBSET SegUsers
      BY <3>1, ElementsOfSeq
    <3>4. /\ next \in SegWalks /\ next.step = "count" /\ next.offset = segWalk.offset + Len(rows)
          /\ next.out = segWalk.out \cup ToSet(rows) /\ next.disturbed = segWalk.disturbed
      <4> DEFINE to == segWalk.offset + Len(rows)
                 page == segWalk.pageNo + 1
                 found == segWalk.out \cup ToSet(rows)
      <4>1. to \in Nat /\ page \in Nat /\ found \in SUBSET SegUsers
        BY <1>2, <3>1, <3>3
      <4>2. next = [segWalk EXCEPT !.step = "count", !.pageNo = page, !.offset = to, !.out = found]
        OBVIOUS
      <4> HIDE DEF to, page, found
      <4>3. /\ next \in SegWalks /\ next.step = "count" /\ next.offset = to /\ next.out = found
            /\ next.disturbed = segWalk.disturbed
        BY <1>2, <4>1, <4>2 DEF SegWalks
      <4> QED BY <4>3 DEF to, found
    <3> HIDE DEF next
    <3>5. ~next.disturbed => \A i \in 1..Len(segMembers) : i <= next.offset => segMembers[i] \in next.out
      BY <3>1, <3>2, <3>4 DEF WalkFound
    <3>6. CASE segWalk' = next
      BY <1>1, <3>4, <3>5, <3>6 DEF WalkFound, ExcludeComplete
    <3>7. CASE segWalk' = Finished(next, TRUE)
      <4>1. /\ segWalk' \in SegWalks /\ segWalk'.step = "done"
            /\ ~segWalk'.partial /\ ~segWalk'.disturbed => segWalk'.missed = {}
        BY <3>4, <3>7, FinishedComplete
      <4> QED BY <4>1 DEF WalkFound, ExcludeComplete
    <3>8. CASE segWalk' = Finished(next, FALSE) /\ next.offset >= segWalk.total
      <4>1. ~next.disturbed => segWalk.total = Len(segMembers)
        BY <3>2, <3>4 DEF WalkFound
      <4>2. next.offset \in Nat
        BY <1>2, <3>1, <3>4
      <4>3. ~next.disturbed => \A i \in 1..Len(segMembers) : segMembers[i] \in next.out
        BY <1>2, <3>5, <3>8, <4>1, <4>2
      <4>4. /\ segWalk' \in SegWalks /\ segWalk'.step = "done"
            /\ ~segWalk'.partial /\ ~segWalk'.disturbed => segWalk'.missed = {}
        BY <3>4, <3>8, <4>3, FinishedComplete
      <4> QED BY <4>4 DEF WalkFound, ExcludeComplete
    <3> QED BY <3>2, <3>6, <3>7, <3>8
  <2> QED BY <2>1, <2>2, <2>3
<1> QED BY <1>1, <1>3, CountUntouched DEF SegmentTypeOK

LEMMA SegmentStep == SegmentInv /\ [SegmentNext]_segmentVars => SegmentInv'
<1> SUFFICES ASSUME SegmentInv, [SegmentNext]_segmentVars PROVE SegmentInv'
  OBVIOUS
<1>1. CASE UNCHANGED segmentVars
  <2>1. UNCHANGED <<segRow, segMembers, segCall, segDoubt, segWalk>>
    BY <1>1 DEF segmentVars
  <2> QED BY <2>1, CountUntouched, WalkUntouched DEF SegmentInv, SegmentTypeOK
<1> QED BY <1>1, SegStepRow, SegStepBegin, SegStepWipe, SegStepUpsert, SegStepCount, SegStepEnd, SegStepWalk
     DEF SegmentNext

(* Import, refresh, clear and delete of a segment leave the number of its  *)
(* row equal to its members whenever nothing overlapped or failed half-way. *)
THEOREM CountIsMembers == SegmentSpec => []MembersCounted
BY SegmentInitInv, SegmentStep, PTL DEF SegmentSpec, SegmentInv

(* An exclusion resolved page by page leaves nobody out unless it says that *)
(* it is partial, as long as the members do not change under the walk.      *)
THEOREM ExpansionIsComplete == SegmentSpec => []ExcludeComplete
BY SegmentInitInv, SegmentStep, PTL DEF SegmentSpec, SegmentInv
=============================================================================
