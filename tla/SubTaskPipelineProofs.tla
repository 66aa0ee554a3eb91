----------------------- MODULE SubTaskPipelineProofs -----------------------
(***************************************************************************)
(* Proofs about SubTaskPipeline for any finite set of shards, any workers  *)
(* and reapers, any disturbances and any bounds: typing; the counting      *)
(* argument (CountInv is inductive, so sub_task_done never over-counts and *)
(* a campaign is closed only when every shard has its result); with it,    *)
(* the pipeline implements CampaignLifecycle; results, webhooks.           *)
(***************************************************************************)
EXTENDS SubTaskPipeline, FiniteSetTheorems, TLAPS

-----------------------------------------------------------------------------
(* Typing.  The parts of TypeOK are kept by a step that leaves their variables *)
(* alone; three lemmas say what the moves of a thread keep.                    *)

LEMMA MainStutter == MainTypeOK /\ UNCHANGED mainVars => MainTypeOK'
BY DEF MainTypeOK, mainVars

LEMMA SubStutter == SubTypeOK /\ UNCHANGED subVars => SubTypeOK'
BY DEF SubTypeOK, subVars

LEMMA RedisStutter == RedisTypeOK /\ UNCHANGED redisVars => RedisTypeOK'
BY DEF RedisTypeOK, redisVars

LEMMA ThreadStutter == ThreadTypeOK /\ UNCHANGED threadVars => ThreadTypeOK'
BY DEF ThreadTypeOK, threadVars

LEMMA NoRowTyped == NoRow \in MainRows
BY DEF NoRow, MainRows, MainStatus, Counts

LEMMA MainRowTyped == MainTypeOK => MainRow \in MainRows
BY DEF MainTypeOK, MainRow, MainRows

LEMMA GotoTyped ==
  ASSUME ThreadTypeOK, NEW t \in Threads, NEW l \in Pcs, Goto(t, l),
         t \in Workers => held[t] \in Subs,
         l \in CasPcs => verdict[t] \in Verdicts,
         t \in Reapers => l \notin WorkerPcs \cup AggPcs
  PROVE  ThreadTypeOK'
BY DEF ThreadTypeOK, Goto, Threads

LEMMA ReturnTyped ==
  ASSUME ThreadTypeOK, NEW t \in Threads, Return(t)
  PROVE  ThreadTypeOK'
BY NoRowTyped DEF ThreadTypeOK, Return, Threads, Pcs, CasPcs, WorkerPcs, AggPcs

LEMMA AggErrorTyped ==
  ASSUME ThreadTypeOK, NEW t \in Threads, AggError(t), pc[t] # "idle"
  PROVE  ThreadTypeOK'
<1>1. CASE outcome[t] \in {"success", "expired"}
  <2>1. t \notin Reapers
    BY <1>1 DEF ThreadTypeOK
  <2> QED
    BY <1>1, <2>1, NoRowTyped DEF ThreadTypeOK, AggError, Threads, Pcs, CasPcs, WorkerPcs
<1>2. CASE outcome[t] \notin {"success", "expired"}
  BY <1>2, ReturnTyped DEF AggError
<1> QED BY <1>1, <1>2

LEMMA InitTyped == ASSUME NEW rows \in SUBSET Subs, InitRows(rows) PROVE TypeOK
<1> USE DEF InitRows
<1>1. MainTypeOK
  <2>1. Cardinality(rows) \in Nat
    BY SubsAssumption, FS_Subset, FS_CardinalityType
  <2>2. userCounts \in Counts
    BY DEF Counts
  <2>3. mainStatus \in MainStatus
    BY DEF MainStatus
  <2>4. subTaskTotal \in Nat
    BY <2>1
  <2> QED BY <2>2, <2>3, <2>4 DEF MainTypeOK
<1>2. SubTypeOK
  BY DEF SubTypeOK, SubStatus
<1>3. RedisTypeOK
  BY DEF RedisTypeOK
<1>4. ThreadTypeOK
  BY NoRowTyped DEF ThreadTypeOK, Threads, Pcs, CasPcs, WorkerPcs, AggPcs
<1>5. OtherTypeOK
  BY DEF OtherTypeOK
<1> QED BY <1>1, <1>2, <1>3, <1>4, <1>5 DEF TypeOK

LEMMA WorkerTyped ==
  ASSUME TypeOK, NEW w \in Workers, WorkerStep(w)
  PROVE  TypeOK'
<1> USE DEF TypeOK, OtherTypeOK, apiVars, boundVars, ghostVars
<1>w. w \in Threads /\ (pc[w] # "idle" => held[w] \in Subs)
  BY DEF Threads, ThreadTypeOK
<1>r. w \notin Reapers
  BY WorkersAssumption
<1>1. ASSUME NEW s \in Subs, ClaimSubTask(w, s) PROVE TypeOK'
  <2>1. SubTypeOK'
    BY <1>1 DEF ClaimSubTask, SubTypeOK, SubStatus
  <2>2. ThreadTypeOK'
    BY <1>1, <1>w, <1>r DEF ClaimSubTask, ThreadTypeOK, Pcs, WorkerPcs, CasPcs
  <2> QED BY <1>1, <2>1, <2>2, MainStutter, RedisStutter DEF ClaimSubTask
<1>2. CASE Gate(w)
  <2>1. ThreadTypeOK'
    <3>1. PICK l \in {"cancelSub", "release", "expired", "gate2", "publish"} : Goto(w, l)
      BY <1>2 DEF Gate
    <3> QED BY <3>1, <1>2, <1>w, <1>r, GotoTyped DEF Gate, Pcs, WorkerPcs, CasPcs
  <2> QED BY <1>2, <2>1, MainStutter, SubStutter, RedisStutter DEF Gate
<1>3. CASE CancelSub(w)
  <2>1. SubTypeOK'
    BY <1>3, <1>w DEF CancelSub, WriteResult, SubTypeOK, SubStatus
  <2> QED BY <1>3, <1>w, <2>1, ReturnTyped, MainStutter, RedisStutter DEF CancelSub
<1>4. CASE ReleaseSubTask(w)
  <2>1. SubTypeOK'
    BY <1>4, <1>w DEF ReleaseSubTask, SubTypeOK, SubStatus, subVars
  <2> QED BY <1>4, <1>w, <2>1, ReturnTyped, MainStutter, RedisStutter DEF ReleaseSubTask
<1>5. CASE Publish(w)
  <2>1. ThreadTypeOK'
    BY <1>5, <1>w, <1>r, GotoTyped DEF Publish, Pcs, WorkerPcs, CasPcs
  <2> QED BY <1>5, <1>w, <2>1, MainStutter, SubStutter, RedisStutter DEF Publish
<1>6. CASE PublishFails(w)
  <2>1. ThreadTypeOK'
    BY <1>6, <1>w, <1>r, GotoTyped DEF PublishFails, Pcs, WorkerPcs, CasPcs
  <2> QED BY <1>6, <2>1, MainStutter, SubStutter, RedisStutter DEF PublishFails
<1>7. CASE RenewClaim(w)
  <2>1. ThreadTypeOK'
    BY <1>7, <1>w, ReturnTyped, ThreadStutter DEF RenewClaim
  <2>2. SubTypeOK'
    BY <1>7, <1>w DEF RenewClaim, SubTypeOK
  <2> QED BY <1>7, <2>1, <2>2, MainStutter, RedisStutter DEF RenewClaim
<1>8. ASSUME NEW status \in {"success", "failed"}, NEW result \in {"success", "failed", "expired"},
             Settle(w, status, result), pc[w] # "idle"
      PROVE TypeOK'
  <2>1. SubTypeOK'
    BY <1>8, <1>w DEF Settle, WriteResult, SubTypeOK, SubStatus
  <2>2. ThreadTypeOK'
    <3>1. CASE Owns(w)
      BY <1>8, <1>w, <1>r, <3>1 DEF Settle, Threads, ThreadTypeOK, Pcs, AggPcs, CasPcs
    <3>2. CASE ~Owns(w)
      BY <1>8, <1>w, <3>2, ReturnTyped DEF Settle
    <3> QED BY <3>1, <3>2
  <2> QED BY <1>8, <2>1, <2>2, MainStutter, RedisStutter DEF Settle
<1>9. CASE WriteSuccess(w) \/ WriteFailure(w) \/ FinishExpired(w)
  BY <1>8, <1>9 DEF WriteSuccess, WriteFailure, FinishExpired
<1>10. CASE AggRead(w)
  <2>1. ThreadTypeOK'
    BY <1>10, <1>w, <1>r, MainRowTyped DEF AggRead, ThreadTypeOK, Pcs, AggPcs, CasPcs
  <2> QED BY <1>10, <2>1, MainStutter, SubStutter, RedisStutter DEF AggRead
<1>11. CASE AggMark(w)
  <2>1. ThreadTypeOK'
    BY <1>11, <1>w, <1>r, GotoTyped, ReturnTyped DEF AggMark, Pcs, AggPcs, CasPcs
  <2>2. RedisTypeOK'
    BY <1>11, <1>w DEF AggMark, RedisTypeOK
  <2> QED BY <1>11, <2>1, <2>2, MainStutter, SubStutter DEF AggMark
<1>12. CASE AggCount(w)
  <2>1. ThreadTypeOK'
    BY <1>12, <1>w, <1>r, GotoTyped DEF AggCount, Pcs, AggPcs, CasPcs
  <2>2. MainTypeOK'
    BY <1>12 DEF AggCount, MainTypeOK
  <2> QED BY <1>12, <1>w, <2>1, <2>2, SubStutter, RedisStutter DEF AggCount
<1>13. CASE AggRedis(w)
  <2>1. ThreadTypeOK'
    <3>1. PICK d \in Nat : AggDone(w, d)
      BY <1>13, <1>w DEF AggRedis, ThreadTypeOK, RedisTypeOK, MainRows
    <3>2. CASE snap[w].status = "paused"
      BY <3>1, <3>2, <1>w, ReturnTyped DEF AggDone
    <3>3. CASE snap[w].status # "paused"
      BY <1>13, <3>1, <3>3, <1>w, <1>r DEF AggDone, AggRedis, Threads, ThreadTypeOK, MainRows, Pcs, AggPcs, CasPcs
    <3> QED BY <3>2, <3>3
  <2>2. RedisTypeOK'
    BY <1>13 DEF AggRedis, RedisTypeOK
  <2> QED BY <1>13, <1>w, <2>1, <2>2, MainStutter, SubStutter DEF AggRedis
<1> QED
  BY <1>1, <1>2, <1>3, <1>4, <1>5, <1>6, <1>7, <1>9, <1>10, <1>11, <1>12, <1>13 DEF WorkerStep

LEMMA ErrorTyped ==
  ASSUME TypeOK, NEW w \in Workers, ErrorStep(w)
  PROVE  TypeOK'
<1> USE DEF TypeOK, OtherTypeOK, apiVars, ghostVars, Fault
<1>w. w \in Threads /\ (pc[w] # "idle" => held[w] \in Subs)
  BY DEF Threads, ThreadTypeOK
<1>r. w \notin Reapers
  BY WorkersAssumption
<1>1. CASE ClaimLoopDbError(w)
  <2>1. ThreadTypeOK'
    <3>1. CASE Goto(w, "fail") /\ pc[w] # "idle"
      BY <3>1, <1>w, <1>r, GotoTyped DEF Pcs, WorkerPcs, CasPcs
    <3> QED BY <1>1, <3>1, <1>w, ReturnTyped DEF ClaimLoopDbError
  <2> QED BY <1>1, <2>1, MainStutter, SubStutter, RedisStutter DEF ClaimLoopDbError
<1>2. CASE AggDbError(w)
  <2>1. ThreadTypeOK'
    BY <1>2, <1>w, AggErrorTyped DEF AggDbError
  <2>2. RedisTypeOK'
    BY <1>2 DEF AggDbError, RedisTypeOK
  <2> QED BY <1>2, <2>1, <2>2, MainStutter, SubStutter DEF AggDbError
<1>3. CASE AggRedisError(w)
  <2>1. CASE pc[w] = "aggMark" /\ AggError(w)
    BY <2>1, <1>3, <1>w, AggErrorTyped, MainStutter, SubStutter, RedisStutter DEF AggRedisError
  <2>2. CASE pc[w] = "aggRedis" /\ AggDone(w, snap[w].done + 1)
    <3>1. ThreadTypeOK'
      <4>1. CASE snap[w].status = "paused"
        BY <2>2, <4>1, <1>w, ReturnTyped DEF AggDone
      <4>2. CASE snap[w].status # "paused"
        BY <2>2, <4>2, <1>w, <1>r DEF AggDone, Threads, ThreadTypeOK, MainRows, Pcs, AggPcs, CasPcs
      <4> QED BY <4>1, <4>2
    <3> QED BY <3>1, <1>3, MainStutter, SubStutter, RedisStutter DEF AggRedisError
  <2> QED BY <2>1, <2>2, <1>3 DEF AggRedisError
<1> QED BY <1>1, <1>2, <1>3 DEF ErrorStep

LEMMA FinalizeTyped ==
  ASSUME TypeOK, NEW t \in Threads, FinalizeStep(t) \/ FinError(t) \/ Crash(t)
  PROVE  TypeOK'
<1> USE DEF TypeOK, OtherTypeOK, apiVars, boundVars, ghostVars, Fault
<1>h. pc[t] # "idle" /\ t \in Workers => held[t] \in Subs
  BY DEF ThreadTypeOK
<1>1. CASE FinRead(t)
  <2>1. CASE Return(t)
    BY <1>1, <2>1, ReturnTyped, MainStutter, SubStutter, RedisStutter DEF FinRead
  <2>2. CASE ~Return(t)
    <3>1. \A m, n : Verdict(m, n) \in Verdicts
      BY DEF Verdict, Verdicts
    <3>2. ThreadTypeOK'
      BY <1>1, <2>2, <3>1, <1>h DEF FinRead, ThreadTypeOK, Threads, Pcs, CasPcs, WorkerPcs, AggPcs
    <3> QED BY <1>1, <3>2, MainStutter, SubStutter, RedisStutter DEF FinRead
  <2> QED BY <2>1, <2>2
<1>2. CASE Cas(t)
  <2>v. pc[t] \in CasPcs /\ verdict[t] \in Verdicts /\ snap[t].version \in Nat
    BY <1>2 DEF Cas, CasPcs, ThreadTypeOK, MainRows
  <2>1. CASE CasMatches(t)
    <3>1. ThreadTypeOK'
      BY <1>2, <2>1, <1>h, GotoTyped DEF Cas, Pcs, CasPcs, WorkerPcs, AggPcs
    <3>2. MainTypeOK'
      BY <1>2, <2>1, <2>v DEF Cas, MainTypeOK, MainStatus, Terminal
    <3> QED BY <1>2, <3>1, <3>2, SubStutter, RedisStutter DEF Cas
  <2>2. CASE ~CasMatches(t)
    <3>1. ThreadTypeOK'
      BY <1>2, <2>2, <2>v, <1>h, GotoTyped, ReturnTyped DEF Cas, Pcs, CasPcs, WorkerPcs, AggPcs
    <3>2. MainTypeOK'
      BY <1>2, <2>2 DEF Cas, MainTypeOK
    <3> QED BY <1>2, <3>1, <3>2, SubStutter, RedisStutter DEF Cas
  <2> QED BY <2>1, <2>2
<1>3. CASE Reget(t)
  <2>1. ThreadTypeOK'
    <3>1. CASE mainStatus \in Terminal \cup {"paused"}
      BY <1>3, <3>1, ReturnTyped DEF Reget
    <3>2. CASE mainStatus \notin Terminal \cup {"paused"}
      BY <1>3, <3>2, <1>h, MainRowTyped DEF Reget, ThreadTypeOK, Threads, Pcs, CasPcs, WorkerPcs, AggPcs
    <3> QED BY <3>1, <3>2
  <2> QED BY <1>3, <2>1, MainStutter, SubStutter, RedisStutter DEF Reget
<1>4. CASE Notify(t)
  BY <1>4, ReturnTyped, MainStutter, SubStutter, RedisStutter DEF Notify
<1>5. CASE FinError(t)
  BY <1>5, AggErrorTyped, MainStutter, SubStutter, RedisStutter DEF FinError, CasPcs
<1>6. CASE Crash(t)
  BY <1>6, ReturnTyped, MainStutter, SubStutter, RedisStutter DEF Crash
<1> QED BY <1>1, <1>2, <1>3, <1>4, <1>5, <1>6 DEF FinalizeStep

LEMMA ReaperTyped ==
  ASSUME TypeOK, NEW r \in Reapers, ReaperStep(r)
  PROVE  TypeOK'
<1> USE DEF TypeOK, OtherTypeOK, apiVars, boundVars, ghostVars
<1>r. r \in Threads /\ r \notin Workers
  BY WorkersAssumption DEF Threads
<1>1. CASE ReapList(r)
  <2>1. ThreadTypeOK'
    BY <1>1, <1>r, GotoTyped DEF ReapList, Pcs, CasPcs, WorkerPcs, AggPcs
  <2> QED BY <1>1, <2>1, MainStutter, SubStutter, RedisStutter DEF ReapList
<1>2. CASE ReapGet(r)
  <2>1. ThreadTypeOK'
    <3>1. CASE mainStatus # "running"
      BY <1>2, <3>1, <1>r, ReturnTyped DEF ReapGet
    <3>2. CASE mainStatus = "running"
      BY <1>2, <3>2, <1>r, MainRowTyped DEF ReapGet, ThreadTypeOK, Threads, Pcs, CasPcs, WorkerPcs, AggPcs
    <3> QED BY <3>1, <3>2
  <2> QED BY <1>2, <2>1, MainStutter, SubStutter, RedisStutter DEF ReapGet
<1> QED BY <1>1, <1>2 DEF ReaperStep

LEMMA ApiTyped ==
  ASSUME TypeOK, ApiStep
  PROVE  TypeOK'
<1> USE DEF TypeOK, OtherTypeOK, apiVars, boundVars, ghostVars, Fault
<1>1. CASE Pause
  BY <1>1, SubStutter, RedisStutter, ThreadStutter DEF Pause, MainTypeOK, MainStatus
<1>2. CASE Resume
  BY <1>2, SubStutter, RedisStutter, ThreadStutter DEF Resume, MainTypeOK, MainStatus
<1>3. CASE CancelMain
  BY <1>3, SubStutter, RedisStutter, ThreadStutter DEF CancelMain, MainTypeOK, MainStatus, Terminal
<1>4. CASE CancelSubs
  <2>1. SubTypeOK'
    BY <1>4 DEF CancelSubs, SubTypeOK, SubStatus
  <2> QED BY <1>4, <2>1, MainStutter, RedisStutter, ThreadStutter DEF CancelSubs
<1>5. CASE CancelStops
  BY <1>5, MainStutter, SubStutter, RedisStutter, ThreadStutter DEF CancelStops
<1> QED BY <1>1, <1>2, <1>3, <1>4, <1>5 DEF ApiStep

LEMMA EnvTyped ==
  ASSUME TypeOK, EnvStep
  PROVE  TypeOK'
<1> USE DEF TypeOK, OtherTypeOK, apiVars, boundVars, ghostVars, Fault
<1>1. ASSUME NEW s \in Subs, ClaimTimeout(s) PROVE TypeOK'
  <2>1. SubTypeOK'
    BY <1>1 DEF ClaimTimeout, SubTypeOK
  <2>2. slow' \in Nat
    BY <1>1 DEF ClaimTimeout
  <2> QED BY <1>1, <2>1, <2>2, MainStutter, RedisStutter, ThreadStutter DEF ClaimTimeout
<1>2. CASE CampaignExpires
  BY <1>2, SubStutter, RedisStutter, ThreadStutter DEF CampaignExpires, MainTypeOK
<1>3. CASE SyncUserCounts
  BY <1>3, SubStutter, RedisStutter, ThreadStutter DEF SyncUserCounts, MainTypeOK
<1>4. CASE RedisLoss
  <2>1. RedisTypeOK'
    BY <1>4 DEF RedisLoss, RedisTypeOK
  <2> QED BY <1>4, <2>1, MainStutter, SubStutter, ThreadStutter DEF RedisLoss
<1> QED BY <1>1, <1>2, <1>3, <1>4 DEF EnvStep

LEMMA StutterTyped == TypeOK /\ UNCHANGED vars => TypeOK'
BY MainStutter, SubStutter, RedisStutter, ThreadStutter
   DEF TypeOK, OtherTypeOK, vars, apiVars, boundVars, ghostVars

LEMMA NextTyped == TypeOK /\ [Next]_vars => TypeOK'
BY WorkerTyped, ErrorTyped, ReaperTyped, FinalizeTyped, ApiTyped, EnvTyped, StutterTyped DEF Next

(* Every variable keeps its type; no thread is past its claim without a shard *)
(* in hand and none writes a verdict it has not computed.                     *)
THEOREM Typing == Spec => []TypeOK
<1>1. Init => TypeOK
  BY InitTyped DEF Init
<1> QED BY <1>1, NextTyped, PTL DEF Spec

-----------------------------------------------------------------------------
(* Counting.                                                                 *)

(* Threads move only to places where nothing is claimed about the counts. *)
Elsewhere ==
  \A t \in Threads :
    \/ pc'[t] = pc[t] /\ held'[t] = held[t] /\ snap'[t] = snap[t]
    \/ pc'[t] \notin AggPcs \cup CasPcs \cup {"finRead"}

(* A step that counts nothing and undoes no result *)
Quiet ==
  /\ UNCHANGED <<counted, cached, subTaskDone, subTaskTotal>>
  /\ redisDone' <= redisDone
  /\ Finished \subseteq Finished'
  /\ Rows' = Rows
  /\ mainStatus' \in Verdicts => mainStatus \in Verdicts
  /\ Elsewhere

(* No step of the pipeline inserts or deletes a row. *)
LEMMA RowsStay == TypeOK /\ [Next]_vars => Rows' = Rows
<1> SUFFICES ASSUME TypeOK, [Next]_vars PROVE Rows' = Rows
  OBVIOUS
<1>w. subStatus \in [Subs -> SubStatus] /\ \A w \in Workers : pc[w] # "idle" => held[w] \in Subs
  BY DEF TypeOK, SubTypeOK, ThreadTypeOK
<1> USE DEF mainVars, subVars, Rows
<1>1. ASSUME NEW w \in Workers, NEW s \in Subs, ClaimSubTask(w, s) PROVE Rows' = Rows
  BY <1>1, <1>w DEF ClaimSubTask, Claimable
<1>2. ASSUME NEW w \in Workers, CancelSub(w) \/ ReleaseSubTask(w) PROVE Rows' = Rows
  BY <1>2, <1>w DEF CancelSub, ReleaseSubTask, WriteResult, Owns
<1>3. ASSUME NEW w \in Workers, WriteSuccess(w) \/ WriteFailure(w) \/ FinishExpired(w) PROVE Rows' = Rows
  BY <1>3, <1>w DEF WriteSuccess, WriteFailure, FinishExpired, Settle, WriteResult, Owns
<1>4. ASSUME NEW w \in Workers, \/ Gate(w) \/ Publish(w) \/ PublishFails(w) \/ RenewClaim(w) \/ AggRead(w)
                              \/ AggMark(w) \/ AggCount(w) \/ AggRedis(w) \/ ErrorStep(w)
      PROVE  Rows' = Rows
  BY <1>4 DEF Gate, Publish, PublishFails, RenewClaim, AggRead, AggMark, AggCount, AggRedis, ErrorStep,
     ClaimLoopDbError, AggDbError, AggRedisError
<1>5. ASSUME NEW r \in Reapers, ReaperStep(r) PROVE Rows' = Rows
  BY <1>5 DEF ReaperStep, ReapList, ReapGet
<1>6. ASSUME NEW t \in Threads, FinalizeStep(t) \/ FinError(t) \/ Crash(t) PROVE Rows' = Rows
  BY <1>6 DEF FinalizeStep, FinRead, Cas, Reget, Notify, FinError, Crash
<1>7. CASE ApiStep
  BY <1>7, <1>w DEF ApiStep, Pause, Resume, CancelMain, CancelSubs, CancelStops, Cancellable
<1>8. CASE EnvStep \/ UNCHANGED vars
  BY <1>8 DEF EnvStep, ClaimTimeout, CampaignExpires, SyncUserCounts, RedisLoss, vars
<1> QED BY <1>1, <1>2, <1>3, <1>4, <1>5, <1>6, <1>7, <1>8 DEF Next, WorkerStep

LEMMA FiniteCounts ==
  ASSUME TypeOK
  PROVE  /\ IsFiniteSet(counted) /\ Cardinality(counted) \in Nat
         /\ IsFiniteSet(cached) /\ Cardinality(cached) \in Nat
         /\ IsFiniteSet(Rows) /\ Cardinality(Rows) \in Nat
<1>1. Rows \subseteq Subs /\ counted \subseteq Subs /\ cached \subseteq Subs
  BY DEF Rows, TypeOK, OtherTypeOK
<1> QED BY <1>1, SubsAssumption, FS_Subset, FS_CardinalityType

LEMMA QuietKeeps ==
  ASSUME TypeOK, TypeOK', CountInv, Quiet
  PROVE  CountInv'
<1> USE DEF CountInv, Quiet, Elsewhere
<1>1. Counting'
  BY FiniteCounts DEF Counting, TypeOK, RedisTypeOK
<1>2. Tickets'
  BY DEF Tickets, Threads, AggPcs
<1>3. Snapshots'
  BY DEF Snapshots, AggPcs
<1>4. Closing'
  BY DEF Closing
<1> QED BY <1>1, <1>2, <1>3, <1>4

(* What the moves of one thread leave of the other threads' locals *)
LEMMA MoveQuiet ==
  ASSUME TypeOK, NEW t \in Threads,
         \/ Return(t)
         \/ AggError(t)
         \/ \E l \in Pcs \ (AggPcs \cup CasPcs \cup {"finRead"}) : Goto(t, l)
  PROVE  Elsewhere
BY DEF Elsewhere, Return, AggError, Goto, TypeOK, ThreadTypeOK, AggPcs, CasPcs

LEMMA InitCount == ASSUME NEW rows \in SUBSET Subs, InitRows(rows) PROVE CountInv
<1> USE DEF InitRows
<1>1. Counting
  <2>1. Rows = rows
    BY DEF Rows
  <2> QED BY <2>1, FS_EmptySet DEF Counting
<1>2. Tickets /\ Snapshots
  BY DEF Tickets, Snapshots, Threads, AggPcs
<1>3. Closing
  BY DEF Closing, CasPcs, Verdicts
<1> QED BY <1>1, <1>2, <1>3 DEF CountInv

(* The rows a step of the claim loop may write *)
LEMMA ClaimLoopCounts ==
  ASSUME TypeOK, TypeOK', CountInv, Rows' = Rows, NEW w \in Workers,
         \/ \E s \in Subs : ClaimSubTask(w, s)
         \/ Gate(w) \/ CancelSub(w) \/ ReleaseSubTask(w)
         \/ Publish(w) \/ PublishFails(w) \/ RenewClaim(w)
  PROVE  CountInv'
<1>w. w \in Threads /\ subStatus \in [Subs -> SubStatus] /\ redisDone \in Nat
  BY DEF Threads, TypeOK, SubTypeOK, RedisTypeOK
<1>1. ASSUME NEW s \in Subs, ClaimSubTask(w, s) PROVE Quiet
  BY <1>1, <1>w DEF ClaimSubTask, Claimable, Quiet, Elsewhere, Finished, TypeOK, ThreadTypeOK, mainVars,
     redisVars, ghostVars, AggPcs, CasPcs
<1>2. ASSUME Gate(w) PROVE Quiet
  <2>1. \E l \in Pcs \ (AggPcs \cup CasPcs \cup {"finRead"}) : Goto(w, l)
    BY <1>2 DEF Gate, Pcs, WorkerPcs, AggPcs, CasPcs
  <2>2. Elsewhere
    BY <1>w, <2>1, MoveQuiet
  <2> QED BY <1>2, <1>w, <2>2 DEF Gate, Quiet, Finished, mainVars, subVars, redisVars, ghostVars
<1>3. ASSUME CancelSub(w) PROVE Quiet
  <2>1. Elsewhere
    BY <1>3, <1>w, MoveQuiet DEF CancelSub
  <2> QED BY <1>3, <1>w, <2>1 DEF CancelSub, WriteResult, Owns, Quiet, Finished, mainVars, redisVars, ghostVars
<1>4. ASSUME ReleaseSubTask(w) PROVE Quiet
  <2>1. Elsewhere
    BY <1>4, <1>w, MoveQuiet DEF ReleaseSubTask
  <2> QED BY <1>4, <1>w, <2>1 DEF ReleaseSubTask, Quiet, Finished, mainVars, subVars, redisVars, ghostVars
<1>5. ASSUME Publish(w) \/ PublishFails(w) PROVE Quiet
  <2>1. \E l \in Pcs \ (AggPcs \cup CasPcs \cup {"finRead"}) : Goto(w, l)
    BY <1>5 DEF Publish, PublishFails, Pcs, WorkerPcs, AggPcs, CasPcs
  <2>2. Elsewhere
    BY <1>w, <2>1, MoveQuiet
  <2> QED BY <1>5, <1>w, <2>2 DEF Publish, PublishFails, Quiet, Finished, mainVars, subVars, redisVars, ghostVars
<1>6. ASSUME RenewClaim(w) PROVE Quiet
  <2>1. Elsewhere
    BY <1>6, <1>w, MoveQuiet DEF RenewClaim, Elsewhere, threadVars
  <2> QED BY <1>6, <1>w, <2>1 DEF RenewClaim, Quiet, Finished, mainVars, redisVars, ghostVars
<1> QED BY <1>1, <1>2, <1>3, <1>4, <1>5, <1>6, QuietKeeps

(* A result is written by the owner of a running shard, which no other *)
(* worker aggregates and nothing has counted.                          *)
LEMMA SettleCounts ==
  ASSUME TypeOK, TypeOK', CountInv, Rows' = Rows, NEW w \in Workers, pc[w] # "idle",
         NEW status \in {"success", "failed"}, NEW result, Settle(w, status, result)
  PROVE  CountInv'
<1>w. w \in Threads /\ held[w] \in Subs /\ subStatus \in [Subs -> SubStatus] /\ redisDone \in Nat
  BY DEF Threads, TypeOK, SubTypeOK, RedisTypeOK, ThreadTypeOK
<1>1. CASE ~Owns(w)
  <2>1. subStatus' = subStatus
    BY <1>1, <1>w DEF Settle, WriteResult
  <2>2. Quiet
    BY <1>1, <2>1, <1>w, MoveQuiet DEF Settle, Quiet, Finished, mainVars, redisVars, ghostVars
  <2> QED BY <2>2, QuietKeeps
<1>2. CASE Owns(w)
  <2>1. held[w] \notin Finished /\ held[w] \in Finished' /\ Finished \subseteq Finished'
    BY <1>2, <1>w DEF Owns, Settle, WriteResult, Finished
  <2>3. UNCHANGED <<held, snap, counted, cached, subTaskDone, redisDone, subTaskTotal, mainStatus>>
        /\ pc' = [pc EXCEPT ![w] = "aggRead"]
    BY <1>2 DEF Settle, mainVars, redisVars, ghostVars
  <2>4. Counting'
    BY <2>1, <2>3 DEF CountInv, Counting
  <2>5. Tickets'
    BY <1>w, <2>1, <2>3 DEF CountInv, Counting, Tickets, TypeOK, ThreadTypeOK, Threads, AggPcs
  <2>6. Snapshots' /\ Closing'
    BY <1>w, <2>3 DEF CountInv, Snapshots, Closing, TypeOK, ThreadTypeOK, CasPcs
  <2> QED BY <2>4, <2>5, <2>6 DEF CountInv
<1> QED BY <1>1, <1>2

LEMMA AggregateCounts ==
  ASSUME TypeOK, TypeOK', CountInv, Rows' = Rows, NEW w \in Workers,
         AggRead(w) \/ AggMark(w) \/ AggCount(w)
  PROVE  CountInv'
<1>w. /\ w \in Threads /\ (pc[w] # "idle" => held[w] \in Subs)
      /\ subTaskDone \in Nat /\ subTaskTotal \in Nat /\ redisDone \in Nat
      /\ pc \in [Threads -> Pcs] /\ snap \in [Threads -> MainRows]
  BY DEF Threads, TypeOK, MainTypeOK, RedisTypeOK, ThreadTypeOK
<1>1. CASE AggRead(w)
  <2>0. MainRow.done = subTaskDone /\ MainRow.total = subTaskTotal
    BY DEF MainRow
  <2>1. /\ UNCHANGED <<held, counted, cached, subTaskDone, redisDone, subTaskTotal, mainStatus, subStatus>>
        /\ pc[w] = "aggRead" /\ pc' = [pc EXCEPT ![w] = "aggMark"]
        /\ snap' = [snap EXCEPT ![w] = MainRow]
    BY <1>1 DEF AggRead, mainVars, subVars, redisVars, ghostVars
  <2>2. Counting'
    BY <2>1 DEF CountInv, Counting, Finished
  <2>3. Tickets'
    BY <1>w, <2>1 DEF CountInv, Tickets, Finished, Threads, AggPcs
  <2>4. Snapshots'
    BY <1>w, <2>0, <2>1 DEF CountInv, Snapshots
  <2>5. Closing'
    BY <1>w, <2>1 DEF CountInv, Closing, CasPcs
  <2> QED BY <2>2, <2>3, <2>4, <2>5 DEF CountInv
<1>2. CASE AggMark(w)
  <2>1. /\ UNCHANGED <<counted, cached, subTaskDone, redisDone, subTaskTotal, mainStatus, subStatus>>
        /\ pc[w] = "aggMark"
    BY <1>2 DEF AggMark, mainVars, subVars, ghostVars
  <2>2. CASE Return(w)
    <3>1. Quiet
      BY <1>w, <2>1, <2>2, MoveQuiet DEF CountInv, Counting, Quiet, Finished
    <3> QED BY <3>1, QuietKeeps
  <2>3. CASE Goto(w, "aggCount")
    <3>1. Counting'
      BY <2>1 DEF CountInv, Counting, Finished
    <3>2. Tickets' /\ Snapshots' /\ Closing'
      BY <1>w, <2>1, <2>3 DEF Goto, CountInv, Tickets, Snapshots, Closing, Finished, Threads, AggPcs, CasPcs
    <3> QED BY <3>1, <3>2 DEF CountInv
  <2> QED BY <1>2, <2>2, <2>3 DEF AggMark
<1>3. CASE AggCount(w)
  <2>1. /\ UNCHANGED <<held, snap, cached, redisDone, subTaskTotal, mainStatus, subStatus>>
        /\ pc[w] = "aggCount" /\ pc' = [pc EXCEPT ![w] = "aggRedis"]
        /\ subTaskDone' = subTaskDone + 1 /\ counted' = counted \cup {held[w]}
    BY <1>3 DEF AggCount, Goto, mainVars, subVars, redisVars, ghostVars
  <2>2. held[w] \in Finished /\ held[w] \notin counted /\ held[w] \notin cached
    BY <2>1 DEF CountInv, Tickets, Counting, AggPcs
  <2>3. Cardinality(counted') = Cardinality(counted) + 1
    BY <2>1, <2>2, FiniteCounts, FS_AddElement
  <2>4. Counting'
    BY <2>1, <2>2, <2>3 DEF CountInv, Counting, Finished
  <2>5. Tickets'
    BY <1>w, <2>1, <2>2 DEF CountInv, Tickets, Finished, Threads, AggPcs
  <2>6. Snapshots'
    BY <1>w, <2>1 DEF CountInv, Snapshots, MainRows
  <2>7. Closing'
    <3>1. held[w] \in Rows
      BY <2>2 DEF Finished, Rows
    <3> QED BY <1>w, <2>1, <2>2, <3>1 DEF CountInv, Closing, CasPcs
  <2> QED BY <2>4, <2>5, <2>6, <2>7 DEF CountInv
<1> QED BY <1>1, <1>2, <1>3

(* IncrSubDone, or its error: done is at most the number of counted shards *)
LEMMA AggDoneCounts ==
  ASSUME TypeOK, TypeOK', CountInv, Rows' = Rows, NEW w \in Workers, pc[w] = "aggRedis",
         NEW d \in Nat, AggDone(w, d), d <= subTaskDone,
         UNCHANGED <<counted, subTaskDone, subTaskTotal, mainStatus, subStatus>>,
         cached' \in {cached, cached \cup {held[w]}},
         redisDone' <= Cardinality(cached')
  PROVE  CountInv'
<1>w. /\ w \in Threads /\ held[w] \in Subs
      /\ pc \in [Threads -> Pcs] /\ snap \in [Threads -> MainRows] /\ held \in [Threads -> Subs \cup {NoSub}]
  BY DEF Threads, TypeOK, ThreadTypeOK
<1>1. /\ pc'[w] \in {"idle", "finRead"}
      /\ \A t \in Threads \ {w} : pc'[t] = pc[t] /\ held'[t] = held[t] /\ snap'[t] = snap[t]
  BY <1>w DEF AggDone, Return
<1>2. held[w] \in counted \ cached
  BY DEF CountInv, Tickets
<1>3. Counting'
  BY <1>2 DEF CountInv, Counting, Finished
<1>4. Tickets'
  <2>1. \A v \in Workers \ {w} : pc[v] \in AggPcs => held[v] # held[w]
    BY DEF CountInv, Tickets, AggPcs
  <2> QED BY <1>1, <2>1 DEF CountInv, Tickets, Finished, Threads, AggPcs
<1>5. Snapshots'
  <2>1. pc'[w] = "finRead" => snap'[w].done <= subTaskDone /\ snap'[w].total = subTaskTotal
    BY <1>w DEF AggDone, Return, CountInv, Snapshots, MainRows
  <2> QED BY <1>1, <2>1 DEF CountInv, Snapshots
<1>6. Closing'
  BY <1>1 DEF CountInv, Closing, CasPcs
<1> QED BY <1>3, <1>4, <1>5, <1>6 DEF CountInv

LEMMA RedisCounts ==
  ASSUME TypeOK, TypeOK', CountInv, Rows' = Rows, NEW w \in Workers, AggRedis(w)
  PROVE  CountInv'
<1>w. /\ w \in Threads /\ pc[w] = "aggRedis" /\ held[w] \in Subs
      /\ redisDone \in Nat /\ subTaskDone \in Nat /\ snap[w].done \in Nat
  BY DEF AggRedis, Threads, TypeOK, ThreadTypeOK, RedisTypeOK, MainTypeOK, MainRows
<1>1. held[w] \in counted \ cached /\ snap[w].done < subTaskDone
  BY <1>w DEF CountInv, Tickets, Snapshots
<1>2. redisDone <= Cardinality(cached) /\ cached \subseteq counted /\ subTaskDone = Cardinality(counted)
  BY DEF CountInv, Counting
<1>3. cached' = cached \cup {held[w]} /\ redisDone' = redisDone + 1
      /\ UNCHANGED <<counted, subTaskDone, subTaskTotal, mainStatus, subStatus>>
  BY DEF AggRedis, mainVars, subVars
<1>4. Cardinality(cached') = Cardinality(cached) + 1 /\ Cardinality(cached) \in Nat
  BY <1>1, <1>3, FiniteCounts, FS_AddElement
<1>5. Cardinality(cached') <= Cardinality(counted)
  <2>1. cached' \subseteq counted
    BY <1>1, <1>2, <1>3
  <2> QED BY <2>1, FiniteCounts, FS_Subset
<1>6. PICK d \in Nat : AggDone(w, d) /\ d \in {redisDone + 1, snap[w].done + 1}
  BY <1>w DEF AggRedis
<1>7. d <= subTaskDone /\ redisDone' <= Cardinality(cached')
  BY <1>w, <1>1, <1>2, <1>3, <1>4, <1>5, <1>6, FiniteCounts
<1> QED BY <1>w, <1>3, <1>6, <1>7, AggDoneCounts

LEMMA ErrorCounts ==
  ASSUME TypeOK, TypeOK', CountInv, Rows' = Rows, NEW w \in Workers, ErrorStep(w)
  PROVE  CountInv'
<1>w. w \in Threads /\ subStatus \in [Subs -> SubStatus] /\ redisDone \in Nat
  BY DEF Threads, TypeOK, SubTypeOK, RedisTypeOK
<1>1. CASE ClaimLoopDbError(w)
  <2>1. "fail" \in Pcs \ (AggPcs \cup CasPcs \cup {"finRead"})
    BY DEF Pcs, WorkerPcs, AggPcs, CasPcs
  <2>2. Elsewhere
    BY <1>1, <1>w, <2>1, MoveQuiet DEF ClaimLoopDbError
  <2> QED BY <1>1, <1>w, <2>2, QuietKeeps DEF ClaimLoopDbError, Quiet, Finished, mainVars, subVars,
      redisVars, ghostVars
<1>2. CASE AggDbError(w)
  <2>1. Elsewhere
    BY <1>2, <1>w, MoveQuiet DEF AggDbError
  <2> QED BY <1>2, <1>w, <2>1, QuietKeeps DEF AggDbError, Quiet, Finished, mainVars, subVars, ghostVars
<1>3. CASE AggRedisError(w)
  <2>1. CASE AggError(w)
    <3>1. Elsewhere
      BY <1>w, <2>1, MoveQuiet
    <3> QED BY <1>3, <1>w, <3>1, QuietKeeps DEF AggRedisError, Quiet, Finished, mainVars, subVars,
        redisVars, ghostVars
  <2>2. CASE pc[w] = "aggRedis" /\ AggDone(w, snap[w].done + 1)
    <3>1. snap[w].done < subTaskDone /\ snap[w].done \in Nat /\ subTaskDone \in Nat
      BY <1>w, <2>2 DEF CountInv, Snapshots, TypeOK, ThreadTypeOK, MainTypeOK, MainRows
    <3>2. /\ UNCHANGED <<counted, cached, subTaskDone, subTaskTotal, mainStatus, subStatus, redisDone>>
          /\ redisDone <= Cardinality(cached)
      BY <1>3 DEF AggRedisError, mainVars, subVars, redisVars, ghostVars, CountInv, Counting
    <3> QED BY <2>2, <3>1, <3>2, AggDoneCounts
  <2> QED BY <1>3, <2>1, <2>2 DEF AggRedisError
<1> QED BY <1>1, <1>2, <1>3 DEF ErrorStep

(* finalizeIfDone passes its test only when the counted shards are all of them. *)
LEMMA FinalizeCounts ==
  ASSUME TypeOK, TypeOK', CountInv, Rows' = Rows, NEW t \in Threads,
         FinalizeStep(t) \/ FinError(t) \/ Crash(t)
  PROVE  CountInv'
<1>w. /\ subStatus \in [Subs -> SubStatus] /\ redisDone \in Nat
      /\ pc \in [Threads -> Pcs] /\ snap \in [Threads -> MainRows]
  BY DEF TypeOK, SubTypeOK, RedisTypeOK, ThreadTypeOK
<1>q. ASSUME Elsewhere, UNCHANGED <<mainStatus, subTaskDone, subTaskTotal, subStatus, redisDone, counted, cached>>
      PROVE  CountInv'
  BY <1>q, <1>w, QuietKeeps DEF Quiet, Finished
<1>c. ASSUME pc'[t] \in CasPcs \cup {"notify"}, counted = Rows,
             \A u \in Threads \ {t} : pc'[u] = pc[u] /\ held'[u] = held[u] /\ snap'[u] = snap[u],
             UNCHANGED <<subTaskDone, subTaskTotal, subStatus, redisDone, counted, cached>>
      PROVE  CountInv'
  <2>1. Counting'
    BY <1>c DEF CountInv, Counting, Finished
  <2>2. Tickets' /\ Snapshots'
    BY <1>c DEF CountInv, Tickets, Snapshots, Finished, Threads, AggPcs, CasPcs
  <2>3. Closing'
    BY <1>c DEF Closing
  <2> QED BY <2>1, <2>2, <2>3 DEF CountInv
<1>1. CASE FinRead(t)
  <2>1. UNCHANGED <<mainStatus, subTaskDone, subTaskTotal, subStatus, redisDone, counted, cached>>
    BY <1>1 DEF FinRead, mainVars, subVars, redisVars, ghostVars
  <2>2. CASE ~AllDone(t)
    BY <1>1, <1>q, <2>1, <2>2, MoveQuiet DEF FinRead
  <2>3. CASE AllDone(t)
    <3>1. snap[t].done <= subTaskDone /\ snap[t].total = subTaskTotal /\ snap[t].done \in Nat
      BY <1>1, <1>w DEF FinRead, CountInv, Snapshots, MainRows
    <3>2. Cardinality(Rows) <= Cardinality(counted)
      BY <2>3, <3>1, FiniteCounts DEF AllDone, CountInv, Counting
    <3>3. counted \subseteq Rows
      BY DEF CountInv, Counting, Finished, Rows
    <3>4. counted = Rows
      BY <3>2, <3>3, FiniteCounts, FS_Subset
    <3> QED BY <1>1, <1>c, <1>w, <2>1, <2>3, <3>4 DEF FinRead, CasPcs
  <2> QED BY <2>2, <2>3
<1>2. CASE Cas(t)
  <2>1. /\ UNCHANGED <<subTaskDone, subTaskTotal, subStatus, redisDone, counted, cached>>
        /\ counted = Rows
    BY <1>2 DEF Cas, subVars, redisVars, ghostVars, CountInv, Closing, CasPcs
  <2>2. CASE Return(t)
    <3>1. Elsewhere
      BY <2>2, MoveQuiet
    <3>2. mainStatus' = mainStatus
      BY <1>2, <1>w, <2>2 DEF Cas, Return, Goto
    <3> QED BY <1>q, <2>1, <3>1, <3>2
  <2>3. CASE Goto(t, "notify") \/ Goto(t, "reget")
    BY <1>c, <1>w, <2>1, <2>3 DEF Goto, CasPcs
  <2> QED BY <1>2, <2>2, <2>3 DEF Cas
<1>3. CASE Reget(t)
  <2>1. /\ UNCHANGED <<mainStatus, subTaskDone, subTaskTotal, subStatus, redisDone, counted, cached>>
        /\ counted = Rows
    BY <1>3 DEF Reget, mainVars, subVars, redisVars, ghostVars, CountInv, Closing, CasPcs
  <2>2. CASE Return(t)
    BY <1>q, <2>1, <2>2, MoveQuiet
  <2>3. CASE ~Return(t)
    BY <1>3, <1>c, <1>w, <2>1, <2>3 DEF Reget, CasPcs
  <2> QED BY <2>2, <2>3
<1>4. CASE Notify(t)
  BY <1>4, <1>q, MoveQuiet DEF Notify, mainVars, subVars, redisVars, ghostVars
<1>5. CASE FinError(t)
  BY <1>5, <1>q, MoveQuiet DEF FinError, mainVars, subVars, redisVars, ghostVars
<1>6. CASE Crash(t)
  BY <1>6, <1>q, MoveQuiet DEF Crash, mainVars, subVars, redisVars, ghostVars
<1> QED BY <1>1, <1>2, <1>3, <1>4, <1>5, <1>6 DEF FinalizeStep

LEMMA ReaperCounts ==
  ASSUME TypeOK, TypeOK', CountInv, Rows' = Rows, NEW r \in Reapers, ReaperStep(r)
  PROVE  CountInv'
<1>w. /\ r \in Threads /\ r \notin Workers /\ redisDone \in Nat /\ subTaskDone \in Nat
      /\ pc \in [Threads -> Pcs] /\ snap \in [Threads -> MainRows]
  BY WorkersAssumption DEF Threads, TypeOK, RedisTypeOK, ThreadTypeOK, MainTypeOK
<1>u. UNCHANGED <<mainStatus, subTaskDone, subTaskTotal, subStatus, redisDone, counted, cached>>
  BY DEF ReaperStep, ReapList, ReapGet, mainVars, subVars, redisVars, ghostVars
<1>1. CASE Return(r) \/ Goto(r, "reapGet")
  <2>1. "reapGet" \in Pcs \ (AggPcs \cup CasPcs \cup {"finRead"})
    BY DEF Pcs, AggPcs, CasPcs
  <2>2. Elsewhere
    BY <1>w, <1>1, <2>1, MoveQuiet
  <2> QED BY <1>w, <1>u, <2>2, QuietKeeps DEF Quiet, Finished
<1>2. CASE snap' = [snap EXCEPT ![r] = MainRow] /\ pc' = [pc EXCEPT ![r] = "finRead"]
           /\ UNCHANGED held
  <2>1. MainRow.done = subTaskDone /\ MainRow.total = subTaskTotal
    BY DEF MainRow
  <2>2. Counting' /\ Closing'
    BY <1>w, <1>u, <1>2 DEF CountInv, Counting, Closing, Finished, CasPcs
  <2>3. Tickets'
    BY <1>w, <1>u, <1>2 DEF CountInv, Tickets, Finished, Threads
  <2>4. Snapshots'
    BY <1>w, <1>u, <1>2, <2>1 DEF CountInv, Snapshots
  <2> QED BY <2>2, <2>3, <2>4 DEF CountInv
<1> QED BY <1>1, <1>2 DEF ReaperStep, ReapList, ReapGet

LEMMA OutsideCounts ==
  ASSUME TypeOK, TypeOK', CountInv, Rows' = Rows, ApiStep \/ EnvStep \/ UNCHANGED vars
  PROVE  CountInv'
<1>w. subStatus \in [Subs -> SubStatus] /\ redisDone \in Nat
  BY DEF TypeOK, SubTypeOK, RedisTypeOK
<1> USE DEF mainVars, subVars, redisVars, threadVars, ghostVars
<1>1. Elsewhere
  BY DEF ApiStep, EnvStep, Pause, Resume, CancelMain, CancelSubs, CancelStops, ClaimTimeout,
         CampaignExpires, SyncUserCounts, RedisLoss, vars, Elsewhere
<1>2. CASE Pause \/ Resume \/ CancelMain
  BY <1>2, <1>1, <1>w, QuietKeeps DEF Pause, Resume, CancelMain, Quiet, Finished, Verdicts
<1>3. CASE CancelSubs
  BY <1>3, <1>1, <1>w, QuietKeeps DEF CancelSubs, Cancellable, Quiet, Finished
<1>4. CASE CancelStops
  BY <1>4, <1>1, <1>w, QuietKeeps DEF CancelStops, Quiet, Finished
<1>5. CASE EnvStep
  BY <1>5, <1>1, <1>w, QuietKeeps DEF EnvStep, ClaimTimeout, CampaignExpires, SyncUserCounts,
     RedisLoss, Quiet, Finished
<1>6. CASE UNCHANGED vars
  BY <1>6, <1>1, <1>w, QuietKeeps DEF vars, Quiet, Finished
<1> QED BY <1>2, <1>3, <1>4, <1>5, <1>6 DEF ApiStep

LEMMA NextCount == TypeOK /\ TypeOK' /\ CountInv /\ [Next]_vars => CountInv'
<1> SUFFICES ASSUME TypeOK, TypeOK', CountInv, [Next]_vars PROVE CountInv'
  OBVIOUS
<1>r. Rows' = Rows
  BY RowsStay
<1>1. ASSUME NEW w \in Workers, WorkerStep(w) PROVE CountInv'
  <2>1. CASE WriteSuccess(w) \/ WriteFailure(w) \/ FinishExpired(w)
    BY <1>r, <2>1, SettleCounts DEF WriteSuccess, WriteFailure, FinishExpired
  <2> QED BY <1>r, <1>1, <2>1, ClaimLoopCounts, AggregateCounts, RedisCounts DEF WorkerStep
<1> QED BY <1>r, <1>1, ErrorCounts, FinalizeCounts, ReaperCounts, OutsideCounts DEF Next

-----------------------------------------------------------------------------
(* CountInv holds always: each count is the number of distinct finished shards *)
(* that were counted, and no stale copy of it is larger.                       *)
THEOREM CountsAreShards == Spec => []CountInv
<1>1. Spec => []TypeOK
  BY Typing
<1>2. Init => CountInv
  BY InitCount DEF Init
<1> QED BY <1>1, <1>2, NextCount, PTL DEF Spec

(* UpdateMainTaskStats never counts more shards than have a result. *)
THEOREM NeverOvercounts == Spec => []NoOvercount
<1>1. TypeOK /\ CountInv => NoOvercount
  <2> SUFFICES ASSUME TypeOK, CountInv PROVE NoOvercount
    OBVIOUS
  <2>1. IsFiniteSet(Finished)
    BY SubsAssumption, FS_Subset DEF Finished
  <2>2. Cardinality(counted) <= Cardinality(Finished)
    BY <2>1, FS_Subset DEF CountInv, Counting
  <2> QED BY <2>2 DEF NoOvercount, CountInv, Counting
<1> QED BY <1>1, Typing, CountsAreShards, PTL

(* finalizeIfDone, on the aggregator's and on the reaper's path, closes a     *)
(* campaign only when every shard has its result.                             *)
THEOREM ClosesWhenFinished == Spec => []ClosedWhenAllFinished
<1>1. CountInv => ClosedWhenAllFinished
  BY DEF CountInv, Counting, Closing, ClosedWhenAllFinished, Rows
<1> QED BY <1>1, CountsAreShards, PTL

-----------------------------------------------------------------------------
(* The pipeline implements CampaignLifecycle: a step either reports shards of *)
(* one worker, or changes the status as the promise allows, or neither.       *)
Reports ==
  UNCHANGED mainStatus /\ \E s \in Subs : Finished' = Finished \cup {s}

LEMMA ReportsImplement ==
  ASSUME Reports \/ UNCHANGED <<mainStatus, Finished>>
  PROVE  [Lifecycle!Next]_(Lifecycle!vars)
BY DEF Reports, Lifecycle!Next, Lifecycle!Report, Lifecycle!vars

LEMMA WorkerImplements ==
  ASSUME TypeOK, NEW w \in Workers, WorkerStep(w) \/ ErrorStep(w)
  PROVE  Reports \/ UNCHANGED <<mainStatus, Finished>>
<1>w. subStatus \in [Subs -> SubStatus] /\ (pc[w] # "idle" => held[w] \in Subs)
  BY DEF TypeOK, SubTypeOK, ThreadTypeOK
<1> USE DEF mainVars, subVars
<1>1. ASSUME NEW s \in Subs, ClaimSubTask(w, s) PROVE UNCHANGED <<mainStatus, Finished>>
  BY <1>1, <1>w DEF ClaimSubTask, Claimable, Finished
<1>2. CASE CancelSub(w)
  BY <1>2, <1>w DEF CancelSub, WriteResult, Owns, Finished
<1>3. CASE ReleaseSubTask(w)
  BY <1>3, <1>w DEF ReleaseSubTask, Finished
<1>4. ASSUME NEW status \in {"success", "failed"}, NEW result, pc[w] # "idle",
             Settle(w, status, result)
      PROVE  Reports \/ UNCHANGED <<mainStatus, Finished>>
  <2>1. mainStatus' = mainStatus /\ subStatus' = [subStatus EXCEPT ![held[w]] = IF Owns(w) THEN status ELSE @]
    BY <1>4 DEF Settle, WriteResult
  <2>2. CASE Owns(w)
    BY <1>4, <1>w, <2>1, <2>2 DEF Reports, Finished
  <2>3. CASE ~Owns(w)
    BY <1>4, <1>w, <2>1, <2>3 DEF Finished
  <2> QED BY <2>2, <2>3
<1>5. CASE WriteSuccess(w) \/ WriteFailure(w) \/ FinishExpired(w)
  BY <1>4, <1>5 DEF WriteSuccess, WriteFailure, FinishExpired
<1>6. CASE Gate(w) \/ Publish(w) \/ PublishFails(w) \/ RenewClaim(w)
  BY <1>6 DEF Gate, Publish, PublishFails, RenewClaim, Finished
<1>7. CASE AggRead(w) \/ AggMark(w) \/ AggCount(w) \/ AggRedis(w)
  BY <1>7 DEF AggRead, AggMark, AggCount, AggRedis, Finished
<1>8. CASE ErrorStep(w)
  BY <1>8 DEF ErrorStep, ClaimLoopDbError, AggDbError, AggRedisError, Finished
<1> QED BY <1>1, <1>2, <1>3, <1>5, <1>6, <1>7, <1>8 DEF WorkerStep

LEMMA CasImplements ==
  ASSUME TypeOK, CountInv, Rows = Subs, NEW t \in Threads, Cas(t)
  PROVE  [Lifecycle!Next]_(Lifecycle!vars)
<1>1. Finished' = Finished /\ Finished = Subs
  BY DEF Cas, subVars, Finished, CountInv, Counting, Closing, CasPcs
<1>2. CASE CasMatches(t)
  <2>1. mainStatus = "running" /\ mainStatus' \in Verdicts
    BY <1>2 DEF CasMatches, Cas, TypeOK, MainTypeOK, MainStatus, ThreadTypeOK, CasPcs
  <2> QED BY <1>1, <2>1 DEF Lifecycle!Next, Lifecycle!Close, Lifecycle!Verdicts, Verdicts
<1>3. CASE ~CasMatches(t)
  BY <1>1, <1>3 DEF Cas, Lifecycle!vars
<1> QED BY <1>2, <1>3

LEMMA StepImplements ==
  TypeOK /\ CountInv /\ Rows = Subs /\ [Next]_vars => [Lifecycle!Next]_(Lifecycle!vars)
<1> SUFFICES ASSUME TypeOK, CountInv, Rows = Subs, [Next]_vars PROVE [Lifecycle!Next]_(Lifecycle!vars)
  OBVIOUS
<1> USE DEF mainVars, subVars
<1>1. ASSUME NEW w \in Workers, WorkerStep(w) \/ ErrorStep(w)
      PROVE  [Lifecycle!Next]_(Lifecycle!vars)
  BY <1>1, WorkerImplements, ReportsImplement
<1>2. ASSUME NEW r \in Reapers, ReaperStep(r) PROVE [Lifecycle!Next]_(Lifecycle!vars)
  BY <1>2, ReportsImplement DEF ReaperStep, ReapList, ReapGet, Finished
<1>3. ASSUME NEW t \in Threads, FinalizeStep(t) \/ FinError(t) \/ Crash(t)
      PROVE  [Lifecycle!Next]_(Lifecycle!vars)
  BY <1>3, CasImplements, ReportsImplement
     DEF FinalizeStep, FinRead, Reget, Notify, FinError, Crash, Finished
<1>4. CASE ApiStep
  <2>1. Finished' = Finished
    BY <1>4 DEF ApiStep, Pause, Resume, CancelMain, CancelSubs, CancelStops, Cancellable, Finished,
                TypeOK, SubTypeOK
  <2> QED BY <1>4, <2>1 DEF ApiStep, Pause, Resume, CancelMain, CancelSubs, CancelStops,
             Lifecycle!Next, Lifecycle!Pause, Lifecycle!Resume, Lifecycle!Cancel, Lifecycle!vars
<1>5. CASE EnvStep \/ UNCHANGED vars
  BY <1>5, ReportsImplement
     DEF EnvStep, ClaimTimeout, CampaignExpires, SyncUserCounts, RedisLoss, vars, Finished
<1> QED BY <1>1, <1>2, <1>3, <1>4, <1>5 DEF Next

(* Claims, takeovers, lost and late answers, crashes and races of the closers *)
(* show themselves to a caller as the steps of CampaignLifecycle.             *)
THEOREM Implements == Spec => ImplementsLifecycle
<1>1. Init => Lifecycle!Init
  BY DEF Init, InitRows, Lifecycle!Init, Finished
<1>2. Init => Rows = Subs
  BY DEF Init, InitRows, Rows
<1>3. TypeOK /\ Rows = Subs /\ [Next]_vars => (Rows = Subs)'
  BY RowsStay
<1> QED BY <1>1, <1>2, <1>3, StepImplements, Typing, CountsAreShards, PTL
        DEF Spec, ImplementsLifecycle, Lifecycle!Spec

-----------------------------------------------------------------------------
(* Results: a worker writes only rows it owns, which are running; success is *)
(* written after the messages of the shard are in the queue.                 *)
ResultStep == \A s \in Subs : subStatus[s] \in {"success", "failed", "cancelled"}
                                 => subStatus'[s] = subStatus[s]

PublishedInv ==
  /\ SuccessWasEnqueued
  /\ \A w \in Workers : pc[w] = "result" => held[w] \in enqueued

WaitsNot == \A w \in Workers : pc'[w] = "result" => pc[w] = "result" /\ held'[w] = held[w]

(* Steps that write no result: nothing new waits to write success.           *)
NoNewResult ==
  /\ \A s \in Subs : subStatus'[s] = "success" => subStatus[s] = "success"
  /\ enqueued \subseteq enqueued'
  /\ WaitsNot

LEMMA NoNewResultKeeps == ASSUME PublishedInv, NoNewResult PROVE PublishedInv'
BY DEF PublishedInv, SuccessWasEnqueued, NoNewResult, WaitsNot

LEMMA MoveWritesNothing ==
  ASSUME TypeOK, NEW t \in Threads,
         \/ Return(t) \/ AggError(t)
         \/ \E l \in Pcs \ {"result"} : pc' = [pc EXCEPT ![t] = l] /\ held' = held
         \/ pc' = pc /\ held' = held
  PROVE  WaitsNot
<1> USE DEF WaitsNot, Threads, TypeOK, ThreadTypeOK
<1>1. CASE Return(t)
  BY <1>1 DEF Return
<1>2. CASE AggError(t)
  BY <1>1, <1>2 DEF AggError
<1>3. CASE \E l \in Pcs \ {"result"} : pc' = [pc EXCEPT ![t] = l] /\ held' = held
  BY <1>3
<1> QED BY <1>1, <1>2, <1>3

LEMMA SettleWrites ==
  ASSUME TypeOK, PublishedInv, NEW w \in Workers, NEW status \in {"success", "failed"}, NEW result,
         pc[w] # "idle", Settle(w, status, result),
         status = "success" => pc[w] = "result"
  PROVE  PublishedInv' /\ ResultStep
<1>1. subStatus \in [Subs -> SubStatus] /\ held[w] \in Subs /\ w \in Threads
  BY DEF TypeOK, SubTypeOK, ThreadTypeOK, Threads
<1>2. /\ subStatus' = [subStatus EXCEPT ![held[w]] = IF Owns(w) THEN status ELSE @]
      /\ enqueued' = enqueued
  BY DEF Settle, WriteResult
<1>3. WaitsNot
  BY <1>1, MoveWritesNothing DEF Settle, Pcs, AggPcs
<1>4. ResultStep
  BY <1>1, <1>2 DEF ResultStep, Owns
<1>5. ASSUME NEW s \in Subs, subStatus'[s] = "success" PROVE s \in enqueued
  <2>1. CASE s = held[w] /\ Owns(w)
    BY <1>1, <1>2, <1>5, <2>1 DEF PublishedInv
  <2>2. CASE ~(s = held[w] /\ Owns(w))
    BY <1>1, <1>2, <1>5, <2>2 DEF PublishedInv, SuccessWasEnqueued
  <2> QED BY <2>1, <2>2
<1> QED BY <1>2, <1>3, <1>4, <1>5 DEF PublishedInv, SuccessWasEnqueued, WaitsNot

LEMMA WorkerResults ==
  ASSUME TypeOK, PublishedInv, NEW w \in Workers, WorkerStep(w) \/ ErrorStep(w)
  PROVE  PublishedInv' /\ ResultStep
<1>w. /\ w \in Threads /\ subStatus \in [Subs -> SubStatus]
      /\ pc[w] # "idle" => held[w] \in Subs
  BY DEF TypeOK, SubTypeOK, ThreadTypeOK, Threads
<1>1. ASSUME NEW s \in Subs, ClaimSubTask(w, s) PROVE NoNewResult /\ ResultStep
  BY <1>1, <1>w DEF ClaimSubTask, Claimable, NoNewResult, WaitsNot, ResultStep, Threads, TypeOK,
     ThreadTypeOK
<1>2. ASSUME CancelSub(w) PROVE NoNewResult /\ ResultStep
  BY <1>2, <1>w, MoveWritesNothing DEF CancelSub, WriteResult, Owns, NoNewResult, ResultStep
<1>3. ASSUME ReleaseSubTask(w) PROVE NoNewResult /\ ResultStep
  BY <1>3, <1>w, MoveWritesNothing DEF ReleaseSubTask, subVars, NoNewResult, ResultStep
<1>4. CASE Publish(w)
  <2>1. /\ pc' = [pc EXCEPT ![w] = "result"] /\ held' = held /\ subStatus' = subStatus
        /\ enqueued' = enqueued \cup {held[w]}
    BY <1>4 DEF Publish, Goto, subVars
  <2>2. \A v \in Workers : pc'[v] = "result" => held[v] \in enqueued'
    BY <1>w, <2>1 DEF PublishedInv, Threads, TypeOK, ThreadTypeOK
  <2> QED BY <2>1, <2>2 DEF PublishedInv, SuccessWasEnqueued, ResultStep
<1>5. CASE WriteSuccess(w) \/ WriteFailure(w) \/ FinishExpired(w)
  <2>1. CASE WriteSuccess(w)
    BY <2>1, SettleWrites, "success" \in {"success", "failed"} DEF WriteSuccess
  <2>2. CASE WriteFailure(w)
    BY <2>2, SettleWrites, "failed" \in {"success", "failed"} DEF WriteFailure
  <2>3. CASE FinishExpired(w)
    BY <2>3, SettleWrites, "failed" \in {"success", "failed"} DEF FinishExpired
  <2> QED BY <1>5, <2>1, <2>2, <2>3
<1>6. CASE Gate(w) \/ PublishFails(w) \/ RenewClaim(w) \/ AggRead(w) \/ AggMark(w) \/ AggCount(w)
           \/ AggRedis(w) \/ ErrorStep(w)
  <2> USE MoveWritesNothing, <1>w DEF Pcs, AggPcs, WorkerPcs, Goto, AggDone, threadVars
  <2>1. subStatus' = subStatus /\ enqueued' = enqueued
    BY <1>6 DEF Gate, PublishFails, RenewClaim, AggRead, AggMark, AggCount, AggRedis, ErrorStep,
       ClaimLoopDbError, AggDbError, AggRedisError, subVars
  <2>2. CASE Gate(w) \/ PublishFails(w) \/ RenewClaim(w)
    BY <2>1, <2>2, NoNewResultKeeps DEF Gate, PublishFails, RenewClaim, NoNewResult, ResultStep
  <2>3. CASE AggRead(w) \/ AggMark(w) \/ AggCount(w) \/ AggRedis(w)
    <3>1. WaitsNot
      BY <2>3 DEF AggRead, AggMark, AggCount, AggRedis
    <3> QED BY <2>1, <3>1, NoNewResultKeeps DEF NoNewResult, ResultStep
  <2>4. CASE ErrorStep(w)
    <3>1. WaitsNot
      BY <2>4 DEF ErrorStep, ClaimLoopDbError, AggDbError, AggRedisError
    <3> QED BY <2>1, <3>1, NoNewResultKeeps DEF NoNewResult, ResultStep
  <2> QED BY <1>6, <2>2, <2>3, <2>4
<1> QED BY <1>1, <1>2, <1>3, <1>4, <1>5, <1>6, NoNewResultKeeps DEF WorkerStep

LEMMA NextResults ==
  ASSUME TypeOK, PublishedInv, [Next]_vars PROVE PublishedInv' /\ ResultStep
<1>1. ASSUME NEW t \in Threads,
             FinalizeStep(t) \/ FinError(t) \/ Crash(t) \/ (t \in Reapers /\ ReaperStep(t))
      PROVE  PublishedInv' /\ ResultStep
  <2>1. subStatus' = subStatus /\ enqueued' = enqueued
    BY <1>1 DEF FinalizeStep, FinRead, Cas, Reget, Notify, FinError, Crash, ReaperStep, ReapList,
       ReapGet, subVars
  <2>2. WaitsNot
    BY <1>1, MoveWritesNothing
       DEF FinalizeStep, FinRead, Cas, Reget, Notify, FinError, Crash, ReaperStep, ReapList,
           ReapGet, Goto, Pcs, CasPcs
  <2> QED BY <2>1, <2>2, NoNewResultKeeps DEF NoNewResult, ResultStep
<1>2. CASE ApiStep
  <2>1. enqueued' = enqueued /\ UNCHANGED threadVars
    BY <1>2 DEF ApiStep, Pause, Resume, CancelMain, CancelSubs, CancelStops
  <2>2. subStatus' = subStatus
           \/ subStatus' = [s \in Subs |-> IF Cancellable(s) THEN "cancelled" ELSE subStatus[s]]
    BY <1>2 DEF ApiStep, Pause, Resume, CancelMain, CancelSubs, CancelStops, subVars
  <2> QED BY <2>1, <2>2, NoNewResultKeeps DEF NoNewResult, WaitsNot, ResultStep, Cancellable, threadVars
<1>3. CASE EnvStep \/ UNCHANGED vars
  <2>1. subStatus' = subStatus /\ enqueued' = enqueued /\ UNCHANGED threadVars
    BY <1>3 DEF EnvStep, ClaimTimeout, CampaignExpires, SyncUserCounts, RedisLoss, vars, subVars
  <2> QED BY <2>1, NoNewResultKeeps DEF NoNewResult, WaitsNot, ResultStep, threadVars
<1> QED BY <1>1, <1>2, <1>3, WorkerResults DEF Next, Threads

(* A shard is successful only after its messages are in the queue.           *)
THEOREM SuccessAfterQueue == Spec => []SuccessWasEnqueued
<1>1. Init => PublishedInv
  BY DEF Init, InitRows, PublishedInv, SuccessWasEnqueued, Threads
<1>2. TypeOK /\ PublishedInv /\ [Next]_vars => PublishedInv'
  BY NextResults
<1>3. PublishedInv => SuccessWasEnqueued
  BY DEF PublishedInv
<1> QED BY <1>1, <1>2, <1>3, Typing, PTL DEF Spec

(* Late workers, releases, takeovers and cancellations leave a result alone. *)
THEOREM ResultsStay == Spec => ResultStays
<1>1. Init => PublishedInv
  BY DEF Init, InitRows, PublishedInv, SuccessWasEnqueued, Threads
<1>2. TypeOK /\ PublishedInv /\ [Next]_vars => PublishedInv' /\ [ResultStep]_vars
  BY NextResults
<1> QED BY <1>1, <1>2, Typing, PTL DEF Spec, ResultStays, ResultStep

-----------------------------------------------------------------------------
(* The announcement: whoever ends the campaign, and nobody else, owes it.    *)
Owing == {t \in Threads : pc[t] = "notify"}

NotifyInv ==
  /\ notified <= 1
  /\ notified = 1 => Owing = {} /\ cancelPc # "subs"
  /\ Owing # {} => cancelPc # "subs"
  /\ \A t, u \in Owing : t = u
  /\ notified = 1 \/ Owing # {} \/ cancelPc = "subs" => mainStatus \in Terminal

(* Steps that end no campaign and announce nothing                           *)
Silent ==
  /\ UNCHANGED <<notified, cancelPc>>
  /\ mainStatus \in Terminal => mainStatus' = mainStatus
  /\ Owing' \subseteq Owing

LEMMA SilentKeeps == ASSUME NotifyInv, Silent PROVE NotifyInv'
BY DEF NotifyInv, Silent

LEMMA MoveOwesNothing ==
  ASSUME TypeOK, NEW t \in Threads,
         \/ Return(t) \/ AggError(t)
         \/ \E l \in Pcs \ {"notify"} : pc' = [pc EXCEPT ![t] = l]
         \/ pc' = pc
  PROVE  Owing' \subseteq Owing
<1> USE DEF Owing, TypeOK, ThreadTypeOK
<1>1. CASE Return(t)
  BY <1>1 DEF Return
<1>2. CASE AggError(t)
  BY <1>1, <1>2 DEF AggError
<1>3. CASE \E l \in Pcs \ {"notify"} : pc' = [pc EXCEPT ![t] = l]
  BY <1>3
<1> QED BY <1>1, <1>2, <1>3

LEMMA ThreadsNotify ==
  ASSUME TypeOK, NotifyInv, NEW t \in Threads,
         \/ t \in Workers /\ (WorkerStep(t) \/ ErrorStep(t))
         \/ t \in Reapers /\ ReaperStep(t)
         \/ FinRead(t) \/ Reget(t) \/ FinError(t) \/ Crash(t)
  PROVE  NotifyInv'
<1> USE MoveOwesNothing DEF Pcs, AggPcs, CasPcs, WorkerPcs, Goto
<1>1. UNCHANGED <<notified, cancelPc, mainStatus>>
  BY DEF WorkerStep, ClaimSubTask, Gate, CancelSub, ReleaseSubTask, Publish, PublishFails, RenewClaim,
     WriteSuccess, WriteFailure, FinishExpired, Settle, AggRead, AggMark, AggCount, AggRedis,
     ErrorStep, ClaimLoopDbError, AggDbError, AggRedisError, ReaperStep, ReapList, ReapGet,
     FinRead, Reget, FinError, Crash, apiVars, mainVars
<1>2. ASSUME (\E s \in Subs : ClaimSubTask(t, s)) \/ Gate(t) \/ CancelSub(t) \/ ReleaseSubTask(t)
      PROVE  Owing' \subseteq Owing
  BY <1>2 DEF ClaimSubTask, Gate, CancelSub, ReleaseSubTask
<1>3. ASSUME Publish(t) \/ PublishFails(t) \/ RenewClaim(t) PROVE Owing' \subseteq Owing
  BY <1>3 DEF Publish, PublishFails, RenewClaim, threadVars
<1>4. ASSUME WriteSuccess(t) \/ WriteFailure(t) \/ FinishExpired(t) PROVE Owing' \subseteq Owing
  BY <1>4 DEF WriteSuccess, WriteFailure, FinishExpired, Settle
<1>5. ASSUME AggRead(t) \/ AggMark(t) \/ AggCount(t) \/ AggRedis(t) PROVE Owing' \subseteq Owing
  BY <1>5 DEF AggRead, AggMark, AggCount, AggRedis, AggDone
<1>6. ASSUME ErrorStep(t) PROVE Owing' \subseteq Owing
  BY <1>6 DEF ErrorStep, ClaimLoopDbError, AggDbError, AggRedisError, AggDone
<1>7. ASSUME ReaperStep(t) \/ FinRead(t) \/ Reget(t) \/ FinError(t) \/ Crash(t)
      PROVE  Owing' \subseteq Owing
  BY <1>7 DEF ReaperStep, ReapList, ReapGet, FinRead, Reget, FinError, Crash
<1> HIDE MoveOwesNothing
<1>8. Owing' \subseteq Owing
  BY <1>2, <1>3, <1>4, <1>5, <1>6, <1>7 DEF WorkerStep
<1> QED BY <1>1, <1>8, SilentKeeps DEF Silent

LEMMA ClosersNotify ==
  ASSUME TypeOK, NotifyInv, NEW t \in Threads, Cas(t) \/ Notify(t) PROVE NotifyInv'
<1>1. CASE Cas(t) /\ CasMatches(t)
  <2>1. /\ mainStatus \notin Terminal /\ mainStatus' = verdict[t] /\ verdict[t] \in Verdicts
        /\ pc' = [pc EXCEPT ![t] = "notify"] /\ UNCHANGED <<notified, cancelPc>>
    BY <1>1 DEF Cas, CasMatches, Goto, apiVars, TypeOK, ThreadTypeOK, CasPcs
  <2>2. Owing = {} /\ Owing' = {t}
    BY <2>1 DEF NotifyInv, Owing, TypeOK, ThreadTypeOK
  <2> QED BY <2>1, <2>2 DEF NotifyInv, Terminal
<1>2. CASE Cas(t) /\ ~CasMatches(t)
  <2>1. Owing' \subseteq Owing
    BY <1>2, MoveOwesNothing DEF Cas, Goto, Pcs, CasPcs
  <2> QED BY <1>2, <2>1, SilentKeeps DEF Silent, Cas, apiVars
<1>3. CASE Notify(t)
  <2>1. /\ t \in Owing /\ Owing' = Owing \ {t} /\ notified' = notified + 1
        /\ mainStatus' = mainStatus /\ cancelPc' = cancelPc
    BY <1>3 DEF Notify, Return, Owing, mainVars, TypeOK, ThreadTypeOK
  <2>2. notified = 0
    BY <2>1 DEF NotifyInv, TypeOK, OtherTypeOK
  <2> QED BY <2>1, <2>2 DEF NotifyInv
<1> QED BY <1>1, <1>2, <1>3

LEMMA OutsideNotifies ==
  ASSUME TypeOK, NotifyInv, ApiStep \/ EnvStep \/ UNCHANGED vars PROVE NotifyInv'
<1> USE DEF Owing, threadVars, apiVars
<1>1. CASE Pause \/ Resume
  BY <1>1, SilentKeeps DEF Pause, Resume, Silent, Terminal, Verdicts
<1>2. CASE CancelMain
  BY <1>2 DEF CancelMain, NotifyInv, Terminal, Verdicts
<1>3. CASE CancelSubs
  <2>1. notified = 0
    BY <1>3 DEF CancelSubs, NotifyInv, TypeOK, OtherTypeOK
  <2> QED BY <1>3, <2>1 DEF CancelSubs, NotifyInv, mainVars
<1>4. CASE CancelStops
  BY <1>4 DEF CancelStops, NotifyInv, mainVars
<1>5. CASE EnvStep \/ UNCHANGED vars
  BY <1>5, SilentKeeps
     DEF EnvStep, ClaimTimeout, CampaignExpires, SyncUserCounts, RedisLoss, vars, Silent, mainVars
<1> QED BY <1>1, <1>2, <1>3, <1>4, <1>5 DEF ApiStep

(* Workers, reapers and Cancel may all find the campaign finished: the one   *)
(* whose compare-and-set is counted announces the end.                       *)
THEOREM NotifiesOnce == Spec => []NotifiedOnce
<1>1. Init => NotifyInv
  BY DEF Init, InitRows, NotifyInv, Owing
<1>2. TypeOK /\ NotifyInv /\ [Next]_vars => NotifyInv'
  BY ThreadsNotify, ClosersNotify, OutsideNotifies DEF Next, Threads, FinalizeStep
<1>3. NotifyInv => NotifiedOnce
  BY DEF NotifyInv, NotifiedOnce
<1> QED BY <1>1, <1>2, <1>3, Typing, PTL DEF Spec
=============================================================================
