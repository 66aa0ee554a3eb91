------------------------ MODULE CampaignRetryProofs ------------------------
(***************************************************************************)
(* Proofs about CampaignRetry for any shards, workers, reapers, calls,     *)
(* settings and disturbances: a Retry that is left alone returns with the  *)
(* counting invariant of the pipeline restored for the rows there are now, *)
(* so the retried campaign is closed only when each of them has a result.  *)
(***************************************************************************)
EXTENDS CampaignRetry, SubTaskPipelineProofs

-----------------------------------------------------------------------------
(* Typing *)

RetryPcs == {"idle", "listSubs", "listUsers", "reset", "create", "clear", "reopen", "syncStale",
             "summarize", "sync", "setRedis"}
Sums == [done : Nat, total : Nat, succ : Nat, fail : Nat]

CallTypeOK ==
  /\ retryPc \in [Retriers -> RetryPcs] /\ task \in [Retriers -> MainRows]
  /\ newSubs \in [Retriers -> Nat] /\ resets \in [Retriers -> Nat]
  /\ summary \in [Retriers -> Sums] /\ summed \in [Retriers -> SUBSET Subs]

RetryTypeOK == TypeOK /\ CallTypeOK

LEMMA SumTyped == ASSUME TypeOK PROVE SumRows \in Sums /\ Ended \subseteq Subs
<1>1. /\ Rows \subseteq Subs /\ Ended \subseteq Subs
      /\ RowsIn("success") \subseteq Subs /\ RowsIn("failed") \subseteq Subs
  BY DEF Rows, Ended, RowsIn
<1>2. /\ Cardinality(Rows) \in Nat /\ Cardinality(Ended) \in Nat
      /\ Cardinality(RowsIn("success")) \in Nat /\ Cardinality(RowsIn("failed")) \in Nat
  <2>1. \A T \in SUBSET Subs : Cardinality(T) \in Nat
    BY SubsAssumption, FS_Subset, FS_CardinalityType
  <2> QED BY <1>1, <2>1
<1> QED BY <1>1, <1>2 DEF SumRows, Sums

LEMMA OutcomesTyped == \A sum : UserOutcomes(sum) \in Counts
BY DEF UserOutcomes, Counts

LEMMA RetryInitTyped == RetryInit => RetryTypeOK
<1> SUFFICES ASSUME RetryInit PROVE RetryTypeOK
  OBVIOUS
<1>1. setting.rows \in SUBSET Subs /\ InitRows(setting.rows)
  BY SettingsAssumption DEF RetryInit
<1>2. NoSum \in Sums /\ NoRow \in MainRows
  BY NoRowTyped DEF NoSum, Sums
<1>3. CallTypeOK
  BY <1>2 DEF RetryInit, CallTypeOK, RetryPcs
<1> QED BY <1>1, <1>3, InitTyped DEF RetryTypeOK

LEMMA CallGotoTyped ==
  ASSUME CallTypeOK, NEW r \in Retriers, NEW l \in RetryPcs, RetryGoto(r, l) PROVE CallTypeOK'
BY DEF CallTypeOK, RetryGoto

LEMMA CallReturnTyped ==
  ASSUME CallTypeOK, NEW r \in Retriers, RetryReturn(r) PROVE CallTypeOK'
BY NoRowTyped DEF CallTypeOK, RetryReturn, NoSum, Sums, RetryPcs

LEMMA RetryStepTyped ==
  ASSUME RetryTypeOK, NEW r \in Retriers, RetryStep(r) \/ RetryStops(r)
  PROVE  RetryTypeOK'
<1>t. TypeOK /\ CallTypeOK /\ MainTypeOK /\ SubTypeOK /\ RedisTypeOK /\ ThreadTypeOK /\ OtherTypeOK
  BY DEF RetryTypeOK, TypeOK
<1>g. "clear" \in RetryPcs /\ "reopen" \in RetryPcs /\ "summarize" \in RetryPcs /\ "syncStale" \in RetryPcs
      /\ "setRedis" \in RetryPcs /\ "listSubs" \in RetryPcs /\ "listUsers" \in RetryPcs /\ "reset" \in RetryPcs
      /\ "create" \in RetryPcs /\ "sync" \in RetryPcs
  BY DEF RetryPcs
<1>s. SumRows \in Sums /\ Ended \subseteq Subs /\ MainRow \in MainRows /\ counted \subseteq Subs
  BY <1>t, SumTyped, MainRowTyped DEF OtherTypeOK
<1>u. ASSUME UNCHANGED vars PROVE TypeOK'
  BY <1>u, <1>t, StutterTyped
<1>o. ASSUME UNCHANGED <<enqueued, apiVars, boundVars>>, counted' \subseteq Subs, cached' \subseteq Subs
      PROVE  OtherTypeOK'
  BY <1>o, <1>t DEF OtherTypeOK, apiVars, boundVars
<1>1. CASE RetryGet(r)
  BY <1>1, <1>t, <1>g, <1>s, <1>u DEF RetryGet, CallTypeOK, RetryTypeOK
<1>2. CASE ListFailedSubs(r) \/ ListFailedUserIDs(r)
  BY <1>2, <1>t, <1>g, <1>u DEF ListFailedSubs, ListFailedUserIDs, CallTypeOK, RetryTypeOK
<1>3. CASE ResetFailedSubTasks(r)
  <2>1. CallTypeOK'
    <3>1. Cardinality(RowsIn("failed")) \in Nat
      BY <1>s DEF SumRows, Sums
    <3> QED BY <1>3, <1>t, <1>g, <3>1 DEF ResetFailedSubTasks, CallTypeOK
  <2>2. SubTypeOK'
    BY <1>3, <1>t DEF ResetFailedSubTasks, SubTypeOK, SubStatus
  <2>3. MainTypeOK' /\ RedisTypeOK' /\ ThreadTypeOK' /\ OtherTypeOK'
    BY <1>3, <1>t, <1>o, MainStutter, RedisStutter, ThreadStutter DEF ResetFailedSubTasks, ghostVars, OtherTypeOK
  <2> QED BY <2>1, <2>2, <2>3 DEF RetryTypeOK, TypeOK
<1>4. CASE CreateRetryShards(r)
  <2>1. CallTypeOK'
    <3>1. CASE extra[r] = {}
      BY <1>4, <1>t, <1>g, <3>1, CallGotoTyped, CallReturnTyped DEF CreateRetryShards
    <3>2. CASE extra[r] # {}
      BY <1>4, <1>t, <1>g, <3>2 DEF CreateRetryShards, CallTypeOK
    <3> QED BY <3>1, <3>2
  <2>2. SubTypeOK'
    BY <1>4, <1>t DEF CreateRetryShards, SubTypeOK, SubStatus
  <2>3. MainTypeOK' /\ RedisTypeOK' /\ ThreadTypeOK' /\ OtherTypeOK'
    BY <1>4, <1>t, <1>o, MainStutter, RedisStutter, ThreadStutter DEF CreateRetryShards, ghostVars, OtherTypeOK
  <2> QED BY <2>1, <2>2, <2>3 DEF RetryTypeOK, TypeOK
<1>5. CASE ClearDelivered(r)
  BY <1>5, <1>t, <1>g, <1>u, CallGotoTyped DEF ClearDelivered, RetryTypeOK
<1>6. CASE ReopenMainTask(r)
  <2>1. CallTypeOK'
    BY <1>6, <1>t, <1>g, CallGotoTyped DEF ReopenMainTask
  <2>2. MainTypeOK'
    BY <1>6, <1>t DEF ReopenMainTask, MainTypeOK, MainStatus, CallTypeOK
  <2>3. SubTypeOK' /\ RedisTypeOK' /\ ThreadTypeOK' /\ OtherTypeOK'
    BY <1>6, <1>t, <1>o, SubStutter, RedisStutter, ThreadStutter DEF ReopenMainTask, ghostVars, OtherTypeOK
  <2> QED BY <2>1, <2>2, <2>3 DEF RetryTypeOK, TypeOK
<1>7. CASE SyncStaleCounters(r) \/ RealignMain(r)
  <2>1. CallTypeOK'
    BY <1>7, <1>t, <1>g, CallGotoTyped DEF SyncStaleCounters, RealignMain
  <2>2. \E done, total \in Nat, users \in Counts : SyncMainCounters(r, done, total, users)
    <3>1. task[r] \in MainRows /\ newSubs[r] \in Nat /\ summary[r] \in Sums
      BY <1>t DEF CallTypeOK
    <3>2. task[r].done \in Nat /\ task[r].total + newSubs[r] \in Nat /\ task[r].users \in Counts
          /\ summary[r].done \in Nat /\ summary[r].total \in Nat
      BY <3>1 DEF MainRows, Sums
    <3> QED BY <1>7, <3>2, OutcomesTyped DEF SyncStaleCounters, RealignMain
  <2>3. MainTypeOK'
    BY <1>7, <1>t, <2>2 DEF SyncStaleCounters, RealignMain, SyncMainCounters, MainTypeOK
  <2>4. OtherTypeOK'
    BY <1>7, <1>t, <1>o, <2>2 DEF SyncStaleCounters, RealignMain, SyncMainCounters, OtherTypeOK, CallTypeOK
  <2>5. SubTypeOK' /\ RedisTypeOK' /\ ThreadTypeOK'
    BY <1>7, <1>t, SubStutter, RedisStutter, ThreadStutter DEF SyncStaleCounters, RealignMain
  <2> QED BY <2>1, <2>3, <2>4, <2>5 DEF RetryTypeOK, TypeOK
<1>8. CASE SummarizeSubTasks(r)
  BY <1>8, <1>t, <1>g, <1>s, <1>u DEF SummarizeSubTasks, CallTypeOK, RetryTypeOK
<1>9. CASE SetSubDone(r)
  <2>1. CallTypeOK'
    BY <1>9, <1>t, CallReturnTyped DEF SetSubDone
  <2>2. RedisTypeOK'
    <3>1. summary[r] \in Sums
      BY <1>t DEF CallTypeOK
    <3> QED BY <1>9, <3>1 DEF SetSubDone, RedisTypeOK, Sums
  <2>3. MainTypeOK' /\ SubTypeOK' /\ ThreadTypeOK' /\ OtherTypeOK'
    BY <1>9, <1>t, <1>o, MainStutter, SubStutter, ThreadStutter DEF SetSubDone, OtherTypeOK, CallTypeOK
  <2> QED BY <2>1, <2>2, <2>3 DEF RetryTypeOK, TypeOK
<1>10. CASE RetryStops(r)
  <2>1. CallTypeOK'
    BY <1>10, <1>t, CallReturnTyped DEF RetryStops
  <2>2. OtherTypeOK'
    BY <1>10, <1>t DEF RetryStops, Fault, OtherTypeOK, apiVars, ghostVars
  <2>3. MainTypeOK' /\ SubTypeOK' /\ RedisTypeOK' /\ ThreadTypeOK'
    BY <1>10, <1>t, MainStutter, SubStutter, RedisStutter, ThreadStutter DEF RetryStops
  <2> QED BY <2>1, <2>2, <2>3 DEF RetryTypeOK, TypeOK
<1> QED BY <1>1, <1>2, <1>3, <1>4, <1>5, <1>6, <1>7, <1>8, <1>9, <1>10 DEF RetryStep

LEMMA RetryNextTyped == RetryTypeOK /\ [RetryNext]_allVars => RetryTypeOK'
<1> SUFFICES ASSUME RetryTypeOK, [RetryNext]_allVars PROVE RetryTypeOK'
  OBVIOUS
<1>1. CASE Next /\ UNCHANGED callVars
  BY <1>1, NextTyped DEF RetryTypeOK, CallTypeOK, callVars
<1>2. CASE UNCHANGED <<vars, callVars>>
  BY <1>2, NextTyped DEF RetryTypeOK, CallTypeOK, callVars
<1> QED BY <1>1, <1>2, RetryStepTyped DEF RetryNext, PushUser, allVars, retryVars

-----------------------------------------------------------------------------
(* Only a cancellation writes the status cancelled, and it is for good.      *)
CancelledInv ==
  mainStatus # "cancelled" =>
    /\ cancelPc = "no"
    /\ \A s \in Subs : subStatus[s] # "cancelled"
    /\ \A w \in Workers : pc[w] # "cancelSub"

(* What a step has to leave alone *)
NoneCancelled ==
  /\ mainStatus = "cancelled" <=> mainStatus' = "cancelled"
  /\ cancelPc = "no" => cancelPc' = "no"
  /\ \A s \in Subs : subStatus'[s] = "cancelled" => subStatus[s] = "cancelled"
  /\ \A w \in Workers : pc'[w] = "cancelSub" => pc[w] = "cancelSub"

LEMMA MoveCancelsNothing ==
  ASSUME TypeOK, NEW t \in Threads,
         \/ Return(t) \/ AggError(t) \/ pc' = pc
         \/ \E l \in Pcs \ {"cancelSub"} : pc' = [pc EXCEPT ![t] = l]
  PROVE  \A w \in Workers : pc'[w] = "cancelSub" => pc[w] = "cancelSub"
BY DEF Return, AggError, TypeOK, ThreadTypeOK, Threads

LEMMA WorkerCancelsNothing ==
  ASSUME TypeOK, CancelledInv, mainStatus # "cancelled", NEW w \in Workers, WorkerStep(w) \/ ErrorStep(w)
  PROVE  NoneCancelled
<1>w. /\ w \in Threads /\ subStatus \in [Subs -> SubStatus] /\ pc \in [Threads -> Pcs]
      /\ pc[w] # "idle" => held[w] \in Subs
  BY DEF Threads, TypeOK, SubTypeOK, ThreadTypeOK
<1>m. UNCHANGED <<mainStatus, cancelPc>>
  BY DEF WorkerStep, ErrorStep, ClaimSubTask, Gate, CancelSub, ReleaseSubTask, Publish, PublishFails, RenewClaim,
     WriteSuccess, WriteFailure, FinishExpired, Settle, AggRead, AggMark, AggCount, AggRedis,
     ClaimLoopDbError, AggDbError, AggRedisError, mainVars, apiVars
<1>1. \A s \in Subs : subStatus'[s] = "cancelled" => subStatus[s] = "cancelled"
  <2>1. ~CancelSub(w)
    BY DEF CancelSub, CancelledInv
  <2>2. ASSUME WriteSuccess(w) \/ WriteFailure(w) \/ FinishExpired(w)
        PROVE  \A s \in Subs : subStatus'[s] = "cancelled" => subStatus[s] = "cancelled"
    BY <1>w, <2>2 DEF WriteSuccess, WriteFailure, FinishExpired, Settle, WriteResult
  <2>3. ASSUME NEW x \in Subs, ClaimSubTask(w, x)
        PROVE  \A s \in Subs : subStatus'[s] = "cancelled" => subStatus[s] = "cancelled"
    BY <1>w, <2>3 DEF ClaimSubTask
  <2>4. ASSUME ReleaseSubTask(w)
        PROVE  \A s \in Subs : subStatus'[s] = "cancelled" => subStatus[s] = "cancelled"
    BY <1>w, <2>4 DEF ReleaseSubTask, subVars
  <2>5. ASSUME \/ Gate(w) \/ Publish(w) \/ PublishFails(w) \/ RenewClaim(w) \/ AggRead(w)
               \/ AggMark(w) \/ AggCount(w) \/ AggRedis(w) \/ ErrorStep(w)
        PROVE  subStatus' = subStatus
    BY <2>5 DEF Gate, Publish, PublishFails, RenewClaim, AggRead, AggMark, AggCount, AggRedis, ErrorStep,
       ClaimLoopDbError, AggDbError, AggRedisError, subVars
  <2> QED BY <2>1, <2>2, <2>3, <2>4, <2>5 DEF WorkerStep
<1>2. \A v \in Workers : pc'[v] = "cancelSub" => pc[v] = "cancelSub"
  <2> DEFINE Moves == \/ Return(w) \/ AggError(w) \/ pc' = pc
                      \/ \E l \in Pcs \ {"cancelSub"} : pc' = [pc EXCEPT ![w] = l]
  <2>p. \A l \in {"gate1", "gate2", "release", "expired", "publish", "result", "fail", "aggRead", "aggMark",
                  "aggCount", "aggRedis", "finRead"} : l \in Pcs \ {"cancelSub"}
    BY DEF Pcs, AggPcs, WorkerPcs
  <2>1. ASSUME (\E s \in Subs : ClaimSubTask(w, s)) \/ Gate(w) PROVE Moves
    BY <2>1, <2>p DEF ClaimSubTask, Gate, Goto
  <2>2. ASSUME CancelSub(w) \/ ReleaseSubTask(w) \/ Publish(w) \/ PublishFails(w) \/ RenewClaim(w) PROVE Moves
    BY <2>2, <2>p DEF CancelSub, ReleaseSubTask, Publish, PublishFails, RenewClaim, Goto, threadVars
  <2>3. ASSUME WriteSuccess(w) \/ WriteFailure(w) \/ FinishExpired(w) PROVE Moves
    BY <2>3, <2>p DEF WriteSuccess, WriteFailure, FinishExpired, Settle
  <2>4. ASSUME AggRead(w) \/ AggMark(w) \/ AggCount(w) \/ AggRedis(w) PROVE Moves
    BY <2>4, <2>p DEF AggRead, AggMark, AggCount, AggRedis, AggDone, Goto
  <2>5. ASSUME ErrorStep(w) PROVE Moves
    BY <2>5, <2>p DEF ErrorStep, ClaimLoopDbError, AggDbError, AggRedisError, AggDone, Goto
  <2>6. Moves
    BY <2>1, <2>2, <2>3, <2>4, <2>5 DEF WorkerStep
  <2> QED BY <1>w, <2>6, MoveCancelsNothing
<1> QED BY <1>m, <1>1, <1>2 DEF NoneCancelled

LEMMA PipelineCancels ==
  ASSUME TypeOK, CancelledInv, [Next]_vars
  PROVE  CancelledInv' /\ (mainStatus = "cancelled" => mainStatus' = "cancelled")
<1>k. ASSUME NoneCancelled PROVE CancelledInv'
  BY <1>k DEF CancelledInv, NoneCancelled
<1>s. mainStatus = "cancelled" => mainStatus' = "cancelled"
  <2> USE DEF mainVars
  <2>1. ASSUME NEW w \in Workers, WorkerStep(w) \/ ErrorStep(w) PROVE mainStatus' = mainStatus
    BY <2>1 DEF WorkerStep, ErrorStep, ClaimSubTask, Gate, CancelSub, ReleaseSubTask, Publish, PublishFails,
       RenewClaim, WriteSuccess, WriteFailure, FinishExpired, Settle, AggRead, AggMark, AggCount, AggRedis,
       ClaimLoopDbError, AggDbError, AggRedisError
  <2>2. ASSUME NEW t \in Threads, FinalizeStep(t) \/ FinError(t) \/ Crash(t)
        PROVE  mainStatus = "cancelled" => mainStatus' = mainStatus
    BY <2>2 DEF FinalizeStep, FinRead, Cas, CasMatches, Terminal, Reget, Notify, FinError, Crash
  <2>3. ASSUME NEW r \in Reapers, ReaperStep(r) PROVE mainStatus' = mainStatus
    BY <2>3 DEF ReaperStep, ReapList, ReapGet
  <2>4. CASE ApiStep \/ EnvStep \/ UNCHANGED vars
    BY <2>4 DEF ApiStep, Pause, Resume, CancelMain, CancelSubs, CancelStops, EnvStep, ClaimTimeout,
       CampaignExpires, SyncUserCounts, RedisLoss, vars
  <2> QED BY <2>1, <2>2, <2>3, <2>4 DEF Next
<1>1. CASE mainStatus = "cancelled"
  BY <1>1, <1>s DEF CancelledInv
<1>2. CASE mainStatus # "cancelled"
  <2>1. ASSUME NEW w \in Workers, WorkerStep(w) \/ ErrorStep(w) PROVE CancelledInv'
    BY <1>2, <1>k, <2>1, WorkerCancelsNothing
  <2>2. ASSUME NEW t \in Threads, FinalizeStep(t) \/ FinError(t) \/ Crash(t) PROVE CancelledInv'
    <3>1. \/ Return(t) \/ AggError(t) \/ \E l \in Pcs \ {"cancelSub"} : pc' = [pc EXCEPT ![t] = l]
      <4>1. "cas1" \in Pcs \ {"cancelSub"} /\ "cas2" \in Pcs \ {"cancelSub"}
            /\ "reget" \in Pcs \ {"cancelSub"} /\ "notify" \in Pcs \ {"cancelSub"}
        BY DEF Pcs, CasPcs
      <4> QED BY <2>2, <4>1 DEF FinalizeStep, FinRead, Cas, Reget, Notify, FinError, Crash, Goto
    <3>2. UNCHANGED <<cancelPc, subStatus>>
      BY <2>2 DEF FinalizeStep, FinRead, Cas, Reget, Notify, FinError, Crash, apiVars, subVars
    <3>3. \A w \in Workers : pc'[w] = "cancelSub" => pc[w] = "cancelSub"
      BY <3>1, MoveCancelsNothing
    <3> QED BY <1>2, <3>2, <3>3 DEF CancelledInv
  <2>3. ASSUME NEW r \in Reapers, ReaperStep(r) PROVE CancelledInv'
    <3>1. r \in Threads /\ (Return(r) \/ \E l \in Pcs \ {"cancelSub"} : pc' = [pc EXCEPT ![r] = l])
      <4>1. "reapGet" \in Pcs \ {"cancelSub"} /\ "finRead" \in Pcs \ {"cancelSub"}
        BY DEF Pcs
      <4> QED BY <2>3, <4>1 DEF ReaperStep, ReapList, ReapGet, Goto, Threads
    <3>2. UNCHANGED <<cancelPc, subStatus>>
      BY <2>3 DEF ReaperStep, ReapList, ReapGet, apiVars, subVars
    <3>3. \A w \in Workers : pc'[w] = "cancelSub" => pc[w] = "cancelSub"
      BY <3>1, MoveCancelsNothing
    <3> QED BY <1>2, <3>2, <3>3 DEF CancelledInv
  <2>4. CASE ApiStep
    <3>1. ~CancelSubs /\ ~CancelStops
      BY <1>2 DEF CancelSubs, CancelStops, CancelledInv
    <3>2. CASE CancelMain
      BY <3>2 DEF CancelMain, CancelledInv
    <3>3. CASE Pause \/ Resume
      BY <1>2, <3>3 DEF Pause, Resume, CancelledInv, threadVars, apiVars, subVars
    <3> QED BY <2>4, <3>1, <3>2, <3>3 DEF ApiStep
  <2>5. CASE EnvStep \/ UNCHANGED vars
    <3>1. UNCHANGED <<cancelPc, subStatus, pc>>
      BY <2>5 DEF EnvStep, ClaimTimeout, CampaignExpires, SyncUserCounts, RedisLoss, vars, threadVars, apiVars, subVars
    <3> QED BY <1>2, <3>1 DEF CancelledInv
  <2> QED BY <1>s, <2>1, <2>2, <2>3, <2>4, <2>5 DEF Next
<1> QED BY <1>1, <1>2, <1>s

LEMMA CallCancels ==
  ASSUME TypeOK, CancelledInv, NEW r \in Retriers, RetryStep(r) \/ RetryStops(r)
  PROVE  CancelledInv' /\ (mainStatus = "cancelled" => mainStatus' = "cancelled")
<1>1. UNCHANGED <<cancelPc, pc>>
  BY DEF RetryStep, RetryGet, ListFailedSubs, ListFailedUserIDs, ResetFailedSubTasks, CreateRetryShards, ClearDelivered,
     ReopenMainTask, SyncStaleCounters, SummarizeSubTasks, RealignMain, SetSubDone, RetryStops,
     vars, threadVars, apiVars
<1>2. \A s \in Subs : subStatus'[s] = "cancelled" => subStatus[s] = "cancelled"
  <2>1. CASE ResetFailedSubTasks(r)
    BY <2>1 DEF ResetFailedSubTasks
  <2>2. CASE CreateRetryShards(r)
    BY <2>2 DEF CreateRetryShards, TypeOK, SubTypeOK
  <2>3. CASE ~ResetFailedSubTasks(r) /\ ~CreateRetryShards(r)
    BY <2>3 DEF RetryStep, RetryGet, ListFailedSubs, ListFailedUserIDs, ClearDelivered,
       ReopenMainTask, SyncStaleCounters, SummarizeSubTasks, RealignMain, SetSubDone, RetryStops, vars, subVars
  <2> QED BY <2>1, <2>2, <2>3
<1>3. mainStatus = "cancelled" <=> mainStatus' = "cancelled"
  <2>1. CASE ReopenMainTask(r)
    BY <2>1 DEF ReopenMainTask
  <2>2. CASE ~ReopenMainTask(r)
    BY <2>2 DEF RetryStep, RetryGet, ListFailedSubs, ListFailedUserIDs, ResetFailedSubTasks, CreateRetryShards,
       ClearDelivered, SyncStaleCounters, SummarizeSubTasks, RealignMain, SetSubDone, RetryStops, vars, mainVars
  <2> QED BY <2>1, <2>2
<1> QED BY <1>1, <1>2, <1>3 DEF CancelledInv

-----------------------------------------------------------------------------
(* A call that is left alone.  Before it resets anything the counts are      *)
(* right; from then on nobody uses them, and what it sums stays true until   *)
(* it has written it, because only it touches rows and counters.             *)
AllIdle == \A t \in Threads : pc[t] = "idle"

Stage(r) ==
  /\ retryPc[r] # "syncStale"
  /\ retryPc[r] \in {"listSubs", "listUsers", "reset", "create", "clear", "reopen"} =>
       mainStatus \in {"failed", "partial"}
  /\ \/ retryPc[r] \in {"listSubs", "listUsers", "reset"}
     \/ retryPc[r] = "create" /\ resets[r] = 0
     => CountInv
  /\ retryPc[r] \in {"summarize", "sync", "setRedis"} => mainStatus \in {"running", "paused"}
  /\ retryPc[r] \in {"sync", "setRedis"} => summary[r] = SumRows /\ summed[r] = Finished
  /\ retryPc[r] = "setRedis" => /\ subTaskDone = summary[r].done /\ subTaskTotal = summary[r].total
                                /\ counted = summed[r]

OthersIdle(r) == \A q \in Retriers \ {r} : retryPc[q] = "idle"

Calm ==
  /\ (\A r \in Retriers : retryPc[r] = "idle") => CountInv
  /\ \A r \in Retriers : retryPc[r] # "idle" => AllIdle /\ OthersIdle(r) /\ Stage(r)

RetryInv == CancelledInv /\ (disturbed \/ mainStatus = "cancelled" \/ Calm)

(* The variables that the counting is about                                  *)
countingVars == <<mainStatus, subTaskDone, subTaskTotal, subStatus, redisDone, pc, held, snap, counted, cached>>

LEMMA CountSame == CountInv /\ UNCHANGED countingVars => CountInv'
BY DEF countingVars, CountInv, Counting, Tickets, Snapshots, Closing, Finished, Rows

LEMMA SumSame == UNCHANGED subStatus => SumRows' = SumRows /\ Finished' = Finished /\ Ended' = Ended
BY DEF SumRows, Finished, Ended, RowsIn, Rows

(* While no thread is at work a step of the pipeline that is no fault and no *)
(* cancellation leaves rows and counters alone.                              *)
LEMMA IdleStep ==
  ASSUME TypeOK, CancelledInv, mainStatus # "cancelled", mainStatus' # "cancelled",
         [Next]_vars, AllIdle, AllIdle', ~(faults' > faults)
  PROVE  /\ UNCHANGED <<subTaskDone, subTaskTotal, subStatus, counted>>
         /\ \/ mainStatus' = mainStatus
            \/ mainStatus \in {"running", "paused"} /\ mainStatus' \in {"running", "paused"}
<1>t. faults \in Nat /\ pc \in [Threads -> Pcs] /\ (\A w \in Workers : w \in Threads) /\ (\A r \in Reapers : r \in Threads)
  BY DEF TypeOK, OtherTypeOK, ThreadTypeOK, Threads
<1>f. \A kind : ~Fault(kind)
  BY <1>t DEF Fault
<1>1. ASSUME NEW w \in Workers, WorkerStep(w) \/ ErrorStep(w) PROVE FALSE
  <2>1. pc[w] = "idle" /\ pc'[w] = "idle"
    BY <1>t DEF AllIdle
  <2>2. ASSUME NEW s \in Subs, ClaimSubTask(w, s) PROVE FALSE
    BY <1>t, <2>1, <2>2 DEF ClaimSubTask
  <2> QED BY <1>1, <1>f, <2>1, <2>2 DEF WorkerStep, ErrorStep, Gate, CancelSub, ReleaseSubTask, Publish, PublishFails,
      RenewClaim, WriteSuccess, WriteFailure, FinishExpired, AggRead, AggMark, AggCount, AggRedis,
      ClaimLoopDbError, AggDbError, AggRedisError
<1>2. ASSUME NEW t \in Threads, FinalizeStep(t) \/ FinError(t) \/ Crash(t) PROVE FALSE
  BY <1>2 DEF AllIdle, FinalizeStep, FinRead, Cas, Reget, Notify, FinError, CasPcs, Crash
<1>3. ASSUME NEW r \in Reapers, ReaperStep(r) PROVE FALSE
  <2>1. pc[r] = "idle" /\ pc'[r] = "idle"
    BY <1>t DEF AllIdle
  <2> QED BY <1>3, <1>t, <2>1 DEF ReaperStep, ReapList, ReapGet, Goto
<1>4. CASE ApiStep
  <2>1. ~CancelMain /\ ~CancelSubs /\ ~CancelStops
    BY DEF CancelMain, CancelSubs, CancelStops, CancelledInv
  <2> QED BY <1>4, <2>1 DEF ApiStep, Pause, Resume, subVars, ghostVars
<1>5. CASE EnvStep \/ UNCHANGED vars
  BY <1>5, <1>f DEF EnvStep, ClaimTimeout, CampaignExpires, SyncUserCounts, RedisLoss, vars, mainVars, subVars, ghostVars
<1> QED BY <1>1, <1>2, <1>3, <1>4, <1>5 DEF Next

(* The calls that are under way after a step that disturbs nothing           *)
LEMMA Undisturbed ==
  ASSUME RetryNext, ~disturbed'
  PROVE  /\ ~disturbed
         /\ \A r \in Retriers : retryPc'[r] # "idle" => AllIdle' /\ OthersIdle(r)'
         /\ \A r \in Retriers : retryPc[r] # "idle" => ~(faults' > faults)
BY DEF RetryNext, Overlap, AllIdle, OthersIdle

LEMMA PipelineCalm ==
  ASSUME RetryTypeOK, RetryTypeOK', CancelledInv, Calm, mainStatus # "cancelled", mainStatus' # "cancelled",
         [Next]_vars, UNCHANGED callVars, RetryNext \/ UNCHANGED vars, ~disturbed'
  PROVE  Calm'
<1>t. TypeOK /\ TypeOK'
  BY DEF RetryTypeOK
<1>p. UNCHANGED <<retryPc, resets, summary, summed>>
  BY DEF callVars
<1>c. CountInv => CountInv'
  BY <1>t, NextCount
<1>1. (\A r \in Retriers : retryPc'[r] = "idle") => CountInv'
  BY <1>p, <1>c DEF Calm
<1>2. ASSUME NEW r \in Retriers, retryPc'[r] # "idle"
      PROVE  AllIdle' /\ OthersIdle(r)' /\ Stage(r)'
  <2>1. AllIdle /\ OthersIdle(r) /\ Stage(r)
    BY <1>2, <1>p DEF Calm
  <2>2. AllIdle' /\ ~(faults' > faults)
    <3>1. CASE RetryNext
      BY <3>1, <1>2, <1>p, Undisturbed
    <3>2. CASE UNCHANGED vars
      BY <3>2, <1>t, <2>1 DEF vars, threadVars, boundVars, AllIdle, TypeOK, OtherTypeOK
    <3> QED BY <3>1, <3>2
  <2>3. OthersIdle(r)'
    BY <1>p, <2>1 DEF OthersIdle
  <2>4. /\ UNCHANGED <<subTaskDone, subTaskTotal, subStatus, counted>>
        /\ \/ mainStatus' = mainStatus
           \/ mainStatus \in {"running", "paused"} /\ mainStatus' \in {"running", "paused"}
    BY <1>t, <2>1, <2>2, IdleStep
  <2>5. SumRows' = SumRows /\ Finished' = Finished
    BY <2>4, SumSame
  <2>6. Stage(r)'
    BY <1>p, <1>c, <2>1, <2>4, <2>5 DEF Stage
  <2> QED BY <2>2, <2>3, <2>6
<1> QED BY <1>1, <1>2 DEF Calm

LEMMA CallCalm ==
  ASSUME RetryTypeOK, RetryTypeOK', CancelledInv, Calm, mainStatus # "cancelled",
         RetryNext, ~disturbed', NEW r \in Retriers, RetryStep(r)
  PROVE  Calm'
<1>t. /\ TypeOK /\ TypeOK' /\ retryPc \in [Retriers -> RetryPcs] /\ resets \in [Retriers -> Nat]
      /\ summary \in [Retriers -> Sums] /\ summed \in [Retriers -> SUBSET Subs]
  BY DEF RetryTypeOK, CallTypeOK
<1>a. \A q \in Retriers : retryPc'[q] # "idle" => AllIdle' /\ OthersIdle(q)'
  BY Undisturbed
<1>b. \A q \in Retriers \ {r} : retryPc'[q] = retryPc[q]
  BY <1>t DEF RetryStep, RetryGet, ListFailedSubs, ListFailedUserIDs, ResetFailedSubTasks, CreateRetryShards,
     ClearDelivered, ReopenMainTask, SyncStaleCounters, SummarizeSubTasks, RealignMain, SetSubDone,
     RetryGoto, RetryReturn
<1>s. retryPc[r] # "idle" => AllIdle /\ OthersIdle(r) /\ Stage(r)
  BY DEF Calm
(* The others are idle before and after, so the call's own stage decides.    *)
<1>o. \A q \in Retriers \ {r} : retryPc'[q] = "idle"
  <2>1. CASE retryPc[r] # "idle"
    BY <1>b, <1>s, <2>1 DEF OthersIdle
  <2>2. CASE retryPc[r] = "idle"
    <3>1. RetryGet(r)
      BY <2>2 DEF RetryStep, RetryGet, ListFailedSubs, ListFailedUserIDs, ResetFailedSubTasks, CreateRetryShards,
         ClearDelivered, ReopenMainTask, SyncStaleCounters, SummarizeSubTasks, RealignMain, SetSubDone
    <3>2. retryPc'[r] # "idle"
      BY <1>t, <3>1 DEF RetryGet
    <3> QED BY <1>a, <3>2 DEF OthersIdle
  <2> QED BY <2>1, <2>2
<1>n. ASSUME retryPc'[r] # "idle", Stage(r)' PROVE Calm'
  BY <1>a, <1>n, <1>o DEF Calm
<1>i. ASSUME retryPc'[r] = "idle", CountInv' PROVE Calm'
  BY <1>i, <1>o DEF Calm
<1>u. ASSUME UNCHANGED vars, CountInv PROVE CountInv'
  BY <1>u, CountSame DEF vars, countingVars, mainVars, subVars, redisVars, threadVars, ghostVars
<1>e. Ended = Finished
  BY <1>t DEF CancelledInv, Ended, Finished, RowsIn
<1>1. CASE RetryGet(r)
  <2>1. \A q \in Retriers : retryPc[q] = "idle"
    <3>1. retryPc[r] = "idle"
      BY <1>1 DEF RetryGet
    <3> QED BY <1>b, <1>o, <3>1
  <2>2. CountInv'
    BY <1>1, <1>u, <2>1 DEF RetryGet, Calm
  <2>3. retryPc'[r] = "listSubs" /\ mainStatus' \in {"failed", "partial"}
    BY <1>1, <1>t DEF RetryGet, vars, mainVars
  <2> QED BY <1>n, <2>2, <2>3 DEF Stage
<1>2. CASE ListFailedSubs(r) \/ ListFailedUserIDs(r)
  <2>1. retryPc'[r] \in {"listUsers", "reset"} /\ mainStatus' = mainStatus /\ retryPc[r] \in {"listSubs", "listUsers"}
    BY <1>2, <1>t DEF ListFailedSubs, ListFailedUserIDs, vars, mainVars
  <2>2. CountInv'
    BY <1>2, <1>s, <1>u, <2>1 DEF ListFailedSubs, ListFailedUserIDs, Stage
  <2> QED BY <1>n, <1>s, <2>1, <2>2 DEF Stage
<1>3. CASE ResetFailedSubTasks(r)
  <2>1. retryPc[r] = "reset" /\ retryPc'[r] = "create" /\ mainStatus' = mainStatus
        /\ resets'[r] = Cardinality(RowsIn("failed"))
    BY <1>3, <1>t DEF ResetFailedSubTasks, mainVars
  <2>2. ASSUME resets'[r] = 0 PROVE CountInv'
    <3>1. IsFiniteSet(RowsIn("failed"))
      BY SubsAssumption, FS_Subset DEF RowsIn
    <3>2. RowsIn("failed") = {}
      BY <2>1, <2>2, <3>1, FS_EmptySet
    <3>3. subStatus' = subStatus
      BY <1>3, <1>t, <3>2 DEF ResetFailedSubTasks, RowsIn, TypeOK, SubTypeOK
    <3>4. UNCHANGED countingVars
      BY <1>3, <3>3 DEF ResetFailedSubTasks, countingVars, mainVars, redisVars, threadVars, ghostVars
    <3> QED BY <1>s, <2>1, <3>4, CountSame DEF Stage
  <2> QED BY <1>n, <1>s, <2>1, <2>2 DEF Stage
<1>4. CASE CreateRetryShards(r)
  <2>1. retryPc[r] = "create" /\ mainStatus' = mainStatus /\ mainStatus \in {"failed", "partial"}
    BY <1>4, <1>s DEF CreateRetryShards, mainVars, Stage
  <2>2. CASE extra[r] = {} /\ resets[r] = 0
    <3>1. retryPc'[r] = "idle" /\ UNCHANGED countingVars
      BY <1>4, <1>t, <2>2 DEF CreateRetryShards, RetryReturn, countingVars, mainVars, redisVars, threadVars, ghostVars
    <3>2. CountInv'
      BY <1>s, <2>1, <2>2, <3>1, CountSame DEF Stage
    <3> QED BY <1>i, <3>1, <3>2
  <2>3. CASE ~(extra[r] = {} /\ resets[r] = 0)
    <3>1. retryPc'[r] = "clear"
      BY <1>4, <1>t, <2>3 DEF CreateRetryShards, RetryGoto
    <3> QED BY <1>n, <2>1, <3>1 DEF Stage
  <2> QED BY <2>2, <2>3
<1>5. CASE ClearDelivered(r)
  <2>1. retryPc[r] = "clear" /\ retryPc'[r] = "reopen" /\ mainStatus' = mainStatus
    BY <1>5, <1>t DEF ClearDelivered, RetryGoto, vars, mainVars
  <2> QED BY <1>n, <1>s, <2>1 DEF Stage
<1>6. CASE ReopenMainTask(r)
  <2>1. mainStatus \in {"failed", "partial"}
    BY <1>6, <1>s DEF ReopenMainTask, Stage
  <2>2. retryPc'[r] = "summarize" /\ mainStatus' = "running"
    BY <1>6, <1>t, <2>1 DEF ReopenMainTask, RetryGoto
  <2> QED BY <1>n, <2>2 DEF Stage
<1>7. CASE SyncStaleCounters(r)
  BY <1>7, <1>s DEF SyncStaleCounters, Stage
<1>8. CASE SummarizeSubTasks(r)
  <2>1. /\ retryPc[r] = "summarize" /\ retryPc'[r] = "sync" /\ UNCHANGED <<mainStatus, subStatus>>
        /\ summary'[r] = SumRows /\ summed'[r] = Ended
    BY <1>8, <1>t DEF SummarizeSubTasks, vars, mainVars, subVars
  <2>2. SumRows' = SumRows /\ Finished' = Finished
    BY <2>1, SumSame
  <2> QED BY <1>e, <1>n, <1>s, <2>1, <2>2 DEF Stage
<1>9. CASE RealignMain(r)
  <2>1. /\ retryPc[r] = "sync" /\ retryPc'[r] = "setRedis" /\ UNCHANGED <<mainStatus, subStatus, summary, summed>>
        /\ subTaskDone' = summary[r].done /\ subTaskTotal' = summary[r].total /\ counted' = summed[r]
    BY <1>9, <1>t DEF RealignMain, RetryGoto, SyncMainCounters, subVars
  <2>2. SumRows' = SumRows /\ Finished' = Finished
    BY <2>1, SumSame
  <2> QED BY <1>n, <1>s, <2>1, <2>2 DEF Stage
<1>10. CASE SetSubDone(r)
  <2>1. /\ retryPc[r] = "setRedis" /\ retryPc'[r] = "idle"
        /\ UNCHANGED <<mainStatus, subStatus, subTaskDone, subTaskTotal, counted, pc>>
        /\ redisDone' = summary[r].done /\ cached' = summed[r]
    BY <1>10, <1>t DEF SetSubDone, RetryReturn, mainVars, subVars, threadVars
  <2>2. /\ mainStatus \in {"running", "paused"} /\ summary[r] = SumRows /\ summed[r] = Finished
        /\ subTaskDone = summary[r].done /\ subTaskTotal = summary[r].total /\ counted = summed[r]
    BY <1>s, <2>1 DEF Stage
  <2>3. Finished' = Finished /\ Rows' = Rows
    BY <2>1 DEF Finished, Rows
  <2>4. Cardinality(Finished) \in Nat /\ SumRows.done = Cardinality(Finished) /\ SumRows.total = Cardinality(Rows)
    <3>1. Finished \subseteq Subs
      BY DEF Finished
    <3> QED BY <1>e, <3>1, SubsAssumption, FS_Subset, FS_CardinalityType DEF SumRows
  <2>5. Counting'
    BY <2>1, <2>2, <2>3, <2>4 DEF Counting
  <2>6. \A t \in Threads : pc'[t] = "idle"
    BY <1>s, <2>1 DEF AllIdle
  <2>7. Tickets' /\ Snapshots' /\ Closing'
    BY <2>1, <2>2, <2>6 DEF Tickets, Snapshots, Closing, Threads, AggPcs, CasPcs, Verdicts
  <2> QED BY <1>i, <2>1, <2>5, <2>7 DEF CountInv
<1> QED BY <1>1, <1>2, <1>3, <1>4, <1>5, <1>6, <1>7, <1>8, <1>9, <1>10 DEF RetryStep

LEMMA RetryInitInv == RetryInit => RetryInv
<1> SUFFICES ASSUME RetryInit PROVE RetryInv
  OBVIOUS
<1>1. setting.rows \in SUBSET Subs /\ InitRows(setting.rows)
  BY SettingsAssumption DEF RetryInit
<1>2. CountInv
  BY <1>1, InitCount
<1>3. Calm
  BY <1>2 DEF RetryInit, Calm
<1>4. CancelledInv
  BY <1>1 DEF InitRows, CancelledInv, Threads
<1> QED BY <1>3, <1>4 DEF RetryInv

LEMMA RetryNextInv == RetryTypeOK /\ RetryTypeOK' /\ RetryInv /\ [RetryNext]_allVars => RetryInv'
<1> SUFFICES ASSUME RetryTypeOK, RetryTypeOK', RetryInv, [RetryNext]_allVars PROVE RetryInv'
  OBVIOUS
<1>t. TypeOK /\ CancelledInv /\ (disturbed \/ mainStatus = "cancelled" \/ Calm)
  BY DEF RetryTypeOK, RetryInv
<1>1. ASSUME [Next]_vars, UNCHANGED callVars, RetryNext \/ UNCHANGED allVars PROVE RetryInv'
  <2>1. CancelledInv' /\ (mainStatus = "cancelled" => mainStatus' = "cancelled")
    BY <1>1, <1>t, PipelineCancels
  <2>2. disturbed => disturbed'
    BY <1>1 DEF RetryNext, allVars, retryVars
  <2>3. ASSUME ~disturbed', mainStatus' # "cancelled" PROVE Calm'
    BY <1>1, <1>t, <2>1, <2>2, <2>3, PipelineCalm DEF allVars
  <2> QED BY <2>1, <2>3 DEF RetryInv
<1>2. ASSUME NEW r \in Retriers, RetryStep(r), RetryNext PROVE RetryInv'
  <2>1. CancelledInv' /\ (mainStatus = "cancelled" => mainStatus' = "cancelled")
    BY <1>2, <1>t, CallCancels
  <2>2. ASSUME ~disturbed', mainStatus' # "cancelled" PROVE Calm'
    BY <1>2, <1>t, <2>1, <2>2, CallCalm, Undisturbed
  <2> QED BY <2>1, <2>2 DEF RetryInv
<1>3. ASSUME NEW r \in Retriers, RetryStops(r), RetryNext PROVE RetryInv'
  <2>1. CancelledInv'
    BY <1>3, <1>t, CallCancels
  <2>2. retryPc[r] # "idle" /\ faults' > faults
    BY <1>3, <1>t DEF RetryStops, Fault, TypeOK, OtherTypeOK
  <2>3. disturbed'
    BY <1>3, <2>2, Undisturbed
  <2> QED BY <2>1, <2>3 DEF RetryInv
<1>4. CASE RetryNext /\ \E s, u \in Subs : PushUser(s, u)
  BY <1>1, <1>4 DEF PushUser
<1>5. CASE UNCHANGED allVars
  BY <1>1, <1>5 DEF allVars, retryVars
<1>6. CASE RetryNext /\ Next /\ UNCHANGED callVars
  BY <1>1, <1>6
<1> QED BY <1>2, <1>3, <1>4, <1>5, <1>6 DEF RetryNext

LEMMA RetryAlways == RetrySpec => [](RetryTypeOK /\ RetryInv)
BY RetryInitTyped, RetryInitInv, RetryNextTyped, RetryNextInv, PTL DEF RetrySpec

-----------------------------------------------------------------------------
(* A Retry that no worker, reaper, fault or other Retry got in the way of    *)
(* leaves sub_task_done, sub_task_total and Redis's count as the pipeline    *)
(* needs them: the numbers of finished and of all rows, the reset and the    *)
(* new ones too, each still to be counted once.                              *)
CountsRealigned ==
  \/ disturbed \/ mainStatus = "cancelled"
  \/ (\A r \in Retriers : retryPc[r] = "idle") => CountInv

THEOREM RetryRealigns == RetrySpec => []CountsRealigned
<1>1. RetryInv => CountsRealigned
  BY DEF RetryInv, CountsRealigned, Calm
<1> QED BY <1>1, RetryAlways, PTL

(* Realigned counters close a retried campaign when every row, reset or new, *)
(* has its result, and not before: a further Retry, a reaper and the workers *)
(* find nothing that an earlier run has left in sub_finished or in Redis.    *)
THEOREM RetriedClosesWhenFinished == RetrySpec => []RealignedClose
<1>1. RetryInv => RealignedClose
  <2>1. CountInv => ClosedWhenAllFinished
    BY DEF CountInv, Counting, Closing, ClosedWhenAllFinished
  <2>2. mainStatus = "cancelled" => ClosedWhenAllFinished
    BY DEF ClosedWhenAllFinished, Verdicts
  <2> QED BY <2>1, <2>2 DEF RetryInv, Calm, RealignedClose, ClosedAfterRetry
<1> QED BY <1>1, RetryAlways, PTL
=============================================================================
