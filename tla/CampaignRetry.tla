---------------------------- MODULE CampaignRetry ----------------------------
(***************************************************************************)
(* Service.Retry (internal/app/campaign/service.go) on top of the shard    *)
(* pipeline: it resets the failed shards of a campaign that ended failed   *)
(* or partial, adds a shard for the users a channel refused, reopens the   *)
(* campaign and recomputes its counters in MySQL and in Redis.  Each of    *)
(* these is a statement of its own; claim loops and reapers run between.   *)
(* A shard carries one user, named after the shard it was first put in.    *)
(***************************************************************************)
EXTENDS SubTaskPipeline

CONSTANTS
  Retriers,    \* API calls of Retry
  Settings     \* bounds: the shards of the split (the rest of Subs are rows Retry may insert),
               \* the reapers, calls and disturbances that take part, the number of calls

ASSUME SettingsAssumption ==
  Settings \subseteq [rows : SUBSET Subs, present : SUBSET (Reapers \cup Retriers \cup Disturbances),
                      calls : Nat]

VARIABLES
  setting,     \* the setting of this behaviour
  retryPc,     \* where each call is
  task,        \* the main task it read first
  listed,      \* the users of the failed shards it listed
  extra,       \* further users whose push failed
  newSubs,     \* the shards it inserted
  resets,      \* how many shards it reset
  summary,     \* SummarizeSubTasks
  summed,      \* history: the shards that the counters it read or summed stand for
  carries,     \* sub_tasks.user_ids
  record,      \* push_records.status of a user
  dedup,       \* Redis dedup keys
  retries,     \* counter for the bound
  reopened,    \* history: reopenings
  disturbed    \* history: did a Retry overlap a worker, a reaper or another Retry, or stop?

callVars  == <<retryPc, task, listed, extra, newSubs, resets, summary, summed>>
userVars  == <<carries, record, dedup>>
countVars == <<retries, reopened>>
retryVars == <<callVars, userVars, countVars, disturbed, setting>>
allVars   == <<vars, retryVars>>

NoSum == [done |-> 0, total |-> 0, succ |-> 0, fail |-> 0]

RetryInit ==
  /\ setting \in Settings /\ InitRows(setting.rows)
  /\ retryPc = [r \in Retriers |-> "idle"] /\ task = [r \in Retriers |-> NoRow]
  /\ listed = [r \in Retriers |-> {}] /\ extra = [r \in Retriers |-> {}]
  /\ newSubs = [r \in Retriers |-> 0] /\ resets = [r \in Retriers |-> 0]
  /\ summary = [r \in Retriers |-> NoSum] /\ summed = [r \in Retriers |-> {}]
  /\ carries = [s \in Subs |-> IF s \in setting.rows THEN {s} ELSE {}]
  /\ record = [u \in Subs |-> "none"] /\ dedup = {}
  /\ retries = 0 /\ reopened = 0 /\ disturbed = FALSE

-----------------------------------------------------------------------------
RetryGoto(r, l) == /\ retryPc' = [retryPc EXCEPT ![r] = l]
                   /\ UNCHANGED <<task, listed, extra, newSubs, resets, summary, summed>>

RetryReturn(r) == /\ retryPc' = [retryPc EXCEPT ![r] = "idle"]
                  /\ task' = [task EXCEPT ![r] = NoRow]
                  /\ listed' = [listed EXCEPT ![r] = {}] /\ extra' = [extra EXCEPT ![r] = {}]
                  /\ newSubs' = [newSubs EXCEPT ![r] = 0] /\ resets' = [resets EXCEPT ![r] = 0]
                  /\ summary' = [summary EXCEPT ![r] = NoSum] /\ summed' = [summed EXCEPT ![r] = {}]

Users(rows) == UNION {carries[s] : s \in rows}
RowsIn(status) == {s \in Subs : subStatus[s] = status}

(* IsRetryable; any other status is answered with InvalidState *)
RetryGet(r) ==
  /\ retryPc[r] = "idle" /\ r \in setting.present /\ retries < setting.calls
  /\ mainStatus \in {"failed", "partial"}
  /\ task' = [task EXCEPT ![r] = MainRow] /\ summed' = [summed EXCEPT ![r] = counted]
  /\ retryPc' = [retryPc EXCEPT ![r] = "listSubs"]
  /\ retries' = retries + 1
  /\ UNCHANGED <<vars, listed, extra, newSubs, resets, summary, userVars, reopened>>

ListFailedSubs(r) ==
  /\ retryPc[r] = "listSubs"
  /\ listed' = [listed EXCEPT ![r] = Users(RowsIn("failed"))]
  /\ retryPc' = [retryPc EXCEPT ![r] = "listUsers"]
  /\ UNCHANGED <<vars, task, extra, newSubs, resets, summary, summed, userVars, countVars>>

ListFailedUserIDs(r) ==
  /\ retryPc[r] = "listUsers"
  /\ extra' = [extra EXCEPT ![r] = {u \in Subs : record[u] = "failed"} \ listed[r]]
  /\ retryPc' = [retryPc EXCEPT ![r] = "reset"]
  /\ UNCHANGED <<vars, task, listed, newSubs, resets, summary, summed, userVars, countVars>>

ResetFailedSubTasks(r) ==
  /\ retryPc[r] = "reset"
  /\ subStatus' = [s \in Subs |-> IF subStatus[s] = "failed" THEN "pending" ELSE subStatus[s]]
  /\ workerId' = [s \in Subs |-> IF subStatus[s] = "failed" THEN NoWorker ELSE workerId[s]]
  /\ stale' = [s \in Subs |-> stale[s] /\ subStatus[s] # "failed"]
  /\ resets' = [resets EXCEPT ![r] = Cardinality(RowsIn("failed"))]
  /\ retryPc' = [retryPc EXCEPT ![r] = "create"]
  /\ UNCHANGED <<mainVars, redisVars, enqueued, threadVars, apiVars, boundVars, ghostVars,
                 task, listed, extra, newSubs, summary, summed, userVars, countVars>>

(* buildRetryShards and CreateSubTasks: the users fit into one batch *)
CreateRetryShards(r) ==
  /\ retryPc[r] = "create"
  /\ IF extra[r] = {}
     THEN /\ IF resets[r] = 0 THEN RetryReturn(r) ELSE RetryGoto(r, "clear")  \* NothingToRetry
          /\ UNCHANGED <<subStatus, carries>>
     ELSE \E n \in Subs :
            /\ subStatus[n] = "none"
            /\ subStatus' = [subStatus EXCEPT ![n] = "pending"]
            /\ carries' = [carries EXCEPT ![n] = extra[r]]
            /\ newSubs' = [newSubs EXCEPT ![r] = 1]
            /\ retryPc' = [retryPc EXCEPT ![r] = "clear"]
            /\ UNCHANGED <<task, listed, extra, resets, summary, summed>>
  /\ UNCHANGED <<mainVars, workerId, stale, redisVars, enqueued, threadVars, apiVars, boundVars,
                 ghostVars, record, dedup, countVars>>

ClearDelivered(r) ==
  /\ retryPc[r] = "clear"
  /\ dedup' = dedup \ (listed[r] \cup extra[r])
  /\ RetryGoto(r, "reopen")
  /\ UNCHANGED <<vars, carries, record, countVars>>

(* ReopenMainTask: WHERE status IN (failed, partial) *)
ReopenMainTask(r) ==
  /\ retryPc[r] = "reopen"
  /\ IF mainStatus \in {"failed", "partial"}
     THEN /\ mainStatus' = "running" /\ version' = version + 1
          /\ subTaskTotal' = subTaskTotal + newSubs[r]
          /\ reopened' = reopened + 1 /\ RetryGoto(r, "summarize")
     ELSE UNCHANGED <<mainStatus, version, subTaskTotal, reopened>> /\ RetryGoto(r, "syncStale")
  /\ UNCHANGED <<subTaskDone, userCounts, expired, subVars, redisVars, enqueued, threadVars,
                 apiVars, boundVars, ghostVars, userVars, retries>>

SyncMainCounters(r, done, total, users) ==
  /\ subTaskDone' = done /\ subTaskTotal' = total /\ userCounts' = users
  /\ version' = version + 1 /\ counted' = summed[r]

(* somebody else reopened it: write back what Get returned *)
SyncStaleCounters(r) ==
  /\ retryPc[r] = "syncStale"
  /\ SyncMainCounters(r, task[r].done, task[r].total + newSubs[r], task[r].users)
  /\ RetryGoto(r, "summarize")
  /\ UNCHANGED <<mainStatus, expired, subVars, redisVars, enqueued, threadVars, apiVars,
                 boundVars, cached, userVars, countVars>>

-----------------------------------------------------------------------------
(* realignCounters *)
SumAllRows ==                                      \* variant: unfinished shards counted too
  [done |-> Cardinality(Rows), total |-> Cardinality(Rows),
   succ |-> Cardinality(RowsIn("success")), fail |-> Cardinality(RowsIn("failed"))]

Ended == RowsIn("success") \cup RowsIn("failed") \cup RowsIn("cancelled")

SumRows ==
  [done  |-> Cardinality(Ended),
   total |-> Cardinality(Rows),
   succ  |-> Cardinality(RowsIn("success")), fail |-> Cardinality(RowsIn("failed"))]

SummarizeSubTasks(r) ==
  /\ retryPc[r] = "summarize"
  /\ summary' = [summary EXCEPT ![r] = SumRows] /\ summed' = [summed EXCEPT ![r] = Ended]
  /\ retryPc' = [retryPc EXCEPT ![r] = "sync"]
  /\ UNCHANGED <<vars, task, listed, extra, newSubs, resets, userVars, countVars>>

(* CountUserOutcomes: the users of push_records, when there are any *)
UserOutcomes(sum) ==
  LET Flag(b) == IF b THEN 1 ELSE 0 IN
  IF \A u \in Subs : record[u] = "none"
  THEN [succ |-> Flag(sum.succ > 0), fail |-> Flag(sum.fail > 0)]
  ELSE [succ |-> Flag(\E u \in Subs : record[u] = "sent"),
        fail |-> Flag(\E u \in Subs : record[u] = "failed")]

RealignMain(r) ==
  /\ retryPc[r] = "sync"
  /\ SyncMainCounters(r, summary[r].done, summary[r].total, UserOutcomes(summary[r]))
  /\ RetryGoto(r, "setRedis")
  /\ UNCHANGED <<mainStatus, expired, subVars, redisVars, enqueued, threadVars, apiVars,
                 boundVars, cached, userVars, countVars>>

SetSubDoneKeepsMarks(r) ==                         \* variant: sub_finished is not deleted
  /\ retryPc[r] = "setRedis"
  /\ redisDone' = summary[r].done /\ redisSucc' = summary[r].succ /\ redisFail' = summary[r].fail
  /\ cached' = summed[r] /\ RetryReturn(r)
  /\ UNCHANGED <<mainVars, subVars, marked, enqueued, threadVars, apiVars, boundVars, counted,
                 userVars, countVars>>

SetSubDone(r) ==
  /\ retryPc[r] = "setRedis"
  /\ redisDone' = summary[r].done /\ redisSucc' = summary[r].succ /\ redisFail' = summary[r].fail
  /\ marked' = {} /\ cached' = summed[r]
  /\ RetryReturn(r)
  /\ UNCHANGED <<mainVars, subVars, enqueued, threadVars, apiVars, boundVars, counted,
                 userVars, countVars>>

(* A statement fails or the API process stops; an error of realignCounters  *)
(* is only logged.                                                          *)
RetryStops(r) ==
  /\ retryPc[r] # "idle" /\ (Fault("dbError") \/ Fault("crash"))
  /\ RetryReturn(r)
  /\ UNCHANGED <<mainVars, subVars, redisVars, enqueued, threadVars, apiVars, pauses, slow,
                 ghostVars, userVars, countVars>>

-----------------------------------------------------------------------------
(* The push gateway: a message of a published shard; a user that was sent,  *)
(* or has a dedup key, is skipped (ClaimDelivery, HasDelivered).            *)
PushUser(s, u) ==
  /\ s \in enqueued /\ u \in carries[s] /\ u \notin dedup /\ record[u] # "sent"
  /\ \/ record' = [record EXCEPT ![u] = "sent"] /\ dedup' = dedup \cup {u}
     \/ record' = [record EXCEPT ![u] = "failed"] /\ UNCHANGED dedup
  /\ UNCHANGED <<vars, callVars, carries, countVars>>

RetryStep(r) ==
  \/ RetryGet(r) \/ ListFailedSubs(r) \/ ListFailedUserIDs(r) \/ ResetFailedSubTasks(r)
  \/ CreateRetryShards(r) \/ ClearDelivered(r) \/ ReopenMainTask(r) \/ SyncStaleCounters(r)
  \/ SummarizeSubTasks(r) \/ RealignMain(r) \/ SetSubDone(r)

(* A call of Retry while a claim loop, a reaper or another call is at work   *)
Overlap == \E r \in Retriers : /\ retryPc[r] # "idle"
                               /\ \/ \E t \in Threads : pc[t] # "idle"
                                  \/ \E q \in Retriers \ {r} : retryPc[q] # "idle"

(* What the setting leaves out takes no step. *)
AllowedStep ==
  /\ \A r \in Reapers \ setting.present : pc'[r] = "idle"
  /\ "cancel" \notin setting.present => cancelPc' = cancelPc
  /\ "dbError" \notin setting.present => faults' = faults

RetryNext ==
  /\ \/ Next /\ UNCHANGED <<callVars, userVars, countVars>>
     \/ \E r \in Retriers : RetryStep(r)
     \/ \E s, u \in Subs : PushUser(s, u)
     \/ \E r \in Retriers : RetryStops(r)
  /\ AllowedStep
  /\ disturbed' = (disturbed \/ Overlap' \/ \E r \in Retriers : retryPc[r] # "idle" /\ faults' > faults)
  /\ UNCHANGED setting

RetrySpec == RetryInit /\ [][RetryNext]_allVars
RetryFairSpec == RetrySpec /\ Fairness /\ \A r \in Retriers : WF_callVars(RetryStep(r))

-----------------------------------------------------------------------------
(* Properties *)

(* Once no Retry is under way, a closed campaign has no unfinished shard:    *)
(* the campaign gets its final status when every shard is in the queue, after *)
(* a retry as before it (docs, 创建活动主流程, states of a campaign).        *)
ClosedAfterRetry == (\A r \in Retriers : retryPc[r] = "idle") => ClosedWhenAllFinished

(* A retried campaign is closed only when every shard, the reset and the new *)
(* ones too, has its result, unless a Retry overlapped a worker, a reaper or *)
(* another Retry or stopped half-way: the counters are right again before    *)
(* anybody uses them.                                                        *)
RealignedClose == disturbed \/ ClosedAfterRetry

(* A campaign whose Retry ran undisturbed closes again: the counters and the *)
(* sub_finished set let every reset shard be counted once more.              *)
RetriedCloses == mainStatus = "running" ~> (mainStatus \in Terminal \/ disturbed \/ faults > 0)
=============================================================================
