-------------------------- MODULE SubTaskPipeline --------------------------
(***************************************************************************)
(* The life of the shards (sub_tasks) of one campaign once it is split:    *)
(* the claim loops of the scheduler workers (internal/scheduler/worker.go) *)
(* claim a shard, check the campaign twice, publish its messages, write    *)
(* the result and aggregate it (internal/scheduler/aggregator.go); the     *)
(* reaper closes a campaign nobody closed; the API pauses, resumes and     *)
(* cancels.  MySQL rows and Redis keys are the shared state; one action is *)
(* one statement on one of them, so everything a worker read before is     *)
(* kept in its local variables and may be stale when it is used.           *)
(***************************************************************************)
EXTENDS Naturals, FiniteSets

CONSTANTS
  Subs,       \* rows of sub_tasks of the campaign
  Workers,    \* claim loops: one goroutine loopClaim(ctx, idx) each
  Reapers,    \* goroutines that run reapFinishedMainTasks
  NoSub,      \* no shard in hand
  NoWorker,   \* worker_id = ''
  Env,        \* the disturbances of the run, a subset of Disturbances
  MaxPauses,  \* bound: pauses of the campaign
  MaxSlow,    \* bound: claims that time out while their worker still works
  MaxFaults   \* bound: crashes, failing calls and losses of Redis keys

Disturbances == {"crash", "dbError", "redisError", "redisLoss", "receipts", "expiry", "cancel"}

ASSUME SubsAssumption == IsFiniteSet(Subs) /\ NoSub \notin Subs
ASSUME WorkersAssumption == Workers \cap Reapers = {} /\ NoWorker \notin Workers
ASSUME BoundsAssumption ==
  /\ Env \subseteq Disturbances
  /\ MaxPauses \in Nat /\ MaxSlow \in Nat /\ MaxFaults \in Nat

VARIABLES
  mainStatus,    \* main_tasks.status
  version,       \* main_tasks.version
  subTaskDone,   \* main_tasks.sub_task_done
  subTaskTotal,  \* main_tasks.sub_task_total
  userCounts,    \* main_tasks.success_count and fail_count: 0 or "some" (1)
  expired,       \* has main_tasks.expire_at passed?
  subStatus,     \* sub_tasks.status; "none" before the row is inserted
  workerId,      \* sub_tasks.worker_id
  stale,         \* has sub_tasks.claimed_at passed the claim timeout?
  marked,        \* Redis SET sub_finished
  redisDone,     \* Redis HASH stats: done
  redisSucc,     \* Redis HASH stats: success, in shards
  redisFail,     \* Redis HASH stats: fail, in shards
  enqueued,      \* shards all of whose messages are in the queue
  pc,            \* where each thread is
  held,          \* the shard a worker works on
  outcome,       \* the result it wrote: argument of OnSubFinished
  snap,          \* the main task as the thread last read it
  verdict,       \* the final status it computed
  cancelPc,      \* Service.Cancel: between its two updates?
  notified,      \* terminal webhooks and inbox messages sent
  pauses, slow, faults,  \* counters for the bounds
  counted,       \* history: shards counted in sub_task_done
  cached         \* history: shards counted in the Redis hash

mainVars   == <<mainStatus, version, subTaskDone, subTaskTotal, userCounts, expired>>
subVars    == <<subStatus, workerId, stale>>
redisVars  == <<marked, redisDone, redisSucc, redisFail>>
threadVars == <<pc, held, outcome, snap, verdict>>
apiVars    == <<cancelPc, notified>>
boundVars  == <<pauses, slow, faults>>
ghostVars  == <<counted, cached>>
vars == <<mainVars, subVars, redisVars, enqueued, threadVars, apiVars, boundVars, ghostVars>>

Threads == Workers \cup Reapers

(* domain/status.go: IsTerminal; pending and retrying do not occur once the split is over *)
Verdicts   == {"success", "partial", "failed"}
Terminal   == Verdicts \cup {"cancelled"}
MainStatus == {"running", "paused"} \cup Terminal
SubStatus  == {"none", "pending", "running", "success", "failed", "cancelled"}
Counts     == [succ : 0..1, fail : 0..1]
MainRows   == [status : MainStatus, version : Nat, done : Nat, total : Nat, users : Counts]

NoRow == [status |-> "running", version |-> 0, done |-> 0, total |-> 0,
          users |-> [succ |-> 0, fail |-> 0]]
(* GetMainTask: the columns the aggregator uses later *)
MainRow == [status |-> mainStatus, version |-> version, done |-> subTaskDone,
            total |-> subTaskTotal, users |-> userCounts]

Rows     == {s \in Subs : subStatus[s] # "none"}
Finished == {s \in Subs : subStatus[s] \in {"success", "failed"}}

AggPcs    == {"aggRead", "aggMark", "aggCount", "aggRedis"}
CasPcs    == {"cas1", "reget", "cas2"}
WorkerPcs == {"gate1", "gate2", "cancelSub", "release", "expired", "publish", "result", "fail"}
Pcs == {"idle", "reapGet", "finRead", "notify"} \cup AggPcs \cup CasPcs \cup WorkerPcs

MainTypeOK ==
  /\ mainStatus \in MainStatus /\ version \in Nat
  /\ subTaskDone \in Nat /\ subTaskTotal \in Nat
  /\ userCounts \in Counts /\ expired \in BOOLEAN
SubTypeOK ==
  /\ subStatus \in [Subs -> SubStatus]
  /\ workerId \in [Subs -> Workers \cup {NoWorker}]
  /\ stale \in [Subs -> BOOLEAN]
RedisTypeOK ==
  /\ marked \subseteq Subs
  /\ redisDone \in Nat /\ redisSucc \in Nat /\ redisFail \in Nat
ThreadTypeOK ==
  /\ pc \in [Threads -> Pcs]
  /\ held \in [Threads -> Subs \cup {NoSub}]
  /\ outcome \in [Threads -> {"none", "success", "failed", "expired"}]
  /\ snap \in [Threads -> MainRows]
  /\ verdict \in [Threads -> Verdicts \cup {"none"}]
  /\ \A w \in Workers : pc[w] # "idle" => held[w] \in Subs
  /\ \A t \in Threads : pc[t] \in CasPcs => verdict[t] \in Verdicts
  /\ \A r \in Reapers : outcome[r] = "none" /\ pc[r] \notin WorkerPcs \cup AggPcs
OtherTypeOK ==
  /\ enqueued \subseteq Subs
  /\ cancelPc \in {"no", "subs", "done"} /\ notified \in Nat
  /\ pauses \in Nat /\ slow \in Nat /\ faults \in Nat
  /\ counted \subseteq Subs /\ cached \subseteq Subs

TypeOK == MainTypeOK /\ SubTypeOK /\ RedisTypeOK /\ ThreadTypeOK /\ OtherTypeOK

-----------------------------------------------------------------------------
(* The state a finished split leaves: every row pending, sub_task_total set, *)
(* the split lease cleared.                                                  *)
InitRows(rows) ==
  /\ mainStatus = "running" /\ version = 0
  /\ subTaskDone = 0 /\ subTaskTotal = Cardinality(rows)
  /\ userCounts = [succ |-> 0, fail |-> 0] /\ expired = FALSE
  /\ subStatus = [s \in Subs |-> IF s \in rows THEN "pending" ELSE "none"]
  /\ workerId = [s \in Subs |-> NoWorker] /\ stale = [s \in Subs |-> FALSE]
  /\ marked = {} /\ redisDone = 0 /\ redisSucc = 0 /\ redisFail = 0
  /\ enqueued = {}
  /\ pc = [t \in Threads |-> "idle"] /\ held = [t \in Threads |-> NoSub]
  /\ outcome = [t \in Threads |-> "none"] /\ snap = [t \in Threads |-> NoRow]
  /\ verdict = [t \in Threads |-> "none"]
  /\ cancelPc = "no" /\ notified = 0
  /\ pauses = 0 /\ slow = 0 /\ faults = 0
  /\ counted = {} /\ cached = {}

Init == InitRows(Subs)

(* The thread moves on, keeping its local variables. *)
Goto(t, l) == /\ pc' = [pc EXCEPT ![t] = l]
              /\ UNCHANGED <<held, outcome, snap, verdict>>

(* The thread goes back to its loop. *)
Return(t) == /\ pc' = [pc EXCEPT ![t] = "idle"]
             /\ held' = [held EXCEPT ![t] = NoSub]
             /\ outcome' = [outcome EXCEPT ![t] = "none"]
             /\ snap' = [snap EXCEPT ![t] = NoRow]
             /\ verdict' = [verdict EXCEPT ![t] = "none"]

(* OnSubFinished returns an error: processSubTask hands it to loopClaim, which *)
(* tries to write a failed result; loopClaim's own call and the reaper drop it. *)
AggError(t) ==
  IF outcome[t] \in {"success", "expired"}
  THEN /\ pc' = [pc EXCEPT ![t] = "fail"]
       /\ snap' = [snap EXCEPT ![t] = NoRow]
       /\ verdict' = [verdict EXCEPT ![t] = "none"]
       /\ UNCHANGED <<held, outcome>>
  ELSE Return(t)

Fault(kind) == kind \in Env /\ faults < MaxFaults /\ faults' = faults + 1

(* WHERE id = ? AND worker_id = ? AND status IN (running, retrying) *)
Owns(w) == subStatus[held[w]] = "running" /\ workerId[held[w]] = w

(* UpdateSubTaskResult: the row keeps worker_id and claimed_at *)
WriteResult(w, status) ==
  subStatus' = [subStatus EXCEPT ![held[w]] = IF Owns(w) THEN status ELSE @]

-----------------------------------------------------------------------------
(* The claim loop.  FOR UPDATE SKIP LOCKED takes the first row that no other *)
(* transaction has locked: any claimable row.                                *)
ClaimableByTime(s) == subStatus[s] = "pending" \/ stale[s]        \* variant: status not tested
ClaimableOnce(s) == subStatus[s] = "pending"                      \* variant: no takeover

Claimable(s) == \/ subStatus[s] = "pending"
                \/ subStatus[s] = "running" /\ stale[s]

ClaimSubTask(w, s) ==
  /\ pc[w] = "idle" /\ mainStatus = "running" /\ Claimable(s)
  /\ subStatus' = [subStatus EXCEPT ![s] = "running"]
  /\ workerId' = [workerId EXCEPT ![s] = w]
  /\ stale' = [stale EXCEPT ![s] = FALSE]
  /\ pc' = [pc EXCEPT ![w] = "gate1"]
  /\ held' = [held EXCEPT ![w] = s]
  /\ UNCHANGED <<mainVars, redisVars, enqueued, outcome, snap, verdict, apiVars,
                 boundVars, ghostVars>>

(* The two reads of the main task in processSubTask, before and after the *)
(* messages are built.                                                    *)
Gate(w) ==
  /\ pc[w] \in {"gate1", "gate2"}
  /\ Goto(w, CASE mainStatus = "cancelled" -> "cancelSub"
               [] mainStatus = "paused" -> "release"
               [] mainStatus \notin {"cancelled", "paused"} /\ expired -> "expired"
               [] OTHER -> IF pc[w] = "gate1" THEN "gate2" ELSE "publish")
  /\ UNCHANGED <<mainVars, subVars, redisVars, enqueued, apiVars, boundVars, ghostVars>>

CancelSub(w) ==
  /\ pc[w] = "cancelSub"
  /\ WriteResult(w, "cancelled")
  /\ Return(w)
  /\ UNCHANGED <<mainVars, workerId, stale, redisVars, enqueued, apiVars, boundVars, ghostVars>>

(* ReleaseSubTask: WHERE id = ? AND status = running, whoever holds the claim *)
ReleaseSubTask(w) ==
  /\ pc[w] = "release"
  /\ IF subStatus[held[w]] = "running"
     THEN /\ subStatus' = [subStatus EXCEPT ![held[w]] = "pending"]
          /\ workerId' = [workerId EXCEPT ![held[w]] = NoWorker]
          /\ stale' = [stale EXCEPT ![held[w]] = FALSE]
     ELSE UNCHANGED subVars
  /\ Return(w)
  /\ UNCHANGED <<mainVars, redisVars, enqueued, apiVars, boundVars, ghostVars>>

(* publishMsgs: every message is in the queue, or the call fails part-way; *)
(* a paced one renews its claim now and then and stops when it lost it.    *)
Publish(w) ==
  /\ pc[w] = "publish"
  /\ enqueued' = enqueued \cup {held[w]}
  /\ Goto(w, "result")
  /\ UNCHANGED <<mainVars, subVars, redisVars, apiVars, boundVars, ghostVars>>

PublishErrorIgnored(w) ==                                          \* variant
  /\ pc[w] = "publish"
  /\ Goto(w, "result")
  /\ UNCHANGED <<mainVars, subVars, redisVars, enqueued, apiVars, boundVars, ghostVars>>

PublishFails(w) ==
  /\ pc[w] = "publish"
  /\ Goto(w, "fail")
  /\ UNCHANGED <<mainVars, subVars, redisVars, enqueued, apiVars, boundVars, ghostVars>>

RenewClaim(w) ==
  /\ pc[w] = "publish"
  /\ IF Owns(w)
     THEN stale' = [stale EXCEPT ![held[w]] = FALSE] /\ UNCHANGED threadVars
     ELSE Return(w) /\ UNCHANGED stale
  /\ UNCHANGED <<mainVars, subStatus, workerId, redisVars, enqueued, apiVars, boundVars, ghostVars>>

(* Variant: the result of UpdateSubTaskResult is ignored. *)
SettleUnchecked(w, status, result) ==
  /\ WriteResult(w, status)
  /\ pc' = [pc EXCEPT ![w] = "aggRead"]
  /\ outcome' = [outcome EXCEPT ![w] = result]
  /\ UNCHANGED <<held, snap, verdict>>
  /\ UNCHANGED <<mainVars, workerId, stale, redisVars, enqueued, apiVars, boundVars, ghostVars>>

(* Write a result; only a worker that still owns the claim aggregates it. *)
Settle(w, status, result) ==
  /\ WriteResult(w, status)
  /\ IF Owns(w)
     THEN /\ pc' = [pc EXCEPT ![w] = "aggRead"]
          /\ outcome' = [outcome EXCEPT ![w] = result]
          /\ UNCHANGED <<held, snap, verdict>>
     ELSE Return(w)
  /\ UNCHANGED <<mainVars, workerId, stale, redisVars, enqueued, apiVars, boundVars, ghostVars>>

WriteSuccess(w)  == pc[w] = "result"  /\ Settle(w, "success", "success")
WriteFailure(w)  == pc[w] = "fail"    /\ Settle(w, "failed", "failed")
FinishExpired(w) == pc[w] = "expired" /\ Settle(w, "failed", "expired")

(* A statement of the claim loop fails and changes nothing. *)
ClaimLoopDbError(w) ==
  /\ Fault("dbError")
  /\ \/ pc[w] \in {"gate1", "gate2", "expired", "publish", "result"} /\ Goto(w, "fail")
     \/ pc[w] \in {"cancelSub", "release", "fail"} /\ Return(w)
  /\ UNCHANGED <<mainVars, subVars, redisVars, enqueued, apiVars, pauses, slow, ghostVars>>

-----------------------------------------------------------------------------
(* Aggregator.OnSubFinished *)
AggRead(w) ==
  /\ pc[w] = "aggRead"
  /\ snap' = [snap EXCEPT ![w] = MainRow]
  /\ pc' = [pc EXCEPT ![w] = "aggMark"]
  /\ UNCHANGED <<mainVars, subVars, redisVars, enqueued, held, outcome, verdict, apiVars,
                 boundVars, ghostVars>>

(* TryMarkSubFinished *)
AggMark(w) ==
  /\ pc[w] = "aggMark"
  /\ marked' = marked \cup {held[w]}
  /\ IF held[w] \in marked \/ snap[w].status \in Terminal
     THEN Return(w)
     ELSE Goto(w, "aggCount")
  /\ UNCHANGED <<mainVars, subVars, redisDone, redisSucc, redisFail, enqueued, apiVars,
                 boundVars, ghostVars>>

(* UpdateMainTaskStats(main.ID, main.Version, 0, 0, 1, main.Status): a status  *)
(* that is not terminal is only written over pending, running and retrying.    *)
AggCount(w) ==
  /\ pc[w] = "aggCount"
  /\ subTaskDone' = subTaskDone + 1
  /\ counted' = counted \cup {held[w]}
  /\ Goto(w, "aggRedis")
  /\ UNCHANGED <<mainStatus, version, subTaskTotal, userCounts, expired, subVars, redisVars,
                 enqueued, apiVars, boundVars, cached>>

(* done := main.SubTaskDone + 1, or Redis's count when that is larger *)
AggDone(w, d) ==
  IF snap[w].status = "paused"
  THEN Return(w)
  ELSE /\ snap' = [snap EXCEPT ![w].done = d]
       /\ pc' = [pc EXCEPT ![w] = "finRead"]
       /\ UNCHANGED <<held, outcome, verdict>>

(* IncrSubDone *)
AggRedis(w) ==
  /\ pc[w] = "aggRedis"
  /\ redisDone' = redisDone + 1
  /\ redisSucc' = IF outcome[w] = "success" THEN redisSucc + 1 ELSE redisSucc
  /\ redisFail' = IF outcome[w] = "success" THEN redisFail ELSE redisFail + 1
  /\ cached' = cached \cup {held[w]}
  /\ AggDone(w, IF redisDone > snap[w].done THEN redisDone + 1 ELSE snap[w].done + 1)
  /\ UNCHANGED <<mainVars, subVars, marked, enqueued, apiVars, boundVars, counted>>

AggDbError(w) ==
  /\ Fault("dbError")
  /\ \/ pc[w] = "aggRead" /\ UNCHANGED marked
     \/ pc[w] = "aggCount" /\ marked' = marked \ {held[w]}
  /\ AggError(w)
  /\ UNCHANGED <<mainVars, subVars, redisDone, redisSucc, redisFail, enqueued, apiVars,
                 pauses, slow, ghostVars>>

AggRedisError(w) ==
  /\ Fault("redisError")
  /\ \/ pc[w] = "aggMark" /\ AggError(w)
     \/ pc[w] = "aggRedis" /\ AggDone(w, snap[w].done + 1)
  /\ UNCHANGED <<mainVars, subVars, redisVars, enqueued, apiVars, pauses, slow, ghostVars>>

-----------------------------------------------------------------------------
(* Aggregator.finalizeIfDone, run by a worker or by a reaper *)
VerdictWithGap(succ, fail) == CASE fail = 0 /\ succ > 0 -> "success"     \* variant: no default
                                [] fail > 0 /\ succ = 0 -> "failed"
                                [] fail > 0 /\ succ > 0 -> "partial"
                                [] OTHER -> "none"

Verdict(succ, fail) == CASE fail = 0 -> "success"
                         [] fail # 0 /\ succ = 0 -> "failed"
                         [] OTHER -> "partial"

AllDoneEarly(t) == snap[t].total > 0 /\ snap[t].done + 1 >= snap[t].total  \* variant: off by one

(* sub_task_total is written and no shard is missing *)
AllDone(t) == snap[t].total > 0 /\ snap[t].done >= snap[t].total

(* GetSubDone; counts that are both 0 are replaced by the user counts read before *)
FinRead(t) ==
  /\ pc[t] = "finRead"
  /\ IF ~AllDone(t)
     THEN Return(t)
     ELSE /\ verdict' = [verdict EXCEPT ![t] =
                           IF redisSucc = 0 /\ redisFail = 0
                           THEN Verdict(snap[t].users.succ, snap[t].users.fail)
                           ELSE Verdict(redisSucc, redisFail)]
          /\ pc' = [pc EXCEPT ![t] = "cas1"]
          /\ UNCHANGED <<held, outcome, snap>>
  /\ UNCHANGED <<mainVars, subVars, redisVars, enqueued, apiVars, boundVars, ghostVars>>

(* WHERE id = ? AND version = ? AND status NOT IN (terminal, paused) *)
CasMatches(t) == version = snap[t].version /\ mainStatus \notin Terminal \cup {"paused"}

(* Variant: RowsAffected is not looked at. *)
CasUnchecked(t) ==
  /\ pc[t] \in {"cas1", "cas2"}
  /\ mainStatus' = IF CasMatches(t) THEN verdict[t] ELSE mainStatus
  /\ version' = IF CasMatches(t) THEN snap[t].version + 1 ELSE version
  /\ Goto(t, "notify")
  /\ UNCHANGED <<subTaskDone, subTaskTotal, userCounts, expired, subVars, redisVars, enqueued,
                 apiVars, boundVars, ghostVars>>

Cas(t) ==
  /\ pc[t] \in {"cas1", "cas2"}
  /\ IF CasMatches(t)
     THEN /\ mainStatus' = verdict[t]
          /\ version' = snap[t].version + 1
          /\ Goto(t, "notify")
     ELSE /\ UNCHANGED <<mainStatus, version>>
          /\ IF pc[t] = "cas1" THEN Goto(t, "reget") ELSE Return(t)
  /\ UNCHANGED <<subTaskDone, subTaskTotal, userCounts, expired, subVars, redisVars, enqueued,
                 apiVars, boundVars, ghostVars>>

(* The first CAS failed: read again and try once more with the same verdict. *)
Reget(t) ==
  /\ pc[t] = "reget"
  /\ IF mainStatus \in Terminal \cup {"paused"}
     THEN Return(t)
     ELSE /\ snap' = [snap EXCEPT ![t] = MainRow]
          /\ pc' = [pc EXCEPT ![t] = "cas2"]
          /\ UNCHANGED <<held, outcome, verdict>>
  /\ UNCHANGED <<mainVars, subVars, redisVars, enqueued, apiVars, boundVars, ghostVars>>

Notify(t) ==
  /\ pc[t] = "notify"
  /\ notified' = notified + 1
  /\ Return(t)
  /\ UNCHANGED <<mainVars, subVars, redisVars, enqueued, cancelPc, boundVars, ghostVars>>

FinError(t) ==
  /\ \/ pc[t] = "finRead" /\ Fault("redisError")
     \/ pc[t] \in CasPcs /\ Fault("dbError")
  /\ AggError(t)
  /\ UNCHANGED <<mainVars, subVars, redisVars, enqueued, apiVars, pauses, slow, ghostVars>>

(* reapFinishedMainTasks: ListFinishableMainTasks, then FinalizeStale.  The row *)
(* must also be untouched for 60 s, which may be the case at any time.          *)
FinishableStrict == subTaskTotal > 0 /\ subTaskDone > subTaskTotal       \* variant: off by one
Finishable == subTaskTotal > 0 /\ subTaskDone >= subTaskTotal

ReapList(r) ==
  /\ pc[r] = "idle" /\ mainStatus = "running"
  /\ Finishable
  /\ Goto(r, "reapGet")
  /\ UNCHANGED <<mainVars, subVars, redisVars, enqueued, apiVars, boundVars, ghostVars>>

ReapGet(r) ==
  /\ pc[r] = "reapGet"
  /\ IF mainStatus # "running"
     THEN Return(r)
     ELSE /\ snap' = [snap EXCEPT ![r] = MainRow]
          /\ pc' = [pc EXCEPT ![r] = "finRead"]
          /\ UNCHANGED <<held, outcome, verdict>>
  /\ UNCHANGED <<mainVars, subVars, redisVars, enqueued, apiVars, boundVars, ghostVars>>

-----------------------------------------------------------------------------
(* The campaign API (internal/app/campaign/service.go) *)
Pause ==
  /\ mainStatus = "running" /\ pauses < MaxPauses
  /\ mainStatus' = "paused" /\ version' = version + 1 /\ pauses' = pauses + 1
  /\ UNCHANGED <<subTaskDone, subTaskTotal, userCounts, expired, subVars, redisVars, enqueued,
                 threadVars, apiVars, slow, faults, ghostVars>>

(* sub_task_total > 0, so the campaign goes back to running *)
Resume ==
  /\ mainStatus = "paused"
  /\ mainStatus' = "running" /\ version' = version + 1
  /\ UNCHANGED <<subTaskDone, subTaskTotal, userCounts, expired, subVars, redisVars, enqueued,
                 threadVars, apiVars, boundVars, ghostVars>>

CancelMain ==
  /\ "cancel" \in Env
  /\ mainStatus \in {"running", "paused"} /\ cancelPc = "no"
  /\ mainStatus' = "cancelled" /\ version' = version + 1 /\ cancelPc' = "subs"
  /\ UNCHANGED <<subTaskDone, subTaskTotal, userCounts, expired, subVars, redisVars, enqueued,
                 threadVars, notified, boundVars, ghostVars>>

Cancellable(s) == subStatus[s] \in {"pending", "running"}

(* CancelUnfinishedSubTasks, then the webhook and the inbox *)
CancelSubs ==
  /\ cancelPc = "subs"
  /\ subStatus' = [s \in Subs |-> IF Cancellable(s) THEN "cancelled" ELSE subStatus[s]]
  /\ cancelPc' = "done" /\ notified' = notified + 1
  /\ UNCHANGED <<mainVars, workerId, stale, redisVars, enqueued, threadVars, boundVars, ghostVars>>

(* The second update of Cancel fails, or the API process stops before it. *)
CancelStops ==
  /\ cancelPc = "subs" /\ (Fault("dbError") \/ Fault("crash"))
  /\ cancelPc' = "done"
  /\ UNCHANGED <<mainVars, subVars, redisVars, enqueued, threadVars, notified, pauses, slow, ghostVars>>

-----------------------------------------------------------------------------
(* The environment *)

(* Time passes the claim timeout of a claim nobody works on any more, or at *)
(* most MaxSlow times of one whose worker is slow.                          *)
Abandoned(s) == \A w \in Workers : held[w] # s \/ workerId[s] # w

ClaimTimeout(s) ==
  /\ subStatus[s] = "running" /\ ~stale[s]
  /\ stale' = [stale EXCEPT ![s] = TRUE]
  /\ IF Abandoned(s) THEN UNCHANGED slow ELSE slow < MaxSlow /\ slow' = slow + 1
  /\ UNCHANGED <<mainVars, subStatus, workerId, redisVars, enqueued, threadVars, apiVars,
                 pauses, faults, ghostVars>>

CampaignExpires ==
  /\ "expiry" \in Env /\ ~expired
  /\ expired' = TRUE
  /\ UNCHANGED <<mainStatus, version, subTaskDone, subTaskTotal, userCounts, subVars, redisVars,
                 enqueued, threadVars, apiVars, boundVars, ghostVars>>

(* SyncMainUserCounts from push_records, which exist for enqueued users only *)
SyncUserCounts ==
  /\ "receipts" \in Env /\ enqueued # {}
  /\ userCounts' \in Counts \ {[succ |-> 0, fail |-> 0]}
  /\ UNCHANGED <<mainStatus, version, subTaskDone, subTaskTotal, expired, subVars, redisVars,
                 enqueued, threadVars, apiVars, boundVars, ghostVars>>

(* A process stops: its threads forget what they were doing; worker ids are *)
(* drawn anew, so no later thread owns the claims of this one.              *)
Crash(t) ==
  /\ pc[t] # "idle" /\ Fault("crash")
  /\ Return(t)
  /\ UNCHANGED <<mainVars, subVars, redisVars, enqueued, apiVars, pauses, slow, ghostVars>>

(* Redis restarts, evicts or expires the keys of the campaign. *)
RedisLoss ==
  /\ Fault("redisLoss")
  /\ \/ marked' = {} /\ UNCHANGED <<redisDone, redisSucc, redisFail>>
     \/ redisDone' = 0 /\ redisSucc' = 0 /\ redisFail' = 0 /\ marked' \in {marked, {}}
  /\ UNCHANGED <<mainVars, subVars, enqueued, threadVars, apiVars, pauses, slow, ghostVars>>

-----------------------------------------------------------------------------
WorkerStep(w) ==
  \/ \E s \in Subs : ClaimSubTask(w, s)
  \/ Gate(w) \/ CancelSub(w) \/ ReleaseSubTask(w)
  \/ Publish(w) \/ PublishFails(w) \/ RenewClaim(w)
  \/ WriteSuccess(w) \/ WriteFailure(w) \/ FinishExpired(w)
  \/ AggRead(w) \/ AggMark(w) \/ AggCount(w) \/ AggRedis(w)

FinalizeStep(t) == FinRead(t) \/ Cas(t) \/ Reget(t) \/ Notify(t)

ReaperStep(r) == ReapList(r) \/ ReapGet(r)

ErrorStep(w) == ClaimLoopDbError(w) \/ AggDbError(w) \/ AggRedisError(w)

ApiStep == Pause \/ Resume \/ CancelMain \/ CancelSubs \/ CancelStops

EnvStep ==
  \/ \E s \in Subs : ClaimTimeout(s)
  \/ CampaignExpires \/ SyncUserCounts \/ RedisLoss

Next ==
  \/ \E w \in Workers : WorkerStep(w) \/ ErrorStep(w)
  \/ \E r \in Reapers : ReaperStep(r)
  \/ \E t \in Threads : FinalizeStep(t) \/ FinError(t) \/ Crash(t)
  \/ ApiStep
  \/ EnvStep

Spec == Init /\ [][Next]_vars

(* The claim loops and the reaper poll for ever and time passes; nobody has *)
(* to pause, resume or cancel.  RenewClaim alone would be a step for ever.  *)
Progress(w) ==
  \/ \E s \in Subs : ClaimSubTask(w, s)
  \/ Gate(w) \/ CancelSub(w) \/ ReleaseSubTask(w)
  \/ Publish(w) \/ PublishFails(w)
  \/ WriteSuccess(w) \/ WriteFailure(w) \/ FinishExpired(w)
  \/ AggRead(w) \/ AggMark(w) \/ AggCount(w) \/ AggRedis(w)

Fairness ==
  /\ \A w \in Workers : WF_vars(Progress(w) \/ FinalizeStep(w))
  /\ \A r \in Reapers : WF_vars(ReaperStep(r) \/ FinalizeStep(r))
  /\ \A s \in Subs : WF_vars(Abandoned(s) /\ ClaimTimeout(s))
  /\ WF_vars(CancelSubs)

FairSpec == Spec /\ Fairness

-----------------------------------------------------------------------------
(* Properties *)

(* sub_task_done counts a shard at most once and only when its result is     *)
(* written, whatever claims time out and whatever Redis forgets.             *)
NoOvercount == subTaskDone <= Cardinality(Finished)

(* Why: the inductive strengthening of the two properties around it.  A      *)
(* worker between its result and its count holds a finished shard that no    *)
(* other worker aggregates and nothing has counted; sub_task_done, Redis's   *)
(* count and every copy of them count distinct finished shards, so a count   *)
(* that reaches sub_task_total has met them all.                             *)
Counting ==
  /\ cached \subseteq counted /\ counted \subseteq Finished
  /\ subTaskDone = Cardinality(counted) /\ redisDone <= Cardinality(cached)
  /\ subTaskTotal = Cardinality(Rows)
Tickets ==
  \A w \in Workers :
    /\ pc[w] \in AggPcs => held[w] \in Finished
    /\ pc[w] \in {"aggRead", "aggMark", "aggCount"} => held[w] \notin counted
    /\ pc[w] = "aggRedis" => held[w] \in counted \ cached
    /\ \A v \in Workers : v # w /\ pc[v] \in AggPcs /\ pc[w] \in AggPcs => held[v] # held[w]
Snapshots ==
  \A t \in Threads :
    /\ pc[t] \in {"aggMark", "aggCount", "finRead"} => snap[t].done <= subTaskDone
    /\ pc[t] = "aggRedis" => snap[t].done < subTaskDone
    /\ pc[t] \in {"aggMark", "aggCount", "aggRedis", "finRead"} => snap[t].total = subTaskTotal
Closing ==
  /\ \A t \in Threads : pc[t] \in CasPcs => counted = Rows
  /\ mainStatus \in Verdicts => counted = Rows
CountInv == Counting /\ Tickets /\ Snapshots /\ Closing

(* The aggregator and the reaper give a campaign a final status only when    *)
(* every shard has its result: no pending shard is stranded behind a         *)
(* finished campaign, which ClaimSubTask would never hand out again.         *)
ClosedWhenAllFinished == mainStatus \in Verdicts => Rows \subseteq Finished

(* A shard reported successful had all its messages accepted by the queue,   *)
(* also when its claim moved from worker to worker.                          *)
SuccessWasEnqueued == \A s \in Subs : subStatus[s] = "success" => s \in enqueued

(* The terminal webhook is sent once although workers, reapers and Cancel    *)
(* race for the final status.                                                *)
NotifiedOnce == notified <= 1

(* A written result stays: a late worker, a release, a cancellation and a    *)
(* takeover of the claim leave it alone.                                     *)
ResultStays ==
  [][\A s \in Subs : subStatus[s] \in {"success", "failed", "cancelled"}
                        => subStatus'[s] = subStatus[s]]_vars

(* The detailed steps are steps of the promise: a campaign is closed once,   *)
(* from running, and when every shard has reported; the rest stutters.       *)
Lifecycle == INSTANCE CampaignLifecycle WITH status <- mainStatus, results <- Finished
ImplementsLifecycle == Lifecycle!Spec

PausedForGood == []<>(mainStatus = "paused")

(* Every shard of a campaign that is not left paused gets a result or the    *)
(* campaign ends: the claim timeout recovers the shards of crashed workers.  *)
ShardsFinish == PausedForGood \/ <>(mainStatus \in Terminal \/ Rows \subseteq Finished)

(* A campaign that is not left paused reaches a final status: what stale     *)
(* reads, pauses and races keep the workers from closing, the reaper closes. *)
CampaignCloses == PausedForGood \/ <>(mainStatus \in Terminal)

(* A shard whose worker stopped between its result and its count *)
Uncounted(s) == s \in Finished \ counted /\ \A w \in Workers : held[w] # s

(* After a crash only such a shard keeps the campaign open.                  *)
ClosesOrUncounted ==
  PausedForGood \/ <>(mainStatus \in Terminal \/ \E s \in Subs : Uncounted(s))

(* The final status agrees with the results of the shards (README, status    *)
(* semantics: success / partial / failed are aggregated from them).          *)
VerdictMatches ==
  /\ mainStatus = "success" => \A s \in Rows : subStatus[s] = "success"
  /\ mainStatus = "failed"  => \A s \in Rows : subStatus[s] = "failed"
=============================================================================
