---------------------------- MODULE SplitLease ----------------------------
(***************************************************************************)
(* The split of one campaign into shards (internal/scheduler/splitter.go   *)
(* and the split half of worker.go).  A scheduler process takes a pending  *)
(* campaign with a lease on the main task (split_owner, split_lease_at),   *)
(* deletes what an earlier split left, inserts one shard per audience      *)
(* page, renewing the lease, and opens the campaign for the claim loops by *)
(* clearing the lease.  A lease that is not renewed in time is taken over. *)
(* One action is one statement; several goroutines of a process share its  *)
(* id, and only some of the statements look at it.                         *)
(***************************************************************************)
EXTENDS Naturals

CONSTANTS
  Procs,      \* scheduler processes, by their Worker.id
  Slots,      \* split goroutines of a process that are running or queue for splitSem
  NoProc,     \* split_owner = ''
  NumPages,   \* audience pages with at least one eligible user
  Env,        \* the disturbances of the run, a subset of Disturbances
  MaxPauses,  \* bound: pauses, by the API or for capacity
  MaxStalls,  \* bound: leases that time out while their owner still works
  MaxFaults   \* bound: crashes, failing statements, failing audience calls

Disturbances == {"pause", "cancel", "overCapacity", "crash", "dbError", "audience"}

ASSUME ProcsAssumption == NoProc \notin Procs
ASSUME SplitBounds ==
  /\ NumPages \in Nat /\ Env \subseteq Disturbances
  /\ MaxPauses \in Nat /\ MaxStalls \in Nat /\ MaxFaults \in Nat

VARIABLES
  status,        \* main_tasks.status; "closed" is success, partial or failed by the aggregator
  version,       \* main_tasks.version
  splitOwner,    \* main_tasks.split_owner
  leaseStale,    \* has split_lease_at passed the lease timeout?
  subTaskTotal,  \* main_tasks.sub_task_total
  subTaskDone,   \* main_tasks.sub_task_done
  pending,       \* how many claimable rows of sub_tasks each page has
  done,          \* how many finished rows each page has
  sent,          \* history: how often the users of each page were handed to the queue
  pc,            \* where each split goroutine is
  ver,           \* fresh.Version
  page,          \* audience pages written so far: shard
  dead,          \* processes that crashed; a restarted one draws a new id
  cancelPc,      \* Service.Cancel: between its two updates?
  resuming,      \* what the calls of Service.Resume in flight are about to write
  pauses, stalls, faults  \* counters for the bounds

mainVars   == <<status, version, splitOwner, leaseStale, subTaskTotal, subTaskDone>>
rowVars    == <<pending, done, sent>>
threadVars == <<pc, ver, page>>
envVars    == <<dead, cancelPc, resuming, pauses, stalls, faults>>
vars == <<mainVars, rowVars, threadVars, envVars>>

Pages   == 1..NumPages
Threads == Procs \X Slots
Id(t)   == t[1]

Terminal == {"closed", "failed", "cancelled"}
Status   == {"pending", "running", "paused"} \cup Terminal
Pcs == {"idle", "read", "delete", "check", "renew", "insert", "meta", "final", "touch", "patch",
        "open", "capacity", "failRead", "fail", "giveUp", "tell", "dropRows", "clear"}

MainTypeOK ==
  /\ status \in Status /\ version \in Nat
  /\ splitOwner \in Procs \cup {NoProc} /\ leaseStale \in BOOLEAN
  /\ subTaskTotal \in Nat /\ subTaskDone \in Nat
RowsTypeOK ==
  /\ pending \in [Pages -> Nat] /\ done \in [Pages -> Nat] /\ sent \in [Pages -> Nat]
ThreadTypeOK ==
  /\ pc \in [Threads -> Pcs] /\ ver \in [Threads -> Nat] /\ page \in [Threads -> Nat]
  /\ \A t \in Threads : pc[t] \in {"check", "renew", "insert"} => page[t] < NumPages
  /\ \A t \in Threads : pc[t] = "delete" => page[t] = 0
EnvTypeOK ==
  /\ dead \subseteq Procs /\ cancelPc \in {"no", "subs", "done", "stopped"}
  /\ resuming \subseteq {"pending", "running"}
  /\ pauses \in Nat /\ stalls \in Nat /\ faults \in Nat

TypeOK == MainTypeOK /\ RowsTypeOK /\ ThreadTypeOK /\ EnvTypeOK

Init ==
  /\ status = "pending" /\ version = 0 /\ splitOwner = NoProc /\ leaseStale = FALSE
  /\ subTaskTotal = 0 /\ subTaskDone = 0
  /\ pending = [p \in Pages |-> 0] /\ done = [p \in Pages |-> 0] /\ sent = [p \in Pages |-> 0]
  /\ pc = [t \in Threads |-> "idle"] /\ ver = [t \in Threads |-> 0]
  /\ page = [t \in Threads |-> 0]
  /\ dead = {} /\ cancelPc = "no" /\ resuming = {} /\ pauses = 0 /\ stalls = 0 /\ faults = 0

Goto(t, l) == pc' = [pc EXCEPT ![t] = l] /\ UNCHANGED <<ver, page>>

Fault(kind) == kind \in Env /\ faults < MaxFaults /\ faults' = faults + 1

NoRows == pending' = [p \in Pages |-> 0]

-----------------------------------------------------------------------------
(* loopSplit: MarkMainTaskRunning and ClaimStaleSplitMainTask, then spawnSplit *)
MarkMainTaskRunning(t) ==
  /\ pc[t] = "idle" /\ Id(t) \notin dead
  /\ status = "pending"
  /\ status' = "running" /\ splitOwner' = Id(t) /\ leaseStale' = FALSE
  /\ Goto(t, "read")
  /\ UNCHANGED <<version, subTaskTotal, subTaskDone, rowVars, envVars>>

(* Variant: the lease's age is not tested. *)
ReclaimableAny == status = "running" /\ splitOwner # NoProc
(* Variant: only a campaign without lease is taken over. *)
ReclaimableNever == status = "running" /\ splitOwner = NoProc /\ leaseStale

Reclaimable == status = "running" /\ splitOwner # NoProc /\ leaseStale

ClaimStaleSplit(t) ==
  /\ pc[t] = "idle" /\ Id(t) \notin dead
  /\ Reclaimable
  /\ splitOwner' = Id(t) /\ leaseStale' = FALSE /\ subTaskTotal' = 0
  /\ Goto(t, "read")
  /\ UNCHANGED <<status, version, subTaskDone, rowVars, envVars>>

(* runSplit: the first read *)
Read(t) ==
  /\ pc[t] = "read"
  /\ pc' = [pc EXCEPT ![t] = CASE status = "cancelled" -> "dropRows"
                               [] status = "paused" -> "clear"
                               [] OTHER -> "delete"]
  /\ ver' = [ver EXCEPT ![t] = version]
  /\ page' = [page EXCEPT ![t] = 0]
  /\ UNCHANGED <<mainVars, rowVars, envVars>>

DeleteNothing(t) ==                                                \* variant
  /\ pc[t] = "delete"
  /\ Goto(t, IF NumPages = 0 THEN "failRead" ELSE "check")
  /\ UNCHANGED <<mainVars, rowVars, envVars>>

(* DeleteSubTasksByMainTask deletes the rows whoever inserted them.  An      *)
(* audience without eligible users ends in AudienceEmpty.                    *)
DeleteSubTasks(t) ==
  /\ pc[t] = "delete"
  /\ NoRows /\ done' = [p \in Pages |-> 0]
  /\ Goto(t, IF NumPages = 0 THEN "failRead" ELSE "check")
  /\ UNCHANGED <<mainVars, sent, envVars>>

(* CancelUnfinishedSubTasks by a splitter that finds the campaign cancelled *)
DropRows(t) ==
  /\ pc[t] = "dropRows"
  /\ NoRows
  /\ Goto(t, "clear")
  /\ UNCHANGED <<mainVars, done, sent, envVars>>

-----------------------------------------------------------------------------
(* Splitter.Split: the page loop *)
(* A cancelled campaign's rows are cancelled here and once more by runSplit. *)
Check(t) ==
  /\ pc[t] = "check"
  /\ IF status = "cancelled" THEN NoRows ELSE UNCHANGED pending
  /\ Goto(t, IF status \in {"cancelled", "paused"} THEN "failRead" ELSE "renew")
  /\ UNCHANGED <<mainVars, done, sent, envVars>>

(* WHERE id = ? AND status = running AND split_owner = ? *)
HoldsLease(t) == status = "running" /\ splitOwner = Id(t)

RenewSplitLease(t) ==
  /\ pc[t] = "renew"
  /\ leaseStale' = (leaseStale /\ ~HoldsLease(t))
  /\ Goto(t, IF HoldsLease(t) THEN "insert" ELSE "failRead")
  /\ UNCHANGED <<status, version, splitOwner, subTaskTotal, subTaskDone, rowVars, envVars>>

(* Variant: the rows are inserted without looking at the lease. *)
InsertUnchecked(t) ==
  /\ pc[t] = "insert"
  /\ pending' = [pending EXCEPT ![page[t] + 1] = @ + 1]
  /\ pc' = [pc EXCEPT ![t] = "meta"]
  /\ page' = [page EXCEPT ![t] = @ + 1]
  /\ UNCHANGED <<mainVars, done, sent, ver, envVars>>

(* CreateSubTasksWithLease: renewal and insertion in one transaction *)
CreateSubTasksWithLease(t) ==
  /\ pc[t] = "insert"
  /\ IF HoldsLease(t)
     THEN /\ pending' = [pending EXCEPT ![page[t] + 1] = @ + 1]
          /\ leaseStale' = FALSE
          /\ pc' = [pc EXCEPT ![t] = "meta"]
          /\ page' = [page EXCEPT ![t] = @ + 1]
          /\ UNCHANGED ver
     ELSE Goto(t, "failRead") /\ UNCHANGED <<pending, leaseStale>>
  /\ UNCHANGED <<status, version, splitOwner, subTaskTotal, subTaskDone, done, sent, envVars>>

(* PatchMainMeta: WHERE status NOT IN (cancelled, paused, success, partial, failed) *)
PatchMainMeta(n) ==
  subTaskTotal' = IF status \in {"pending", "running"} THEN n ELSE subTaskTotal

Meta(t) ==
  /\ pc[t] = "meta"
  /\ PatchMainMeta(0)
  /\ Goto(t, IF page[t] < NumPages THEN "check" ELSE "final")
  /\ UNCHANGED <<status, version, splitOwner, leaseStale, subTaskDone, rowVars, envVars>>

-----------------------------------------------------------------------------
(* Splitter.Split: the tail *)
Final(t) ==
  /\ pc[t] = "final"
  /\ IF status = "cancelled" THEN NoRows ELSE UNCHANGED pending
  /\ Goto(t, IF status = "cancelled" THEN "failRead" ELSE "touch")
  /\ UNCHANGED <<mainVars, done, sent, envVars>>

(* UpdateMainTaskStats(..., running): over pending and running only *)
Touch(t) ==
  /\ pc[t] = "touch"
  /\ status' = IF status = "pending" THEN "running" ELSE status
  /\ Goto(t, "patch")
  /\ UNCHANGED <<version, splitOwner, leaseStale, subTaskTotal, subTaskDone, rowVars, envVars>>

Patch(t) ==
  /\ pc[t] = "patch"
  /\ PatchMainMeta(page[t])
  /\ Goto(t, "open")
  /\ UNCHANGED <<status, version, splitOwner, leaseStale, subTaskDone, rowVars, envVars>>

(* ClearSplitLease: WHERE id = ?, whoever holds the lease *)
ClearSplitLease == splitOwner' = NoProc /\ leaseStale' = FALSE

Open(t) ==
  /\ pc[t] = "open"
  /\ ClearSplitLease
  /\ Goto(t, "capacity")
  /\ UNCHANGED <<status, version, subTaskTotal, subTaskDone, rowVars, envVars>>

(* PauseMainTask *)
PauseMain ==
  /\ status \in {"pending", "running"} /\ pauses < MaxPauses
  /\ status' = "paused" /\ version' = version + 1 /\ pauses' = pauses + 1

(* checkOverCapacity with over-capacity action "pause" *)
CheckOverCapacity(t) ==
  /\ pc[t] = "capacity"
  /\ \/ UNCHANGED <<status, version, pauses>>
     \/ "overCapacity" \in Env /\ PauseMain
  /\ Goto(t, "idle")
  /\ UNCHANGED <<splitOwner, leaseStale, subTaskTotal, subTaskDone, rowVars, dead, cancelPc, resuming,
                 stalls, faults>>

-----------------------------------------------------------------------------
(* runSplit: Split returned an error *)
FailRead(t) ==
  /\ pc[t] = "failRead"
  /\ Goto(t, CASE status = "cancelled" -> "dropRows"
               [] status # "cancelled" /\ splitOwner \notin {NoProc, Id(t)} -> "idle"
               [] status = "paused" /\ splitOwner \in {NoProc, Id(t)} -> "clear"
               [] OTHER -> "fail")
  /\ UNCHANGED <<mainVars, rowVars, envVars>>

(* Variant: the status is overwritten whatever it is now. *)
FailAlways(t) ==
  /\ pc[t] = "fail"
  /\ status' = "failed" /\ version' = ver[t] + 1
  /\ Goto(t, "giveUp")
  /\ UNCHANGED <<splitOwner, leaseStale, subTaskTotal, subTaskDone, rowVars, envVars>>

(* UpdateMainTaskStats(..., fresh.Version, ..., failed): the CAS may miss *)
Fail(t) ==
  /\ pc[t] = "fail"
  /\ IF version = ver[t] /\ status \in {"pending", "running"}
     THEN status' = "failed" /\ version' = ver[t] + 1
     ELSE UNCHANGED <<status, version>>
  /\ Goto(t, "giveUp")
  /\ UNCHANGED <<splitOwner, leaseStale, subTaskTotal, subTaskDone, rowVars, envVars>>

Clear(t) ==
  /\ pc[t] \in {"clear", "giveUp"}
  /\ ClearSplitLease
  /\ Goto(t, IF pc[t] = "giveUp" THEN "tell" ELSE "idle")
  /\ UNCHANGED <<status, version, subTaskTotal, subTaskDone, rowVars, envVars>>

(* EmitTaskTerminal(..., failed): the inbox says that the campaign failed,   *)
(* whether the compare-and-set hit or not.                                   *)
Tell(t) ==
  /\ pc[t] = "tell"
  /\ Goto(t, "idle")
  /\ UNCHANGED <<mainVars, rowVars, envVars>>

(* Resolving the audience fails (upstream error, stuck page token, too many   *)
(* pages), or the users counted with the inserted page exceed the limit.     *)
AudienceFails(t) ==
  /\ pc[t] \in {"insert", "meta"} /\ Fault("audience")
  /\ Goto(t, "failRead")
  /\ UNCHANGED <<mainVars, rowVars, dead, cancelPc, resuming, pauses, stalls>>

(* A statement fails and changes nothing; some of the failures are ignored. *)
DbError(t) ==
  /\ Fault("dbError")
  /\ pc[t] \notin {"idle", "capacity"}
  /\ Goto(t, CASE pc[t] \in {"read", "clear", "tell"} -> "idle"
               [] pc[t] = "delete" -> IF NumPages = 0 THEN "failRead" ELSE "check"
               [] pc[t] \in {"check", "renew", "insert", "final", "patch"} -> "failRead"
               [] pc[t] = "touch" -> "patch"
               [] pc[t] = "meta" -> IF page[t] < NumPages THEN "check" ELSE "final"
               [] pc[t] = "open" -> "capacity"
               [] pc[t] = "failRead" -> "fail"
               [] pc[t] = "fail" -> "giveUp"
               [] pc[t] = "giveUp" -> "tell"
               [] pc[t] = "dropRows" -> "clear")
  /\ UNCHANGED <<mainVars, rowVars, dead, cancelPc, resuming, pauses, stalls>>

-----------------------------------------------------------------------------
(* The claim loops and the aggregator, in one step a shard (SubTaskPipeline    *)
(* has their detail): they see the rows once the lease is cleared.             *)
ClaimableWithLease == status = "running"                           \* variant: the lease is no gate

Claimable == status = "running" /\ splitOwner = NoProc

ShardDone(p) ==
  /\ Claimable /\ pending[p] > 0
  /\ pending' = [pending EXCEPT ![p] = @ - 1]
  /\ done' = [done EXCEPT ![p] = @ + 1]
  /\ sent' = [sent EXCEPT ![p] = @ + 1]
  /\ subTaskDone' = subTaskDone + 1
  /\ UNCHANGED <<status, version, splitOwner, leaseStale, subTaskTotal, threadVars, envVars>>

Close ==
  /\ status = "running" /\ subTaskTotal > 0 /\ subTaskDone >= subTaskTotal
  /\ status' = "closed" /\ version' = version + 1
  /\ UNCHANGED <<splitOwner, leaseStale, subTaskTotal, subTaskDone, rowVars, threadVars, envVars>>

(* The campaign API *)
Pause ==
  /\ "pause" \in Env /\ PauseMain
  /\ UNCHANGED <<splitOwner, leaseStale, subTaskTotal, subTaskDone, rowVars, threadVars, dead,
                 cancelPc, resuming, stalls, faults>>

(* Resume reads sub_task_total, with the status, before it updates. *)
Resume ==
  /\ status = "paused"
  /\ resuming' = resuming \cup {IF subTaskTotal > 0 THEN "running" ELSE "pending"}
  /\ UNCHANGED <<mainVars, rowVars, threadVars, dead, cancelPc, pauses, stalls, faults>>

ResumeMainTask(next) ==
  /\ next \in resuming
  /\ resuming' = resuming \ {next}
  /\ IF status = "paused"
     THEN status' = next /\ version' = version + 1
     ELSE UNCHANGED <<status, version>>
  /\ UNCHANGED <<splitOwner, leaseStale, subTaskTotal, subTaskDone, rowVars, threadVars, dead,
                 cancelPc, pauses, stalls, faults>>

CancelMain ==
  /\ "cancel" \in Env /\ status \in {"pending", "running", "paused"}
  /\ status' = "cancelled" /\ version' = version + 1 /\ cancelPc' = "subs"
  /\ UNCHANGED <<splitOwner, leaseStale, subTaskTotal, subTaskDone, rowVars, threadVars, dead, resuming,
                 pauses, stalls, faults>>

CancelSubs ==
  /\ cancelPc = "subs"
  /\ NoRows /\ cancelPc' = "done"
  /\ UNCHANGED <<mainVars, done, sent, threadVars, dead, resuming, pauses, stalls, faults>>

CancelStops ==
  /\ cancelPc = "subs" /\ (Fault("dbError") \/ Fault("crash"))
  /\ cancelPc' = "stopped"
  /\ UNCHANGED <<mainVars, rowVars, threadVars, dead, resuming, pauses, stalls>>

(* Time passes the lease timeout of an owner that does not work on the split *)
(* any more, or at most MaxStalls times of one that does: a slow audience    *)
(* page, or the wait for splitSem.                                           *)
Working(t) == pc[t] \notin {"idle", "capacity", "tell"}

Abandoned == \A t \in Threads : Id(t) = splitOwner => ~Working(t)

LeaseTimeout ==
  /\ splitOwner # NoProc /\ ~leaseStale
  /\ leaseStale' = TRUE
  /\ IF Abandoned THEN UNCHANGED stalls ELSE stalls < MaxStalls /\ stalls' = stalls + 1
  /\ UNCHANGED <<status, version, splitOwner, subTaskTotal, subTaskDone, rowVars, threadVars,
                 dead, cancelPc, resuming, pauses, faults>>

Crash(p) ==
  /\ p \notin dead /\ Fault("crash")
  /\ dead' = dead \cup {p}
  /\ pc' = [t \in Threads |-> IF Id(t) = p THEN "idle" ELSE pc[t]]
  /\ UNCHANGED <<mainVars, rowVars, ver, page, cancelPc, resuming, pauses, stalls>>

-----------------------------------------------------------------------------
SplitStep(t) ==
  \/ MarkMainTaskRunning(t) \/ ClaimStaleSplit(t)
  \/ Read(t) \/ DeleteSubTasks(t) \/ DropRows(t)
  \/ Check(t) \/ RenewSplitLease(t) \/ CreateSubTasksWithLease(t) \/ Meta(t)
  \/ Final(t) \/ Touch(t) \/ Patch(t) \/ Open(t) \/ CheckOverCapacity(t)
  \/ FailRead(t) \/ Fail(t) \/ Clear(t) \/ Tell(t)

PipelineStep == (\E p \in Pages : ShardDone(p)) \/ Close

ApiStep ==
  \/ Pause \/ Resume \/ \E next \in resuming : ResumeMainTask(next)
  \/ CancelMain \/ CancelSubs \/ CancelStops

Next ==
  \/ \E t \in Threads : SplitStep(t) \/ AudienceFails(t) \/ DbError(t)
  \/ PipelineStep
  \/ ApiStep
  \/ LeaseTimeout
  \/ \E p \in Procs : Crash(p)

Spec == Init /\ [][Next]_vars

(* The split goroutines run, loopSplit polls for ever, time passes and the claim *)
(* loops work; nobody has to pause, resume or cancel.                            *)
Fairness ==
  /\ \A t \in Threads : WF_vars(SplitStep(t))
  /\ WF_vars(Abandoned /\ LeaseTimeout)
  /\ WF_vars(PipelineStep)

FairSpec == Spec /\ Fairness

-----------------------------------------------------------------------------
(* Properties *)
SplitComplete ==
  subTaskTotal = NumPages /\ \A p \in Pages : pending[p] + done[p] = 1

(* The lease is the gate: whenever a claim loop may take a shard, the split  *)
(* is finished, with one row per audience page and the total written.        *)
GateHolds == (Claimable /\ \E p \in Pages : pending[p] > 0) => SplitComplete

(* A takeover does not hand the users of a page to the queue once more.      *)
PagesSentOnce == \A p \in Pages : sent[p] <= 1

(* A campaign the aggregator closes has reached every page of its audience.  *)
ClosedReachedAll == status = "closed" => \A p \in Pages : sent[p] >= 1

(* A cancellation leaves no pending shard behind, although splitters insert  *)
(* shards up to the moment of the cancellation and wake up long after it:    *)
(* insertion and lease test are one transaction.                             *)
NoOrphanShards == cancelPc = "done" => \A p \in Pages : pending[p] = 0

(* A splitter that gives up does not overwrite a final status or a pause.    *)
StatusHolds ==
  [][/\ status \in Terminal => status' = status
     /\ status = "paused" => status' \in {"paused", "running", "pending", "cancelled"}]_vars

(* Once the split is complete and open, no splitter fails the campaign.      *)
OpenedNotFailed ==
  [][(Claimable /\ SplitComplete) => status' # "failed"]_vars

PausedForGood == []<>(status = "paused")

(* A crash between pending -> running and the end of the split does not      *)
(* leave the campaign running for ever: somebody finishes it.                *)
SplitEnds == PausedForGood \/ <>(status \in Terminal)
===========================================================================
