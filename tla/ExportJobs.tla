------------------------------ MODULE ExportJobs ------------------------------
(***************************************************************************)
(* Exports of a campaign's push records (internal/app/campaign/ops.go): a  *)
(* request takes a slot, inserts a job and hands the slot to a goroutine,  *)
(* which walks the records page by page into a file and then marks the     *)
(* job.  Every statement can fail, and the failure to mark a job is not    *)
(* looked at.                                                              *)
(***************************************************************************)
EXTENDS Naturals, Sequences, FiniteSets, FiniteSetsExt

CONSTANTS
  ExpJobs,      \* requests, each for a job of its own
  ExpSlots,     \* capacity of exportSem
  ExpRecords,   \* ids of push records, 1..n
  ExpBatch,     \* records of a page
  MaxExpFaults, MaxExpStops  \* bounds: failing statements, restarts of the process

ASSUME ExportAssumption ==
  ExpSlots \in Nat \ {0} /\ ExpBatch \in Nat \ {0} /\ ExpRecords \subseteq Nat \ {0}

VARIABLES
  expRow,     \* push_records: committed ids; not always in the order of the ids
  expJob,     \* export_jobs: its status ("none": no row)
  expRun,     \* the request or goroutine of a job in memory
  expFile,    \* the file of a job: ids written to disk
  expSlot,    \* slots taken
  expBase,    \* history: the records a list of records must hold: those there when it began
  expFaults, expStops

expJobVars == <<expJob, expRun, expFile, expSlot, expBase>>
exportVars == <<expRow, expJobVars, expFaults, expStops>>

ExpIdle == [step |-> "idle"]
ExpRunning(step) == [step |-> step, kind |-> "records", last |-> 0, rows |-> {}, dead |-> FALSE, bad |-> FALSE]
ExpAt(j, step) == expRun[j].step = step

ExportInit ==
  /\ expRow = {} /\ expSlot = 0
  /\ expJob = [j \in ExpJobs |-> "none"] /\ expRun = [j \in ExpJobs |-> ExpIdle]
  /\ expFile = [j \in ExpJobs |-> {}] /\ expBase = [j \in ExpJobs |-> {}]
  /\ expFaults = 0 /\ expStops = 0

(* A statement fails: a fault, or the job's thirty minutes are over, after *)
(* which each later statement of the job fails too.                        *)
Fault == expFaults < MaxExpFaults /\ expFaults' = expFaults + 1
Alive(j) == ~expRun[j].dead /\ UNCHANGED expFaults
Dead(j) == expRun[j].dead /\ UNCHANGED expFaults

ExpTimeout(j) ==
  /\ expRun[j].step \notin {"idle", "taken"} /\ ~expRun[j].dead /\ Fault
  /\ expRun' = [expRun EXCEPT ![j].dead = TRUE]
  /\ UNCHANGED <<expRow, expJob, expFile, expSlot, expBase, expStops>>

(* A slot is put back by the request that fails, or by the goroutine.      *)
Release(j) == expSlot' = expSlot - 1 /\ expRun' = [expRun EXCEPT ![j] = ExpIdle]

(* CreateExport.                                                           *)
SlotFree == expSlot < ExpSlots

ExpTakeSlot(j, kind) ==
  /\ expJob[j] = "none" /\ expRun[j] = ExpIdle /\ SlotFree
  /\ expSlot' = expSlot + 1
  /\ expRun' = [expRun EXCEPT ![j] = [ExpRunning("taken") EXCEPT !.kind = kind]]
  /\ UNCHANGED <<expRow, expJob, expFile, expBase, expFaults, expStops>>

(* No such campaign, no such kind, or an error: the deferred release.      *)
ExpRefuse(j) ==
  /\ ExpAt(j, "taken") /\ Fault /\ Release(j)
  /\ UNCHANGED <<expRow, expJob, expFile, expBase, expStops>>

ExpInsert(j) ==
  /\ ExpAt(j, "taken")
  /\ expJob' = [expJob EXCEPT ![j] = "pending"]
  /\ expRun' = [expRun EXCEPT ![j].step = "load"]
  /\ UNCHANGED <<expRow, expFile, expSlot, expBase, expFaults, expStops>>

(* runExport: it ends without a mark when the job cannot be read.          *)
ExpLoad(j) ==
  /\ ExpAt(j, "load") /\ Alive(j)
  /\ expRun' = [expRun EXCEPT ![j].step = "begin"]
  /\ UNCHANGED <<expRow, expJob, expFile, expSlot, expBase, expStops>>

ExpLoadFails(j) ==
  /\ ExpAt(j, "load") /\ (Fault \/ Dead(j))
  /\ Release(j)
  /\ UNCHANGED <<expRow, expJob, expFile, expBase, expStops>>

(* The mark "running" is set or fails, and the run goes on either way.     *)
ExpBegin(j) ==
  /\ ExpAt(j, "begin")
  /\ \/ Alive(j) /\ expJob' = [expJob EXCEPT ![j] = "running"]
     \/ (Fault \/ Dead(j)) /\ UNCHANGED expJob
  /\ expBase' = [expBase EXCEPT ![j] = IF expRun[j].kind = "records" THEN expRow ELSE {}]
  /\ expRun' = [expRun EXCEPT ![j].step = "open"]
  /\ UNCHANGED <<expRow, expFile, expSlot, expStops>>

(* MkdirAll and Create truncate what there was under the job's name.       *)
ExpOpen(j) ==
  /\ ExpAt(j, "open") /\ expFile' = [expFile EXCEPT ![j] = {}]
  /\ expRun' = [expRun EXCEPT ![j].step = IF expRun[j].kind = "records" THEN "page" ELSE "aggregate"]
  /\ UNCHANGED <<expRow, expJob, expSlot, expBase, expFaults, expStops>>

-----------------------------------------------------------------------------
(* IterPushRecords: the next ids in order, from the last one on, until a   *)
(* page is empty.                                                          *)
Later(last) == {r \in expRow : r > last}

NextPage(last) == {r \in Later(last) : Cardinality({q \in Later(last) : q < r}) < ExpBatch}

LastID(page, last) == IF page = {} THEN last ELSE Max(page)

ExpPage(j) ==
  LET run == expRun[j]
      page == NextPage(run.last) IN
  /\ ExpAt(j, "page") /\ Alive(j)
  /\ expRun' = [expRun EXCEPT ![j] =
       IF page = {} THEN [run EXCEPT !.step = "flush"]
       ELSE [run EXCEPT !.rows = @ \cup page, !.last = LastID(page, run.last)]]
  /\ UNCHANGED <<expRow, expJob, expFile, expSlot, expBase, expStops>>

(* AggregateFailures: one statement, the 200 most frequent failures.  What *)
(* it lists is not records.                                                *)
ExpAggregate(j) ==
  /\ ExpAt(j, "aggregate") /\ Alive(j)
  /\ expRun' = [expRun EXCEPT ![j].step = "flush"]
  /\ UNCHANGED <<expRow, expJob, expFile, expSlot, expBase, expStops>>

(* A write into the buffer fails: its error is dropped, the writer keeps   *)
(* it for Flush.                                                           *)
ExpDiskFull(j) ==
  /\ expRun[j].step \in {"page", "aggregate", "flush"} /\ ~expRun[j].bad /\ Fault
  /\ expRun' = [expRun EXCEPT ![j].bad = TRUE]
  /\ UNCHANGED <<expRow, expJob, expFile, expSlot, expBase, expStops>>

(* Mutant: w.Error is not looked at.                                       *)
FlushUnchecked(j) == TRUE

Flushed(j) == ~expRun[j].bad

ExpFlush(j) ==
  LET run == expRun[j] IN
  /\ ExpAt(j, "flush")
  /\ expFile' = [expFile EXCEPT ![j] = IF run.bad THEN {} ELSE run.rows]
  /\ expRun' = [expRun EXCEPT ![j].step = IF Flushed(j) THEN "finish" ELSE "fail"]
  /\ UNCHANGED <<expRow, expJob, expSlot, expBase, expFaults, expStops>>

(* The directory, the file, the page, the sync or the close fails.         *)
ExpStepFails(j) ==
  /\ expRun[j].step \in {"open", "page", "aggregate", "finish"}
  /\ Fault \/ (Dead(j) /\ expRun[j].step \in {"page", "aggregate"})
  /\ expRun' = [expRun EXCEPT ![j].step = "fail"]
  /\ UNCHANGED <<expRow, expJob, expFile, expSlot, expBase, expStops>>

(* UpdateExportJob with the result; its error is dropped and the slot put  *)
(* back.                                                                   *)
ExpMark(j, status) ==
  \/ Alive(j) /\ expJob' = [expJob EXCEPT ![j] = status]
  \/ (Fault \/ Dead(j)) /\ UNCHANGED expJob

ExpFail(j) ==
  /\ ExpAt(j, "fail") /\ ExpMark(j, "failed") /\ Release(j)
  /\ UNCHANGED <<expRow, expFile, expBase, expStops>>

ExpFinish(j) ==
  /\ ExpAt(j, "finish") /\ ExpMark(j, "success") /\ Release(j)
  /\ UNCHANGED <<expRow, expFile, expBase, expStops>>

-----------------------------------------------------------------------------
(* The pusher inserts records all the while.                               *)
ExpRecord(r) ==
  /\ r \in ExpRecords \ expRow /\ expRow' = expRow \cup {r}
  /\ UNCHANGED <<expJobVars, expFaults, expStops>>

(* The process is started again: exportSem is empty, and no goroutine      *)
(* takes up the jobs that were under way.                                  *)
ExpRestart ==
  /\ expStops < MaxExpStops /\ expStops' = expStops + 1
  /\ expRun' = [j \in ExpJobs |-> ExpIdle] /\ expSlot' = 0
  /\ UNCHANGED <<expRow, expJob, expFile, expBase, expFaults>>

ExpGo(j) ==
  \/ ExpInsert(j) \/ ExpLoad(j) \/ ExpLoadFails(j) \/ ExpBegin(j) \/ ExpOpen(j)
  \/ ExpPage(j) \/ ExpAggregate(j) \/ ExpFlush(j) \/ ExpStepFails(j) \/ ExpFail(j) \/ ExpFinish(j)

ExportNext ==
  \/ \E j \in ExpJobs :
       \/ \E kind \in {"records", "failures"} : ExpTakeSlot(j, kind)
       \/ ExpRefuse(j) \/ ExpGo(j) \/ ExpTimeout(j) \/ ExpDiskFull(j)
  \/ \E r \in ExpRecords : ExpRecord(r)
  \/ ExpRestart

ExportSpec == ExportInit /\ [][ExportNext]_exportVars

-----------------------------------------------------------------------------
(* A list of records marked "success" has each record in its file that was *)
(* there when it began, though records are inserted while it walks, out of *)
(* the order of their ids, and writes fail unnoticed.                      *)
SuccessIsComplete == \A j \in ExpJobs : expJob[j] = "success" => expBase[j] \subseteq expFile[j]

(* With no request and no goroutine under way all slots are free: no way   *)
(* out of CreateExport or runExport keeps one.                             *)
SlotsReturn == (\A j \in ExpJobs : expRun[j] = ExpIdle) => expSlot = 0

(* Both promises of CreateExport and runExport.                            *)
ExportsHold == SuccessIsComplete /\ SlotsReturn
=============================================================================
