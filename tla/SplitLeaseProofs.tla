-------------------------- MODULE SplitLeaseProofs --------------------------
(***************************************************************************)
(* Proofs about SplitLease for any processes, any number of goroutines and *)
(* pages, any disturbances and any bounds.                                 *)
(***************************************************************************)
EXTENDS SplitLease, FiniteSetTheorems, TLAPS

-----------------------------------------------------------------------------
(* Typing *)
LEMMA Stutters ==
  /\ MainTypeOK /\ UNCHANGED mainVars => MainTypeOK'
  /\ RowsTypeOK /\ UNCHANGED rowVars => RowsTypeOK'
  /\ ThreadTypeOK /\ UNCHANGED threadVars => ThreadTypeOK'
  /\ EnvTypeOK /\ UNCHANGED envVars => EnvTypeOK'
BY DEF MainTypeOK, RowsTypeOK, ThreadTypeOK, EnvTypeOK, mainVars, rowVars, threadVars, envVars

LEMMA GotoTyped ==
  ASSUME ThreadTypeOK, NEW t \in Threads, NEW l \in Pcs, Goto(t, l),
         l \in {"check", "renew", "insert"} => page[t] < NumPages, l # "delete"
  PROVE  ThreadTypeOK'
BY DEF ThreadTypeOK, Goto

LEMMA NoRowsTyped == RowsTypeOK /\ NoRows => pending' \in [Pages -> Nat]
BY DEF RowsTypeOK, NoRows

LEMMA InitTyped == Init => TypeOK
<1> SUFFICES ASSUME Init PROVE TypeOK
  OBVIOUS
<1>1. MainTypeOK /\ EnvTypeOK
  BY DEF Init, MainTypeOK, EnvTypeOK, Status
<1>2. RowsTypeOK
  BY DEF Init, RowsTypeOK
<1>3. ThreadTypeOK
  BY DEF Init, ThreadTypeOK, Pcs
<1> QED BY <1>1, <1>2, <1>3 DEF TypeOK

(* Taking the campaign, the deletion and the page loop *)
LEMMA LoopTyped ==
  ASSUME TypeOK, NEW t \in Threads,
         \/ MarkMainTaskRunning(t) \/ ClaimStaleSplit(t) \/ Read(t) \/ DeleteSubTasks(t)
         \/ DropRows(t) \/ Check(t) \/ RenewSplitLease(t) \/ CreateSubTasksWithLease(t) \/ Meta(t)
  PROVE  TypeOK'
<1> USE Stutters, GotoTyped, NoRowsTyped, SplitBounds DEF TypeOK, Terminal
<1>i. Id(t) \in Procs
  BY DEF Id, Threads
<1>1. CASE MarkMainTaskRunning(t)
  <2>1. MainTypeOK'
    BY ONLY <1>1, <1>i, TypeOK DEF MarkMainTaskRunning, TypeOK, MainTypeOK, Status
  <2>2. ThreadTypeOK'
    BY <1>1 DEF MarkMainTaskRunning, Pcs
  <2> QED BY <1>1, <2>1, <2>2 DEF MarkMainTaskRunning
<1>9. CASE ClaimStaleSplit(t)
  <2>1. MainTypeOK'
    BY ONLY <1>9, <1>i, TypeOK DEF ClaimStaleSplit, TypeOK, MainTypeOK, Status
  <2>2. ThreadTypeOK'
    BY <1>9 DEF ClaimStaleSplit, Pcs
  <2> QED BY <1>9, <2>1, <2>2 DEF ClaimStaleSplit
<1>2. CASE Read(t)
  BY <1>2 DEF Read, ThreadTypeOK, MainTypeOK, Pcs
<1>3. CASE DeleteSubTasks(t)
  <2>1. RowsTypeOK'
    BY <1>3 DEF DeleteSubTasks, RowsTypeOK, NoRows
  <2>2. ThreadTypeOK'
    <3>1. pc[t] = "delete" /\ page[t] = 0 /\ ThreadTypeOK
      BY <1>3 DEF DeleteSubTasks, ThreadTypeOK
    <3>2. CASE NumPages = 0
      <4>1. Goto(t, "failRead")
        BY <1>3, <3>2 DEF DeleteSubTasks
      <4> QED BY <3>1, <4>1 DEF Pcs
    <3>3. CASE NumPages # 0
      <4>1. Goto(t, "check") /\ 0 < NumPages
        BY <1>3, <3>3 DEF DeleteSubTasks
      <4> QED BY <3>1, <4>1 DEF Pcs
    <3> QED BY <3>2, <3>3
  <2> QED BY <1>3, <2>1, <2>2 DEF DeleteSubTasks
<1>4. CASE DropRows(t)
  BY <1>4 DEF DropRows, RowsTypeOK, Pcs
<1>5. CASE Check(t)
  <2>1. RowsTypeOK'
    BY <1>5 DEF Check, RowsTypeOK
  <2>2. ThreadTypeOK'
    BY <1>5 DEF Check, ThreadTypeOK, Goto, Pcs
  <2> QED BY <1>5, <2>1, <2>2 DEF Check
<1>6. CASE RenewSplitLease(t)
  <2>1. MainTypeOK'
    BY <1>6 DEF RenewSplitLease, MainTypeOK
  <2>2. ThreadTypeOK'
    BY <1>6 DEF RenewSplitLease, ThreadTypeOK, Goto, Pcs
  <2> QED BY <1>6, <2>1, <2>2 DEF RenewSplitLease
<1>7. CASE CreateSubTasksWithLease(t)
  <2>1. RowsTypeOK'
    BY <1>7 DEF CreateSubTasksWithLease, RowsTypeOK
  <2>2. MainTypeOK'
    BY <1>7 DEF CreateSubTasksWithLease, MainTypeOK
  <2>3. ThreadTypeOK'
    BY <1>7 DEF CreateSubTasksWithLease, ThreadTypeOK, Goto, Pcs
  <2> QED BY <1>7, <2>1, <2>2, <2>3 DEF CreateSubTasksWithLease
<1>8. CASE Meta(t)
  <2>1. MainTypeOK'
    BY <1>8 DEF Meta, PatchMainMeta, MainTypeOK
  <2>2. ThreadTypeOK'
    BY <1>8 DEF Meta, ThreadTypeOK, Goto, Pcs
  <2> QED BY <1>8, <2>1, <2>2 DEF Meta
<1> QED BY <1>1, <1>2, <1>3, <1>4, <1>5, <1>6, <1>7, <1>8, <1>9

(* The tail, the error path and the failing statements *)
LEMMA TailTyped ==
  ASSUME TypeOK, NEW t \in Threads,
         \/ Final(t) \/ Touch(t) \/ Patch(t) \/ Open(t) \/ CheckOverCapacity(t)
         \/ FailRead(t) \/ Fail(t) \/ Clear(t) \/ Tell(t) \/ AudienceFails(t) \/ DbError(t)
  PROVE  TypeOK'
<1> USE Stutters, GotoTyped DEF TypeOK, Terminal
<1>1. CASE Final(t)
  <2>1. RowsTypeOK'
    BY <1>1, NoRowsTyped DEF Final, RowsTypeOK
  <2>2. ThreadTypeOK'
    BY <1>1 DEF Final, Pcs
  <2> QED BY <1>1, <2>1, <2>2 DEF Final
<1>2. CASE Touch(t) \/ Patch(t) \/ Open(t) \/ Clear(t)
  <2>1. MainTypeOK'
    BY <1>2 DEF Touch, Patch, Open, Clear, PatchMainMeta, ClearSplitLease, MainTypeOK, ThreadTypeOK, Status
  <2>2. ThreadTypeOK'
    BY <1>2 DEF Touch, Patch, Open, Clear, Pcs
  <2> QED BY <1>2, <2>1, <2>2 DEF Touch, Patch, Open, Clear
<1>3. CASE CheckOverCapacity(t)
  <2>1. MainTypeOK' /\ EnvTypeOK'
    BY <1>3 DEF CheckOverCapacity, PauseMain, MainTypeOK, EnvTypeOK, Status
  <2>2. ThreadTypeOK'
    BY <1>3 DEF CheckOverCapacity, Pcs
  <2> QED BY <1>3, <2>1, <2>2 DEF CheckOverCapacity
<1>4. CASE FailRead(t)
  <2>1. ThreadTypeOK'
    BY <1>4 DEF FailRead, ThreadTypeOK, Goto, Pcs
  <2> QED BY <1>4, <2>1 DEF FailRead
<1>5. CASE Fail(t)
  <2>1. MainTypeOK'
    BY <1>5 DEF Fail, MainTypeOK, ThreadTypeOK, Status
  <2>2. ThreadTypeOK'
    BY <1>5 DEF Fail, Pcs
  <2> QED BY <1>5, <2>1, <2>2 DEF Fail
<1>8. CASE Tell(t)
  BY <1>8 DEF Tell, Pcs
<1>6. CASE AudienceFails(t)
  BY <1>6 DEF AudienceFails, Fault, EnvTypeOK, Pcs
<1>7. CASE DbError(t)
  <2>1. EnvTypeOK'
    BY <1>7 DEF DbError, Fault, EnvTypeOK
  <2>2. ThreadTypeOK'
    <3>1. pc[t] \in Pcs /\ page[t] \in Nat /\ NumPages \in Nat /\ (pc[t] = "delete" => page[t] = 0)
      BY SplitBounds DEF ThreadTypeOK
    <3>2. \E l \in Pcs : /\ Goto(t, l) /\ l \notin {"renew", "insert", "delete"}
                         /\ l = "check" => page[t] < NumPages
      BY <1>7, <3>1 DEF DbError, Pcs
    <3> QED BY <3>2
  <2> QED BY <1>7, <2>1, <2>2 DEF DbError
<1> QED BY <1>1, <1>2, <1>3, <1>4, <1>5, <1>6, <1>7, <1>8

(* The claim loops, the API and the environment *)
LEMMA OutsideTyped ==
  ASSUME TypeOK, PipelineStep \/ ApiStep \/ LeaseTimeout \/ (\E p \in Procs : Crash(p)) \/ UNCHANGED vars
  PROVE  TypeOK'
<1> USE Stutters DEF TypeOK, Terminal
<1>1. ASSUME NEW p \in Pages, ShardDone(p) PROVE TypeOK'
  <2>1. MainTypeOK' /\ RowsTypeOK'
    BY <1>1 DEF ShardDone, MainTypeOK, RowsTypeOK
  <2> QED BY <1>1, <2>1 DEF ShardDone
<1>2. CASE Close
  <2>1. MainTypeOK'
    BY <1>2 DEF Close, MainTypeOK, Status
  <2> QED BY <1>2, <2>1 DEF Close
<1>8. CASE Resume
  <2>1. MainTypeOK' /\ RowsTypeOK' /\ ThreadTypeOK'
    BY <1>8 DEF Resume
  <2>2. EnvTypeOK'
    BY <1>8 DEF Resume, EnvTypeOK
  <2> QED BY <2>1, <2>2
<1>9. ASSUME NEW next \in resuming, ResumeMainTask(next) PROVE TypeOK'
  <2>1. MainTypeOK' /\ EnvTypeOK'
    BY <1>9 DEF ResumeMainTask, MainTypeOK, EnvTypeOK, Status
  <2> QED BY <1>9, <2>1 DEF ResumeMainTask
<1>3. CASE Pause \/ CancelMain \/ LeaseTimeout
  <2>1. status' \in Status /\ version' \in Nat
    BY <1>3 DEF Pause, PauseMain, CancelMain, LeaseTimeout, MainTypeOK, Status
  <2>3. MainTypeOK'
    BY <1>3, <2>1 DEF Pause, CancelMain, LeaseTimeout, MainTypeOK
  <2>2. EnvTypeOK'
    <3>1. CASE Pause
      BY <3>1 DEF Pause, PauseMain, EnvTypeOK
    <3>2. CASE CancelMain
      BY <3>2 DEF CancelMain, EnvTypeOK
    <3>3. CASE LeaseTimeout
      BY <3>3 DEF LeaseTimeout, EnvTypeOK
    <3> QED BY <1>3, <3>1, <3>2, <3>3
  <2> QED BY <1>3, <2>2, <2>3 DEF Pause, CancelMain, LeaseTimeout
<1>4. CASE CancelSubs
  <2>1. RowsTypeOK' /\ EnvTypeOK'
    BY <1>4 DEF CancelSubs, NoRows, RowsTypeOK, EnvTypeOK
  <2> QED BY <1>4, <2>1 DEF CancelSubs
<1>5. CASE CancelStops
  BY <1>5 DEF CancelStops, Fault, EnvTypeOK
<1>6. ASSUME NEW p \in Procs, Crash(p) PROVE TypeOK'
  <2>1. EnvTypeOK'
    BY <1>6 DEF Crash, Fault, EnvTypeOK
  <2>2. ThreadTypeOK'
    BY <1>6 DEF Crash, ThreadTypeOK, Pcs
  <2> QED BY <1>6, <2>1, <2>2 DEF Crash
<1>7. CASE UNCHANGED vars
  BY <1>7 DEF vars
<1> QED BY <1>1, <1>2, <1>3, <1>4, <1>5, <1>6, <1>7, <1>8, <1>9 DEF PipelineStep, ApiStep

(* Every reachable state of the split is well-typed, and no splitter asks for *)
(* a page behind the last one.                                                *)
THEOREM SplitTyping == Spec => []TypeOK
<1>1. TypeOK /\ [Next]_vars => TypeOK'
  BY LoopTyped, TailTyped, OutsideTyped DEF Next, SplitStep
<1> QED BY InitTyped, <1>1, PTL DEF Spec

-----------------------------------------------------------------------------
(* No orphans: a row is inserted by a transaction that finds the campaign     *)
(* running, a cancelled campaign is never running again, and the API cancels  *)
(* the rows after it cancelled the campaign.                                  *)
CancelInv ==
  /\ cancelPc # "no" => status = "cancelled"
  /\ NoOrphanShards

LEMMA RowsOnlyWhenRunning ==
  ASSUME TypeOK, [Next]_vars, status = "cancelled", \A p \in Pages : pending[p] = 0
  PROVE  \A p \in Pages : pending'[p] = 0
<1> USE DEF rowVars
<1>1. ASSUME NEW t \in Threads, SplitStep(t) PROVE \A p \in Pages : pending'[p] = 0
  BY <1>1 DEF SplitStep, MarkMainTaskRunning, ClaimStaleSplit, Reclaimable, Read, DeleteSubTasks, DropRows,
     Check, RenewSplitLease, CreateSubTasksWithLease, HoldsLease, Meta, Final, Touch, Patch, Open,
     CheckOverCapacity, FailRead, Fail, Clear, Tell, NoRows
<1>2. ASSUME NEW t \in Threads, AudienceFails(t) \/ DbError(t) PROVE UNCHANGED pending
  BY <1>2 DEF AudienceFails, DbError
<1>3. CASE PipelineStep \/ ApiStep
  BY <1>3 DEF PipelineStep, ShardDone, Claimable, Close, ApiStep, Pause, Resume, ResumeMainTask, CancelMain, CancelSubs,
     CancelStops, NoRows
<1>4. CASE LeaseTimeout \/ (\E p \in Procs : Crash(p)) \/ UNCHANGED vars
  BY <1>4 DEF LeaseTimeout, Crash, vars
<1> QED BY <1>1, <1>2, <1>3, <1>4 DEF Next

LEMMA CancelledForGood ==
  ASSUME TypeOK, [Next]_vars
  PROVE  /\ status \in Terminal => status' = status
         /\ status = "paused" => status' \in {"paused", "running", "pending", "cancelled"}
<1> USE DEF mainVars, Terminal
<1>1. ASSUME NEW t \in Threads, SplitStep(t)
      PROVE  status' = status \/ status \in {"pending", "running"}
  BY <1>1 DEF SplitStep, MarkMainTaskRunning, ClaimStaleSplit, Read, DeleteSubTasks, DropRows, Check,
     RenewSplitLease, CreateSubTasksWithLease, Meta, Final, Touch, Patch, Open, CheckOverCapacity,
     PauseMain, FailRead, Fail, Clear, Tell
<1>2. ASSUME NEW t \in Threads, AudienceFails(t) \/ DbError(t) PROVE UNCHANGED status
  BY <1>2 DEF AudienceFails, DbError
<1>3. CASE PipelineStep \/ ApiStep
  BY <1>3 DEF PipelineStep, ShardDone, Close, ApiStep, Pause, PauseMain, Resume, ResumeMainTask,
     CancelMain, CancelSubs, CancelStops, EnvTypeOK, TypeOK
<1>4. CASE LeaseTimeout \/ (\E p \in Procs : Crash(p)) \/ UNCHANGED vars
  BY <1>4 DEF LeaseTimeout, Crash, vars
<1> QED BY <1>1, <1>2, <1>3, <1>4 DEF Next

LEMMA CancelStep ==
  ASSUME TypeOK, CancelInv, [Next]_vars
  PROVE  CancelInv'
<1> USE DEF envVars
<1>1. cancelPc' = cancelPc \/ CancelMain \/ CancelSubs \/ CancelStops
  <2>1. ASSUME NEW t \in Threads, SplitStep(t) PROVE UNCHANGED cancelPc
    BY <2>1 DEF SplitStep, MarkMainTaskRunning, ClaimStaleSplit, Read, DeleteSubTasks, DropRows, Check,
       RenewSplitLease, CreateSubTasksWithLease, Meta, Final, Touch, Patch, Open, CheckOverCapacity,
       FailRead, Fail, Clear, Tell
  <2>2. ASSUME NEW t \in Threads, AudienceFails(t) \/ DbError(t) PROVE UNCHANGED cancelPc
    BY <2>2 DEF AudienceFails, DbError
  <2>3. CASE PipelineStep \/ Pause \/ Resume \/ \E next \in resuming : ResumeMainTask(next)
    BY <2>3 DEF PipelineStep, ShardDone, Close, Pause, Resume, ResumeMainTask
  <2>4. CASE LeaseTimeout \/ (\E p \in Procs : Crash(p)) \/ UNCHANGED vars
    BY <2>4 DEF LeaseTimeout, Crash, vars
  <2> QED BY <2>1, <2>2, <2>3, <2>4 DEF Next, ApiStep
<1>2. CASE cancelPc' = cancelPc
  BY <1>2, RowsOnlyWhenRunning, CancelledForGood DEF CancelInv, NoOrphanShards, Terminal
<1>3. CASE CancelMain \/ CancelSubs \/ CancelStops
  BY <1>3 DEF CancelMain, CancelSubs, CancelStops, NoRows, CancelInv, NoOrphanShards, mainVars
<1> QED BY <1>1, <1>2, <1>3

(* CreateSubTasksWithLease keeps the promise of its comment: no insertion    *)
(* survives a cancellation, however late a splitter wakes up.                *)
THEOREM NoOrphans == Spec => []NoOrphanShards
<1>1. Init => CancelInv
  BY DEF Init, CancelInv, NoOrphanShards
<1>2. CancelInv => NoOrphanShards
  BY DEF CancelInv
<1> QED BY <1>1, <1>2, CancelStep, SplitTyping, PTL DEF Spec

(* The failure CAS, the splitter's tail and the automatic pause never        *)
(* overwrite a final status, and a pause is left by the API only.            *)
THEOREM SplitKeepsStatus == Spec => StatusHolds
<1>1. TypeOK /\ [Next]_vars =>
        [/\ status \in Terminal => status' = status
         /\ status = "paused" => status' \in {"paused", "running", "pending", "cancelled"}]_vars
  BY CancelledForGood
<1> QED BY <1>1, SplitTyping, PTL DEF Spec, StatusHolds

-----------------------------------------------------------------------------
(* The lease as the gate, when leases time out only after their owner has    *)
(* stopped, and no API call pauses and no statement fails.                   *)
Steady == MaxStalls = 0 /\ Env \cap {"pause", "dbError"} = {}

Leased == status = "running" /\ splitOwner # NoProc
Opened == status \in {"running", "paused"} /\ splitOwner = NoProc

OneSplitter == \A t, u \in Threads : Working(t) /\ Working(u) => t = u

(* Who works on a campaign that runs has its lease, and the version it read. *)
Owns(t) ==
  Working(t) =>
    /\ status \in {"running", "cancelled"} \/ (status = "failed" /\ pc[t] = "giveUp")
    /\ pc[t] \in {"dropRows", "clear", "giveUp"} => status # "running"
    /\ status = "running" => splitOwner = Id(t) /\ ~leaseStale /\ (pc[t] # "read" => ver[t] = version)

(* The rows are those of the pages written so far.                           *)
Wrote(t) ==
  status = "running" =>
    /\ pc[t] \in {"check", "renew", "insert", "meta"} =>
         page[t] <= NumPages /\ \A p \in Pages : pending[p] = IF p <= page[t] THEN 1 ELSE 0
    /\ pc[t] = "meta" => page[t] > 0
    /\ pc[t] \in {"final", "touch", "patch", "open"} =>
         page[t] = NumPages /\ NumPages > 0 /\ \A p \in Pages : pending[p] = 1
    /\ pc[t] = "open" => subTaskTotal = NumPages

Finished == {p \in Pages : done[p] = 1}

(* Who may pause for capacity has opened the campaign, or it has ended.      *)
Settled == \A t \in Threads : pc[t] = "capacity" => status # "pending" /\ ~Leased

Phases ==
  /\ resuming \subseteq {"running"} /\ (status = "paused" => splitOwner = NoProc)
  /\ status = "pending" \/ Leased => subTaskDone = 0 /\ \A p \in Pages : done[p] = 0 /\ sent[p] = 0
  /\ Opened => /\ SplitComplete /\ NumPages > 0 /\ subTaskDone = Cardinality(Finished)
               /\ \A p \in Pages : sent[p] = done[p]
  /\ PagesSentOnce /\ ClosedReachedAll

SplitInv == OneSplitter /\ (\A t \in Threads : Owns(t) /\ Wrote(t)) /\ Settled /\ Phases

LEMMA SplitInit == Init => SplitInv
<1> SUFFICES ASSUME Init PROVE SplitInv
  OBVIOUS
<1>1. \A t \in Threads : ~Working(t)
  BY DEF Init, Working
<1>2. OneSplitter /\ \A t \in Threads : Owns(t) /\ Wrote(t)
  BY <1>1 DEF OneSplitter, Owns, Wrote, Working, Init
<1>3. Phases
  BY DEF Init, Phases, Leased, Opened, PagesSentOnce, ClosedReachedAll
<1>4. Settled
  BY DEF Init, Settled
<1> QED BY <1>2, <1>3, <1>4 DEF SplitInv

LEMMA IdIsProc == ASSUME NEW t \in Threads PROVE Id(t) \in Procs /\ Id(t) # NoProc
BY ProcsAssumption DEF Id, Threads

LEMMA WorkerLeases ==
  ASSUME SplitInv, NEW t \in Threads, Working(t), status = "running"
  PROVE  Leased /\ splitOwner = Id(t)
BY IdIsProc DEF SplitInv, Owns, Leased

(* One goroutine works, before and after.                                    *)
LEMMA WorkerFrame ==
  ASSUME NEW t \in Threads, \A u \in Threads : u # t => pc'[u] = pc[u] /\ ~Working(u),
         Owns(t)', Wrote(t)', Settled', Phases'
  PROVE  SplitInv'
<1>1. \A u \in Threads : u # t => ~Working(u)'
  BY DEF Working
<1>2. OneSplitter'
  BY <1>1 DEF OneSplitter
<1>3. ASSUME NEW u \in Threads, ~Working(u)' PROVE Owns(u)' /\ Wrote(u)'
  BY <1>3 DEF Owns, Wrote, Working
<1> QED BY <1>1, <1>2, <1>3 DEF SplitInv

LEMMA WorkerSettled ==
  ASSUME SplitInv, NEW t \in Threads, Working(t), \A u \in Threads : u # t => pc'[u] = pc[u],
         pc'[t] = "capacity" => splitOwner' = NoProc,
         UNCHANGED <<status, splitOwner>> \/ status' \in {"cancelled", "failed"} \/ (status' = status /\ splitOwner' = NoProc)
  PROVE  Settled'
<1>1. CASE status = "running"
  <2>1. Leased
    BY <1>1, WorkerLeases
  <2>2. \A u \in Threads : pc[u] # "capacity"
    BY <2>1 DEF SplitInv, Settled
  <2> QED BY <1>1, <2>2 DEF Settled, Leased
<1>2. CASE status # "running"
  <2>1. status \in {"cancelled", "failed"}
    BY <1>2 DEF SplitInv, Owns
  <2> QED BY <2>1 DEF Settled, Leased
<1> QED BY <1>1, <1>2

(* A step of one that works leaves the campaign as it is or in the hands of  *)
(* the same process.                                                         *)
LEMMA WorkerPhases ==
  ASSUME SplitInv, NEW t \in Threads, Working(t), UNCHANGED <<status, splitOwner, subTaskDone, sent, resuming>>,
         done' = done \/ \A p \in Pages : done'[p] = 0
  PROVE  Phases'
<1>1. CASE status = "running"
  <2>1. Leased /\ Leased' /\ ~Opened'
    BY <1>1, WorkerLeases DEF Leased, Opened
  <2> QED BY <1>1, <2>1 DEF SplitInv, Phases, PagesSentOnce, ClosedReachedAll
<1>2. CASE status # "running"
  <2>1. status \in {"cancelled", "failed"}
    BY <1>2 DEF SplitInv, Owns
  <2> QED BY <2>1 DEF SplitInv, Phases, Leased, Opened, PagesSentOnce, ClosedReachedAll
<1> QED BY <1>1, <1>2

LEMMA PhasesEnded ==
  ASSUME SplitInv, status' \in {"cancelled", "failed"}, UNCHANGED <<sent, resuming>>
  PROVE  Phases'
BY DEF SplitInv, Phases, Leased, Opened, PagesSentOnce, ClosedReachedAll

(* Threads that stop, and what does not concern the split                    *)
LEMMA StopFrame ==
  ASSUME SplitInv, UNCHANGED <<mainVars, rowVars, ver, page, resuming>>,
         \A u \in Threads : pc'[u] \in {pc[u], "idle"}
  PROVE  SplitInv'
<1>1. \A u \in Threads : Working(u)' => Working(u) /\ pc'[u] = pc[u]
  BY DEF Working
<1>2. OneSplitter'
  BY <1>1 DEF SplitInv, OneSplitter
<1>3. ASSUME NEW u \in Threads PROVE Owns(u)' /\ Wrote(u)'
  <2>1. CASE Working(u)'
    BY <1>1, <2>1 DEF SplitInv, Owns, Wrote, mainVars, rowVars
  <2>2. CASE ~Working(u)'
    BY <2>2 DEF Owns, Wrote, Working
  <2> QED BY <2>1, <2>2
<1>4. Phases'
  <2>1. UNCHANGED <<Leased, Opened, SplitComplete, Finished>>
    BY DEF mainVars, rowVars, Leased, Opened, SplitComplete, Finished
  <2> QED BY <2>1 DEF SplitInv, Phases, PagesSentOnce, ClosedReachedAll, mainVars, rowVars
<1>5. Settled'
  BY DEF SplitInv, Settled, Leased, mainVars
<1> QED BY <1>2, <1>3, <1>4, <1>5 DEF SplitInv

LEMMA WorkerAlone ==
  ASSUME SplitInv, NEW t \in Threads, Working(t)
  PROVE  \A u \in Threads : u # t => ~Working(u)
BY DEF SplitInv, OneSplitter

(* Taking the campaign, the deletion and the page loop                       *)
LEMMA LoopSteady ==
  ASSUME TypeOK, SplitInv, NEW t \in Threads,
         \/ MarkMainTaskRunning(t) \/ ClaimStaleSplit(t) \/ Read(t) \/ DeleteSubTasks(t)
         \/ DropRows(t) \/ Check(t) \/ RenewSplitLease(t) \/ CreateSubTasksWithLease(t) \/ Meta(t)
  PROVE  SplitInv'
<1>t. /\ pc \in [Threads -> Pcs] /\ ver \in [Threads -> Nat] /\ page \in [Threads -> Nat]
      /\ pending \in [Pages -> Nat] /\ done \in [Pages -> Nat] /\ NumPages \in Nat
  BY SplitBounds DEF TypeOK, ThreadTypeOK, RowsTypeOK
<1>i. Id(t) \in Procs /\ Id(t) # NoProc
  BY IdIsProc
<1>o. \A u \in Threads : u # t => pc'[u] = pc[u]
  BY <1>t DEF MarkMainTaskRunning, ClaimStaleSplit, Read, DeleteSubTasks, DropRows, Check, RenewSplitLease,
     CreateSubTasksWithLease, Meta, Goto
<1>s. Owns(t) /\ Wrote(t)
  BY DEF SplitInv
<1>1. CASE MarkMainTaskRunning(t) \/ ClaimStaleSplit(t)
  <2>1. /\ status \in {"pending", "running"} /\ status' = "running" /\ splitOwner' = Id(t) /\ leaseStale' = FALSE
        /\ UNCHANGED <<subTaskDone, pending, done, sent, resuming, version>> /\ pc'[t] = "read"
    BY <1>t, <1>1 DEF MarkMainTaskRunning, ClaimStaleSplit, Reclaimable, Goto, rowVars, envVars
  <2>2. \A u \in Threads : ~Working(u)
    BY <1>1 DEF MarkMainTaskRunning, ClaimStaleSplit, Reclaimable, SplitInv, Owns
  <2>3. status = "pending" \/ Leased
    BY <1>1 DEF MarkMainTaskRunning, ClaimStaleSplit, Reclaimable, Leased
  <2>4. Phases'
    BY <1>i, <2>1, <2>3 DEF SplitInv, Phases, Leased, Opened, PagesSentOnce, ClosedReachedAll
  <2>5. Owns(t)' /\ Wrote(t)'
    BY <2>1 DEF Owns, Wrote, Working
  <2>6. Settled'
    BY <1>o, <2>1, <2>3 DEF SplitInv, Settled
  <2> QED BY <1>o, <2>2, <2>4, <2>5, <2>6, WorkerFrame
<1>2. CASE Read(t) \/ DeleteSubTasks(t) \/ DropRows(t) \/ Check(t) \/ RenewSplitLease(t)
           \/ CreateSubTasksWithLease(t) \/ Meta(t)
  <2>1. Working(t)
    BY <1>2 DEF Read, DeleteSubTasks, DropRows, Check, RenewSplitLease, CreateSubTasksWithLease, Meta, Working
  <2>2. /\ UNCHANGED <<status, version, splitOwner, subTaskDone, sent, resuming>>
        /\ done' = done \/ \A p \in Pages : done'[p] = 0
    BY <1>2 DEF Read, DeleteSubTasks, DropRows, Check, RenewSplitLease, CreateSubTasksWithLease, Meta,
       mainVars, rowVars, envVars
  <2>3. Phases'
    BY <2>1, <2>2, WorkerPhases
  <2>4. status = "running" => splitOwner = Id(t) /\ ~leaseStale /\ (pc[t] # "read" => ver[t] = version)
    BY <1>s, <2>1 DEF Owns
  <2>5. status \in {"running", "cancelled"} \/ (status = "failed" /\ pc[t] = "giveUp")
    BY <1>s, <2>1 DEF Owns
  <2>s. Settled'
    <3>1. pc'[t] # "capacity"
      BY <1>t, <1>2 DEF Read, DeleteSubTasks, DropRows, Check, RenewSplitLease, CreateSubTasksWithLease, Meta, Goto
    <3> QED BY <1>o, <2>1, <2>2, <3>1, WorkerSettled
  <2>f. ASSUME Owns(t)', Wrote(t)' PROVE SplitInv'
    BY <1>o, <2>1, <2>3, <2>s, <2>f, WorkerAlone, WorkerFrame
  <2>6. CASE Read(t)
    <3>1. /\ pc'[t] = (IF status = "cancelled" THEN "dropRows" ELSE "delete") /\ ver'[t] = version
          /\ leaseStale' = leaseStale /\ pc[t] = "read"
      BY <1>t, <2>5, <2>6 DEF Read, mainVars
    <3>2. Owns(t)' /\ Wrote(t)'
      BY <2>2, <2>4, <2>5, <3>1 DEF Owns, Wrote, Working
    <3> QED BY <2>f, <3>2
  <2>7. CASE DeleteSubTasks(t)
    <3>1. /\ pc'[t] \in {"check", "failRead"} /\ UNCHANGED <<ver, page, leaseStale>> /\ pc[t] = "delete"
          /\ page[t] = 0 /\ \A p \in Pages : pending'[p] = 0
      BY <1>t, <2>7 DEF DeleteSubTasks, Goto, mainVars, NoRows, TypeOK, ThreadTypeOK
    <3>2. \A p \in Pages : pending'[p] = IF p <= 0 THEN 1 ELSE 0
      BY <3>1 DEF Pages
    <3>3. Owns(t)'
      BY <2>2, <2>4, <2>5, <3>1 DEF Owns
    <3>4. Wrote(t)'
      BY <1>t, <3>1, <3>2 DEF Wrote
    <3> QED BY <2>f, <3>3, <3>4
  <2>8. CASE DropRows(t)
    <3>1. pc'[t] = "clear" /\ status # "running" /\ pc[t] = "dropRows"
      BY <1>t, <1>s, <2>1, <2>8 DEF DropRows, Goto, Owns
    <3>2. Owns(t)' /\ Wrote(t)'
      BY <2>2, <2>5, <3>1 DEF Owns, Wrote
    <3> QED BY <2>f, <3>2
  <2>9. CASE Check(t)
    <3>1. /\ UNCHANGED <<ver, page, leaseStale>> /\ pc[t] = "check" /\ pc'[t] \in {"renew", "failRead"}
          /\ status = "running" => pending' = pending
      BY <1>t, <2>9 DEF Check, Goto, mainVars
    <3>2. Owns(t)' /\ Wrote(t)'
      BY <1>s, <2>2, <2>4, <2>5, <3>1 DEF Owns, Wrote
    <3> QED BY <2>f, <3>2
  <2>10. CASE RenewSplitLease(t)
    <3>1. /\ UNCHANGED <<ver, page, pending>> /\ pc[t] = "renew" /\ pc'[t] \in {"insert", "failRead"}
          /\ status = "running" => leaseStale' = FALSE
      BY <1>t, <2>4, <2>10 DEF RenewSplitLease, Goto, HoldsLease, rowVars
    <3>2. Owns(t)' /\ Wrote(t)'
      BY <1>s, <2>2, <2>4, <2>5, <3>1 DEF Owns, Wrote
    <3> QED BY <2>f, <3>2
  <2>11. CASE CreateSubTasksWithLease(t)
    <3>1. CASE status = "running"
      <4>1. /\ pending' = [pending EXCEPT ![page[t] + 1] = @ + 1] /\ leaseStale' = FALSE /\ ver' = ver
            /\ pc[t] = "insert" /\ pc'[t] = "meta" /\ page'[t] = page[t] + 1
        BY <1>t, <2>4, <2>11, <3>1 DEF CreateSubTasksWithLease, HoldsLease
      <4>2. page[t] < NumPages /\ page[t] \in Nat
        BY <1>t, <4>1 DEF TypeOK, ThreadTypeOK
      <4>3. \A p \in Pages : pending[p] = IF p <= page[t] THEN 1 ELSE 0
        BY <1>s, <3>1, <4>1 DEF Wrote
      <4>4. ASSUME NEW p \in Pages PROVE pending'[p] = IF p <= page[t] + 1 THEN 1 ELSE 0
        <5>1. p \in Nat
          BY DEF Pages
        <5>2. CASE p = page[t] + 1
          BY <1>t, <4>1, <4>2, <4>3, <5>1, <5>2
        <5>3. CASE p # page[t] + 1
          <6>1. pending'[p] = pending[p]
            BY <1>t, <4>1, <5>3
          <6>2. p <= page[t] + 1 <=> p <= page[t]
            BY <4>2, <5>1, <5>3
          <6> QED BY <4>3, <6>1, <6>2
        <5> QED BY <5>2, <5>3
      <4>5. Owns(t)'
        BY <2>2, <2>4, <2>5, <3>1, <4>1 DEF Owns
      <4>6. Wrote(t)'
        BY <1>t, <4>1, <4>2, <4>4 DEF Wrote
      <4> QED BY <2>f, <4>5, <4>6
    <3>2. CASE status # "running"
      <4>1. pc'[t] = "failRead" /\ pc[t] = "insert"
        BY <1>t, <2>11, <3>2 DEF CreateSubTasksWithLease, HoldsLease, Goto
      <4>2. Owns(t)' /\ Wrote(t)'
        BY <2>2, <2>5, <3>2, <4>1 DEF Owns, Wrote
      <4> QED BY <2>f, <4>2
    <3> QED BY <3>1, <3>2
  <2>12. CASE Meta(t)
    <3>1. /\ UNCHANGED <<ver, page, pending, leaseStale>> /\ pc[t] = "meta"
          /\ pc'[t] = IF page[t] < NumPages THEN "check" ELSE "final"
      BY <1>t, <2>12 DEF Meta, Goto, rowVars
    <3>2. Owns(t)'
      BY <2>2, <2>4, <2>5, <3>1 DEF Owns
    <3>3. ASSUME status = "running", page[t] >= NumPages
          PROVE  page[t] = NumPages /\ NumPages > 0 /\ \A p \in Pages : pending[p] = 1
      <4>1. page[t] <= NumPages /\ page[t] > 0 /\ \A p \in Pages : pending[p] = IF p <= page[t] THEN 1 ELSE 0
        BY <1>s, <3>1, <3>3 DEF Wrote
      <4>2. page[t] = NumPages
        BY <1>t, <3>3, <4>1
      <4> QED BY <4>1, <4>2 DEF Pages
    <3>4. page[t] < NumPages \/ page[t] >= NumPages
      BY <1>t
    <3>5. Wrote(t)'
      BY <1>s, <2>2, <3>1, <3>3, <3>4 DEF Wrote
    <3> QED BY <2>f, <3>2, <3>5
  <2> QED BY <1>2, <2>6, <2>7, <2>8, <2>9, <2>10, <2>11, <2>12
<1> QED BY <1>1, <1>2

(* A campaign that was opened is nobody's to split, running or paused.       *)
LEMMA OpenedIsSplit ==
  ASSUME SplitInv, Opened
  PROVE  \A u \in Threads : ~Working(u)
BY IdIsProc DEF SplitInv, Owns, Opened

LEMMA OpenedFrame ==
  ASSUME SplitInv, Opened, status' \in {"running", "paused"}, resuming' \subseteq {"running"},
         UNCHANGED <<splitOwner, subTaskTotal, subTaskDone, rowVars>>,
         \A u \in Threads : pc'[u] \in {pc[u], "idle"}
  PROVE  SplitInv'
<1>1. \A u \in Threads : ~Working(u)'
  BY OpenedIsSplit DEF Working
<1>2. OneSplitter' /\ \A u \in Threads : Owns(u)' /\ Wrote(u)'
  BY <1>1 DEF OneSplitter, Owns, Wrote, Working
<1>3. Settled' /\ ~Leased' /\ status' # "pending"
  BY DEF Settled, Leased, Opened
<1>4. SplitComplete' /\ UNCHANGED <<pending, done, sent, Finished, PagesSentOnce>>
  BY DEF SplitInv, Phases, SplitComplete, rowVars, Finished, PagesSentOnce
<1>5. Phases'
  BY <1>3, <1>4 DEF SplitInv, Phases, Opened, ClosedReachedAll
<1> QED BY <1>2, <1>3, <1>5 DEF SplitInv

LEMMA CapacitySteady ==
  ASSUME TypeOK, SplitInv, NEW t \in Threads, CheckOverCapacity(t)
  PROVE  SplitInv'
<1>1. /\ pc[t] = "capacity" /\ \A u \in Threads : pc'[u] \in {pc[u], "idle"}
      /\ UNCHANGED <<splitOwner, leaseStale, subTaskTotal, subTaskDone, rowVars, ver, page, resuming>>
  BY DEF CheckOverCapacity, Goto, TypeOK, ThreadTypeOK
<1>2. CASE UNCHANGED <<status, version>>
  BY <1>1, <1>2, StopFrame DEF mainVars
<1>3. CASE PauseMain
  <2>1. status = "running" /\ splitOwner = NoProc /\ status' = "paused"
    BY <1>1, <1>3 DEF PauseMain, SplitInv, Settled, Leased
  <2> QED BY <1>1, <2>1, OpenedFrame DEF Opened, SplitInv, Phases
<1> QED BY <1>2, <1>3 DEF CheckOverCapacity

(* The tail, the error path and the failing statements                       *)
LEMMA TailSteady ==
  ASSUME Steady, TypeOK, SplitInv, NEW t \in Threads,
         \/ Final(t) \/ Touch(t) \/ Patch(t) \/ Open(t) \/ CheckOverCapacity(t)
         \/ FailRead(t) \/ Fail(t) \/ Clear(t) \/ Tell(t) \/ AudienceFails(t) \/ DbError(t)
  PROVE  SplitInv'
<1>t. /\ pc \in [Threads -> Pcs] /\ ver \in [Threads -> Nat] /\ page \in [Threads -> Nat]
      /\ pending \in [Pages -> Nat] /\ done \in [Pages -> Nat] /\ NumPages \in Nat
  BY SplitBounds DEF TypeOK, ThreadTypeOK, RowsTypeOK
<1>i. Id(t) \in Procs /\ Id(t) # NoProc
  BY IdIsProc
<1>s. Owns(t) /\ Wrote(t)
  BY DEF SplitInv
<1>d. ~DbError(t)
  BY DEF DbError, Fault, Steady
<1>1. CASE CheckOverCapacity(t)
  BY <1>1, CapacitySteady
<1>3. CASE Tell(t)
  <2>1. UNCHANGED <<mainVars, rowVars, ver, page, resuming>> /\ \A u \in Threads : pc'[u] \in {pc[u], "idle"}
    BY <1>t, <1>3 DEF Tell, Goto, envVars
  <2> QED BY <2>1, StopFrame
<1>2. CASE Final(t) \/ Touch(t) \/ Patch(t) \/ Open(t) \/ FailRead(t) \/ Fail(t) \/ Clear(t) \/ AudienceFails(t)
  <2>o. \A u \in Threads : u # t => pc'[u] = pc[u]
    BY <1>t, <1>2 DEF Final, Touch, Patch, Open, FailRead, Fail, Clear, AudienceFails, Goto
  <2>1. Working(t)
    BY <1>2 DEF Final, Touch, Patch, Open, FailRead, Fail, Clear, AudienceFails, Working
  <2>2. UNCHANGED <<ver, page, subTaskDone, done, sent, resuming>>
    BY <1>2 DEF Final, Touch, Patch, Open, FailRead, Fail, Clear, AudienceFails, Goto, mainVars, rowVars, envVars
  <2>4. status = "running" => splitOwner = Id(t) /\ ~leaseStale /\ (pc[t] # "read" => ver[t] = version)
    BY <1>s, <2>1 DEF Owns
  <2>5. status \in {"running", "cancelled"} \/ (status = "failed" /\ pc[t] = "giveUp")
    BY <1>s, <2>1 DEF Owns
  <2>s. Settled'
    <3>1. pc'[t] = "capacity" => splitOwner' = NoProc
      BY <1>t, <1>2 DEF Final, Touch, Patch, Open, FailRead, Fail, Clear, AudienceFails, Goto, ClearSplitLease
    <3>2. \/ UNCHANGED <<status, splitOwner>>
          \/ status' \in {"cancelled", "failed"}
          \/ status' = status /\ splitOwner' = NoProc
      BY <1>2, <2>5 DEF Final, Touch, Patch, Open, FailRead, Fail, Clear, AudienceFails, Goto, ClearSplitLease, mainVars
    <3> QED BY <2>o, <2>1, <3>1, <3>2, WorkerSettled
  <2>f. ASSUME Owns(t)', Wrote(t)', Phases' PROVE SplitInv'
    BY <2>o, <2>1, <2>s, <2>f, WorkerAlone, WorkerFrame
  <2>g. ASSUME UNCHANGED <<status, splitOwner>> PROVE Phases'
    BY <2>1, <2>2, <2>g, WorkerPhases
  <2>6. CASE Final(t)
    <3>1. /\ UNCHANGED <<status, version, splitOwner, leaseStale>> /\ pc[t] = "final" /\ pc'[t] \in {"touch", "failRead"}
          /\ status = "running" => pending' = pending
      BY <1>t, <2>6 DEF Final, Goto, mainVars
    <3>2. Owns(t)' /\ Wrote(t)'
      BY <1>s, <2>2, <2>4, <2>5, <3>1 DEF Owns, Wrote
    <3> QED BY <2>f, <2>g, <3>1, <3>2
  <2>7. CASE Touch(t)
    <3>1. /\ UNCHANGED <<status, version, splitOwner, leaseStale, pending>> /\ pc[t] = "touch" /\ pc'[t] = "patch"
      BY <1>t, <2>5, <2>7 DEF Touch, Goto, rowVars
    <3>2. Owns(t)' /\ Wrote(t)'
      BY <1>s, <2>2, <2>4, <2>5, <3>1 DEF Owns, Wrote
    <3> QED BY <2>f, <2>g, <3>1, <3>2
  <2>8. CASE Patch(t)
    <3>1. /\ UNCHANGED <<status, version, splitOwner, leaseStale, pending>> /\ pc[t] = "patch" /\ pc'[t] = "open"
          /\ status = "running" => subTaskTotal' = page[t]
      BY <1>t, <2>8 DEF Patch, PatchMainMeta, Goto, rowVars
    <3>2. Owns(t)' /\ Wrote(t)'
      BY <1>s, <2>2, <2>4, <2>5, <3>1 DEF Owns, Wrote
    <3> QED BY <2>f, <2>g, <3>1, <3>2
  <2>9. CASE Open(t)
    <3>1. /\ UNCHANGED <<status, version, pending, subTaskTotal>> /\ pc[t] = "open" /\ pc'[t] = "capacity"
          /\ splitOwner' = NoProc
      BY <1>t, <2>9 DEF Open, ClearSplitLease, Goto, rowVars
    <3>2. Owns(t)' /\ Wrote(t)'
      BY <3>1 DEF Owns, Wrote, Working
    <3>3. CASE status = "running"
      <4>1. subTaskTotal = NumPages /\ NumPages > 0 /\ \A p \in Pages : pending[p] = 1
        BY <1>s, <3>1, <3>3 DEF Wrote
      <4>2. Leased
        BY <2>1, <3>3, WorkerLeases
      <4>3. subTaskDone = 0 /\ \A p \in Pages : done[p] = 0 /\ sent[p] = 0
        BY <4>2 DEF SplitInv, Phases
      <4>4. Finished' = {} /\ Cardinality({}) = 0
        BY <2>2, <4>3, FS_EmptySet DEF Finished
      <4>5. SplitComplete'
        BY <2>2, <3>1, <4>1, <4>3 DEF SplitComplete
      <4>6. subTaskDone' = Cardinality(Finished') /\ \A p \in Pages : sent'[p] = done'[p]
        BY <2>2, <4>3, <4>4
      <4>7. ~Leased' /\ status' = "running" /\ resuming' \subseteq {"running"} /\ PagesSentOnce'
        BY <2>2, <3>1, <3>3 DEF Leased, SplitInv, Phases, PagesSentOnce
      <4>8. Phases'
        BY <4>1, <4>5, <4>6, <4>7 DEF Phases, ClosedReachedAll
      <4> QED BY <2>f, <3>2, <4>8
    <3>4. CASE status # "running"
      BY <2>2, <2>5, <2>f, <3>1, <3>2, <3>4, PhasesEnded
    <3> QED BY <3>3, <3>4
  <2>10. CASE FailRead(t)
    <3>1. /\ UNCHANGED <<status, version, splitOwner, leaseStale, pending, subTaskTotal>> /\ pc[t] = "failRead"
      BY <2>10 DEF FailRead, mainVars, rowVars
    <3>2. CASE status = "running"
      <4>1. pc'[t] = "fail"
        BY <1>t, <2>4, <2>10, <3>2 DEF FailRead, Goto
      <4>2. Owns(t)' /\ Wrote(t)'
        BY <2>2, <2>4, <2>5, <3>1, <4>1 DEF Owns, Wrote
      <4> QED BY <2>f, <2>g, <3>1, <4>2
    <3>3. CASE status = "cancelled"
      <4>1. pc'[t] = "dropRows"
        BY <1>t, <2>10, <3>3 DEF FailRead, Goto
      <4>2. Owns(t)' /\ Wrote(t)'
        BY <3>1, <3>3, <4>1 DEF Owns, Wrote
      <4> QED BY <2>f, <2>g, <3>1, <4>2
    <3> QED BY <2>5, <3>1, <3>2, <3>3
  <2>11. CASE Fail(t)
    <3>1. status' \in {"cancelled", "failed"} /\ pc'[t] = "giveUp"
      BY <1>t, <2>4, <2>5, <2>11 DEF Fail, Goto
    <3>2. Owns(t)' /\ Wrote(t)'
      BY <3>1 DEF Owns, Wrote
    <3>3. Phases'
      BY <2>2, <3>1, PhasesEnded
    <3> QED BY <2>f, <3>2, <3>3
  <2>12. CASE Clear(t)
    <3>1. status' = status /\ status \in {"cancelled", "failed"} /\ pc'[t] \in {"idle", "tell"}
      BY <1>t, <1>s, <2>1, <2>5, <2>12 DEF Clear, Goto, Owns
    <3>2. Owns(t)' /\ Wrote(t)'
      BY <3>1 DEF Owns, Wrote, Working
    <3>3. Phases'
      BY <2>2, <3>1, PhasesEnded
    <3> QED BY <2>f, <3>2, <3>3
  <2>13. CASE AudienceFails(t)
    <3>1. /\ UNCHANGED <<status, version, splitOwner, leaseStale>> /\ pc[t] \in {"insert", "meta"} /\ pc'[t] = "failRead"
      BY <1>t, <2>13 DEF AudienceFails, Goto, mainVars
    <3>2. Owns(t)' /\ Wrote(t)'
      BY <2>2, <2>4, <2>5, <3>1 DEF Owns, Wrote
    <3> QED BY <2>f, <2>g, <3>1, <3>2
  <2> QED BY <1>2, <2>6, <2>7, <2>8, <2>9, <2>10, <2>11, <2>12, <2>13
<1> QED BY <1>d, <1>1, <1>2, <1>3

(* The claim loops and the aggregator on an open campaign                    *)
LEMMA ClaimableIsOpened == Claimable => Opened
BY DEF Claimable, Opened

LEMMA NobodyWorks ==
  ASSUME SplitInv, Claimable
  PROVE  \A u \in Threads : ~Working(u)
BY OpenedIsSplit, ClaimableIsOpened

LEMMA ShardSteady ==
  ASSUME TypeOK, SplitInv, NEW p \in Pages, ShardDone(p)
  PROVE  SplitInv'
<1>t. /\ pending \in [Pages -> Nat] /\ done \in [Pages -> Nat] /\ sent \in [Pages -> Nat] /\ subTaskDone \in Nat
      /\ NumPages \in Nat
  BY SplitBounds DEF TypeOK, RowsTypeOK, MainTypeOK
<1>1. Claimable /\ pending[p] > 0 /\ UNCHANGED <<status, splitOwner, subTaskTotal, pc, ver, page, resuming>>
  BY DEF ShardDone, threadVars, envVars
<1>2. /\ pending' = [pending EXCEPT ![p] = @ - 1] /\ done' = [done EXCEPT ![p] = @ + 1]
      /\ sent' = [sent EXCEPT ![p] = @ + 1] /\ subTaskDone' = subTaskDone + 1
  BY DEF ShardDone
<1>3. SplitComplete /\ subTaskDone = Cardinality(Finished) /\ \A q \in Pages : sent[q] = done[q]
  BY <1>1, ClaimableIsOpened DEF SplitInv, Phases
<1>4. pending[p] = 1 /\ done[p] = 0 /\ sent[p] = 0
  <2>1. pending[p] + done[p] = 1 /\ pending[p] \in Nat /\ done[p] \in Nat
    BY <1>t, <1>3 DEF SplitComplete
  <2> QED BY <1>1, <1>3, <2>1
<1>5. pending'[p] = 0 /\ done'[p] = 1 /\ sent'[p] = 1
  BY <1>t, <1>2, <1>4
<1>6. \A q \in Pages : q # p => pending'[q] = pending[q] /\ done'[q] = done[q] /\ sent'[q] = sent[q]
  BY <1>t, <1>2
<1>7. Finished' = Finished \cup {p} /\ p \notin Finished
  BY <1>4, <1>5, <1>6 DEF Finished
<1>8. IsFiniteSet(Finished)
  <2>1. IsFiniteSet(Pages)
    BY <1>t, FS_Interval DEF Pages
  <2> QED BY <2>1, FS_Subset DEF Finished
<1>9. Cardinality(Finished') = Cardinality(Finished) + 1
  BY <1>7, <1>8, FS_AddElement
<1>10. SplitComplete'
  <2>1. \A q \in Pages : pending'[q] + done'[q] = 1
    BY <1>3, <1>5, <1>6 DEF SplitComplete
  <2> QED BY <1>1, <1>3, <2>1 DEF SplitComplete
<1>11. PagesSentOnce'
  BY <1>5, <1>6 DEF SplitInv, Phases, PagesSentOnce
<1>12. \A q \in Pages : sent'[q] = done'[q]
  BY <1>3, <1>5, <1>6
<1>13. Phases'
  <2>1. status' = "running" /\ ~Leased' /\ resuming' \subseteq {"running"} /\ NumPages > 0
    BY <1>1, ClaimableIsOpened DEF Claimable, Leased, SplitInv, Phases
  <2>2. subTaskDone' = Cardinality(Finished')
    BY <1>2, <1>3, <1>9
  <2> QED BY <1>10, <1>11, <1>12, <2>1, <2>2 DEF Phases, ClosedReachedAll
<1>14. \A u \in Threads : ~Working(u)'
  BY <1>1, NobodyWorks DEF Working
<1>15. Settled'
  BY <1>1 DEF Settled, Leased, Claimable
<1> QED BY <1>13, <1>14, <1>15 DEF SplitInv, OneSplitter, Owns, Wrote, Working

LEMMA CloseSteady ==
  ASSUME TypeOK, SplitInv, Close
  PROVE  SplitInv'
<1>t. /\ pending \in [Pages -> Nat] /\ done \in [Pages -> Nat] /\ subTaskDone \in Nat /\ subTaskTotal \in Nat
      /\ NumPages \in Nat
  BY SplitBounds DEF TypeOK, RowsTypeOK, MainTypeOK
<1>1. /\ status = "running" /\ subTaskTotal > 0 /\ subTaskDone >= subTaskTotal /\ status' = "closed"
      /\ UNCHANGED <<sent, done, pc, resuming>>
  BY DEF Close, rowVars, threadVars, envVars
<1>2. Claimable
  <2>1. Leased => subTaskDone = 0
    BY DEF SplitInv, Phases
  <2> QED BY <1>t, <1>1, <2>1 DEF Leased, Claimable
<1>3. SplitComplete /\ subTaskDone = Cardinality(Finished) /\ \A q \in Pages : sent[q] = done[q]
  BY <1>2, ClaimableIsOpened DEF SplitInv, Phases
<1>4. IsFiniteSet(Pages) /\ Cardinality(Pages) = NumPages
  <2>1. IsFiniteSet(Pages)
    BY <1>t, FS_Interval DEF Pages
  <2>2. Cardinality(Pages) = NumPages
    BY <1>t, FS_Interval DEF Pages
  <2> QED BY <2>1, <2>2
<1>5. Finished = Pages
  <2>1. Finished \subseteq Pages
    BY DEF Finished
  <2>2. Cardinality(Finished) >= NumPages
    BY <1>1, <1>3 DEF SplitComplete
  <2>3. Cardinality(Finished) <= NumPages /\ (Cardinality(Finished) = NumPages => Finished = Pages)
    BY <1>4, <2>1, FS_Subset
  <2>4. Cardinality(Finished) \in Nat
    BY <1>3, <1>t
  <2> QED BY <1>t, <2>2, <2>3, <2>4
<1>6. \A q \in Pages : sent[q] = 1
  BY <1>3, <1>5 DEF Finished
<1>7. Phases'
  BY <1>1, <1>6 DEF SplitInv, Phases, Leased, Opened, PagesSentOnce, ClosedReachedAll
<1>8. \A u \in Threads : ~Working(u)'
  BY <1>1, <1>2, NobodyWorks DEF Working
<1>9. Settled'
  BY <1>1 DEF Settled, Leased
<1> QED BY <1>7, <1>8, <1>9 DEF SplitInv, OneSplitter, Owns, Wrote, Working

(* The API, time and crashes                                                 *)
LEMMA OutsideSteady ==
  ASSUME Steady, TypeOK, CancelInv, SplitInv,
         ApiStep \/ LeaseTimeout \/ (\E p \in Procs : Crash(p)) \/ UNCHANGED vars
  PROVE  SplitInv'
<1>t. pc \in [Threads -> Pcs] /\ stalls \in Nat
  BY DEF TypeOK, ThreadTypeOK, EnvTypeOK
<1>1. CASE Pause \/ Resume \/ \E next \in resuming : ResumeMainTask(next)
  <2>1. ~Pause
    BY DEF Pause, Steady
  <2>2. UNCHANGED <<splitOwner, leaseStale, subTaskTotal, subTaskDone, rowVars, pc, ver, page>>
    BY <1>1, <2>1 DEF Resume, ResumeMainTask, mainVars, threadVars
  <2>3. resuming \subseteq {"running"}
    BY DEF SplitInv, Phases
  <2>4. CASE Resume
    <3>1. status = "paused" /\ status' = "paused" /\ splitOwner = NoProc
      BY <2>4 DEF Resume, mainVars, SplitInv, Phases
    <3>2. subTaskTotal > 0
      BY <3>1 DEF SplitInv, Phases, Opened, SplitComplete
    <3>3. resuming' \subseteq {"running"}
      BY <2>3, <2>4, <3>2 DEF Resume
    <3> QED BY <2>2, <3>1, <3>3, OpenedFrame DEF Opened
  <2>5. CASE \E next \in resuming : ResumeMainTask(next)
    <3>1. resuming' \subseteq {"running"}
      BY <2>3, <2>5 DEF ResumeMainTask
    <3>2. CASE status = "paused"
      <4>1. status' = "running" /\ splitOwner = NoProc
        BY <2>3, <2>5, <3>2 DEF ResumeMainTask, SplitInv, Phases
      <4> QED BY <2>2, <3>1, <3>2, <4>1, OpenedFrame DEF Opened
    <3>3. CASE status # "paused"
      <4>1. UNCHANGED <<mainVars, rowVars, pc, ver, page>>
        BY <2>2, <2>5, <3>3 DEF ResumeMainTask, mainVars
      <4>2. UNCHANGED <<status, version, splitOwner, leaseStale, subTaskTotal, subTaskDone, pending, done, sent>>
        BY <4>1 DEF mainVars, rowVars
      <4>3. UNCHANGED <<Leased, Opened, SplitComplete, Finished, PagesSentOnce, ClosedReachedAll, Settled, OneSplitter>>
        BY <4>1, <4>2 DEF Leased, Opened, SplitComplete, Finished, PagesSentOnce, ClosedReachedAll, Settled,
           OneSplitter, Working
      <4>4. \A u \in Threads : Owns(u)' /\ Wrote(u)'
        BY <4>1, <4>2 DEF SplitInv, Owns, Wrote, Working
      <4>5. Phases'
        BY <3>1, <4>2, <4>3 DEF SplitInv, Phases
      <4> QED BY <4>3, <4>4, <4>5 DEF SplitInv
    <3> QED BY <3>2, <3>3
  <2> QED BY <1>1, <2>1, <2>4, <2>5
<1>2. CASE CancelMain \/ CancelSubs
  <2>1. status' = "cancelled" /\ UNCHANGED <<sent, resuming, pc>> /\ (status' = status \/ status \in {"pending", "running", "paused"})
    BY <1>2 DEF CancelMain, CancelSubs, CancelInv, mainVars, rowVars, threadVars, envVars
  <2>2. Phases'
    BY <2>1, PhasesEnded
  <2>3. \A u \in Threads : Owns(u)' /\ Wrote(u)'
    BY <2>1 DEF SplitInv, Owns, Wrote, Working
  <2>4. OneSplitter' /\ Settled'
    BY <2>1 DEF SplitInv, OneSplitter, Working, Settled, Leased
  <2> QED BY <2>2, <2>3, <2>4 DEF SplitInv
<1>3. CASE CancelStops \/ (\E p \in Procs : Crash(p)) \/ UNCHANGED vars
  <2>1. UNCHANGED <<mainVars, rowVars, ver, page, resuming>>
    BY <1>3 DEF CancelStops, Crash, vars, threadVars, envVars
  <2>2. \A u \in Threads : pc'[u] \in {pc[u], "idle"}
    BY <1>3 DEF CancelStops, Crash, vars, threadVars
  <2> QED BY <2>1, <2>2, StopFrame
<1>4. CASE LeaseTimeout
  <2>1. UNCHANGED <<status, version, splitOwner, subTaskTotal, subTaskDone, pending, done, sent, pc, ver, page, resuming>>
    BY <1>4 DEF LeaseTimeout, rowVars, threadVars
  <2>2. Abandoned
    BY <1>t, <1>4 DEF LeaseTimeout, Steady
  <2>3. ASSUME status = "running", NEW u \in Threads PROVE ~Working(u)
    <3>1. Working(u) => splitOwner = Id(u)
      BY <2>3 DEF SplitInv, Owns
    <3> QED BY <2>2, <3>1 DEF Abandoned, Working
  <2>4. \A u \in Threads : Owns(u)' /\ Wrote(u)'
    BY <2>1, <2>3 DEF SplitInv, Owns, Wrote, Working
  <2>5. OneSplitter'
    BY <2>1 DEF SplitInv, OneSplitter, Working
  <2>6. Phases'
    <3>1. UNCHANGED <<Leased, Opened, SplitComplete, Finished>>
      BY <2>1 DEF Leased, Opened, SplitComplete, Finished
    <3> QED BY <2>1, <3>1 DEF SplitInv, Phases, PagesSentOnce, ClosedReachedAll
  <2>7. Settled'
    BY <2>1 DEF SplitInv, Settled, Leased
  <2> QED BY <2>4, <2>5, <2>6, <2>7 DEF SplitInv
<1> QED BY <1>1, <1>2, <1>3, <1>4 DEF ApiStep

LEMMA SplitInvStep ==
  ASSUME Steady, TypeOK, CancelInv, SplitInv, [Next]_vars
  PROVE  SplitInv'
BY LoopSteady, TailSteady, ShardSteady, CloseSteady, OutsideSteady DEF Next, SplitStep, PipelineStep

LEMMA SplitInvAlways == ASSUME Steady PROVE Spec => [](TypeOK /\ SplitInv)
<1>1. Init => CancelInv /\ SplitInv
  BY SplitInit DEF Init, CancelInv, NoOrphanShards
<1>2. TypeOK /\ CancelInv /\ SplitInv /\ [Next]_vars => (CancelInv /\ SplitInv)'
  BY CancelStep, SplitInvStep
<1> QED BY <1>1, <1>2, SplitTyping, PTL DEF Spec

(* A claim loop that finds the campaign without a lease finds the complete   *)
(* split: crashes in the middle of it, takeovers, cancellations and audience *)
(* errors leave the lease in place or the campaign finished.                 *)
THEOREM LeaseIsGate == ASSUME Steady PROVE Spec => []GateHolds
<1>1. SplitInv => GateHolds
  BY ClaimableIsOpened DEF SplitInv, Phases, GateHolds
<1> QED BY <1>1, SplitInvAlways, PTL

(* However often a split is taken over, the users of a page go to the queue  *)
(* at most once.                                                             *)
THEOREM TakeoverSendsOnce == ASSUME Steady PROVE Spec => []PagesSentOnce
<1>1. SplitInv => PagesSentOnce
  BY DEF SplitInv, Phases
<1> QED BY <1>1, SplitInvAlways, PTL

(* The aggregator closes the campaign only after every page of the audience  *)
(* was handed to the queue.                                                  *)
THEOREM CloseIsComplete == ASSUME Steady PROVE Spec => []ClosedReachedAll
<1>1. SplitInv => ClosedReachedAll
  BY DEF SplitInv, Phases
<1> QED BY <1>1, SplitInvAlways, PTL

(* Only a splitter that works fails the campaign, and while one works the    *)
(* campaign is not open.                                                     *)
LEMMA OnlyWorkerFails ==
  ASSUME TypeOK, SplitInv, Claimable, [Next]_vars
  PROVE  status' # "failed"
<1>w. \A u \in Threads : ~Working(u)
  BY NobodyWorks
<1>s. status = "running"
  BY DEF Claimable
<1>1. ASSUME NEW t \in Threads, SplitStep(t) \/ AudienceFails(t) \/ DbError(t) PROVE status' # "failed"
  <2>1. ~Fail(t)
    BY <1>w DEF Fail, Working
  <2> QED BY <1>s, <1>1, <2>1 DEF SplitStep, MarkMainTaskRunning, ClaimStaleSplit, Read, DeleteSubTasks, DropRows, Check,
       RenewSplitLease, CreateSubTasksWithLease, Meta, Final, Touch, Patch, Open, CheckOverCapacity, PauseMain,
       FailRead, Clear, Tell, AudienceFails, DbError, mainVars
<1>2. CASE PipelineStep
  BY <1>s, <1>2 DEF PipelineStep, ShardDone, Close
<1>3. CASE ApiStep
  BY <1>s, <1>3 DEF ApiStep, Pause, PauseMain, Resume, ResumeMainTask, CancelMain, CancelSubs, CancelStops, mainVars
<1>4. CASE LeaseTimeout \/ (\E p \in Procs : Crash(p)) \/ UNCHANGED vars
  BY <1>s, <1>4 DEF LeaseTimeout, Crash, vars, mainVars
<1> QED BY <1>1, <1>2, <1>3, <1>4 DEF Next

(* A splitter that lost its lease and comes late does not fail a campaign    *)
(* that was split by another and is being sent.                              *)
THEOREM OpenNeverFails == ASSUME Steady PROVE Spec => OpenedNotFailed
<1>1. TypeOK /\ SplitInv /\ [Next]_vars => [(Claimable /\ SplitComplete) => status' # "failed"]_vars
  BY OnlyWorkerFails
<1> QED BY <1>1, SplitInvAlways, PTL DEF Spec, OpenedNotFailed
=============================================================================
