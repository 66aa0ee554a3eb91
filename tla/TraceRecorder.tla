----------------------------- MODULE TraceRecorder -----------------------------
(***************************************************************************)
(* The asynchronous events of the pusher (internal/app/trace/recorder.go): *)
(* handlers put events into a bounded buffer and never wait, one goroutine *)
(* writes them, and at the end of main Close lets it empty the buffer.     *)
(* cmd/pusher/main.go closes the recorder when the consumers have returned,*)
(* and a consumer returns when its handlers have.                          *)
(***************************************************************************)
EXTENDS Naturals, Sequences, SequencesExt

CONSTANTS
  TrcHandlers,  \* messages being handled
  TrcBuffer,    \* capacity of the channel
  MaxTrcEvents, MaxTrcFaults  \* bounds: events, failing insertions

ASSUME TraceAssumption == TrcBuffer \in Nat \ {0}

VARIABLES
  trcChan,    \* the buffer: events, numbered as they occur
  trcHand,    \* <<e>> when the goroutine is writing e
  trcLoop,    \* "run", "drain" or "gone"
  trcClosed,  \* the channel "closed" is closed
  trcMain,    \* "run", "stopping", "closing", "ended" or "failed"
  trcBusy,    \* handlers under way
  trcRows,    \* trace_events, in the order of insertion
  trcKept,    \* history: events that entered the buffer
  trcFailed,  \* history: events whose insertion failed
  trcCount, trcFaults

traceVars == <<trcChan, trcHand, trcLoop, trcClosed, trcMain, trcBusy, trcRows, trcKept, trcFailed,
               trcCount, trcFaults>>

TraceInit ==
  /\ trcChan = <<>> /\ trcHand = <<>> /\ trcLoop = "run" /\ trcClosed = FALSE
  /\ trcMain = "run" /\ trcBusy = {} /\ trcRows = <<>> /\ trcKept = {} /\ trcFailed = {}
  /\ trcCount = 0 /\ trcFaults = 0

Up == trcMain \notin {"ended", "failed"}

(* A consumer that hears the signal may still begin a handler: dispatch    *)
(* chooses between the signal and a free slot.  Consume waits for them all. *)
TrcBegin(h) ==
  /\ trcMain \in {"run", "stopping"} /\ h \notin trcBusy /\ trcBusy' = trcBusy \cup {h}
  /\ UNCHANGED <<trcChan, trcHand, trcLoop, trcClosed, trcMain, trcRows, trcKept, trcFailed, trcCount, trcFaults>>

TrcReturn(h) ==
  /\ Up /\ h \in trcBusy /\ trcBusy' = trcBusy \ {h}
  /\ UNCHANGED <<trcChan, trcHand, trcLoop, trcClosed, trcMain, trcRows, trcKept, trcFailed, trcCount, trcFaults>>

(* RecordAsync: a full buffer drops the event, the handler goes on.        *)
TrcRecord(h) ==
  LET e == trcCount + 1 IN
  /\ Up /\ h \in trcBusy /\ trcCount < MaxTrcEvents /\ trcCount' = e
  /\ IF Len(trcChan) < TrcBuffer
     THEN trcChan' = Append(trcChan, e) /\ trcKept' = trcKept \cup {e}
     ELSE UNCHANGED <<trcChan, trcKept>>
  /\ UNCHANGED <<trcHand, trcLoop, trcClosed, trcMain, trcBusy, trcRows, trcFailed, trcFaults>>

(* loop: closed and an event ready: either is chosen.                      *)
TrcTake ==
  /\ Up /\ trcLoop # "gone" /\ trcHand = <<>> /\ trcChan # <<>>
  /\ trcHand' = <<Head(trcChan)>> /\ trcChan' = Tail(trcChan)
  /\ UNCHANGED <<trcLoop, trcClosed, trcMain, trcBusy, trcRows, trcKept, trcFailed, trcCount, trcFaults>>

(* Mutant: the loop returns as soon as it is told to.                      *)
LeaveAtOnce == "gone"

OnClosed == "drain"

TrcSeeClosed ==
  /\ Up /\ trcLoop = "run" /\ trcClosed /\ trcHand = <<>> /\ trcLoop' = OnClosed
  /\ UNCHANGED <<trcChan, trcHand, trcClosed, trcMain, trcBusy, trcRows, trcKept, trcFailed, trcCount, trcFaults>>

TrcDrained ==
  /\ Up /\ trcLoop = "drain" /\ trcHand = <<>> /\ trcChan = <<>> /\ trcLoop' = "gone"
  /\ UNCHANGED <<trcChan, trcHand, trcClosed, trcMain, trcBusy, trcRows, trcKept, trcFailed, trcCount, trcFaults>>

(* write: a failing insertion is logged.                                   *)
TrcWrite ==
  /\ Up /\ trcHand # <<>> /\ trcHand' = <<>>
  /\ \/ trcRows' = trcRows \o trcHand /\ UNCHANGED <<trcFailed, trcFaults>>
     \/ /\ trcFaults < MaxTrcFaults /\ trcFaults' = trcFaults + 1
        /\ trcFailed' = trcFailed \cup {trcHand[1]} /\ UNCHANGED trcRows
  /\ UNCHANGED <<trcChan, trcLoop, trcClosed, trcMain, trcBusy, trcKept, trcCount>>

(* main: the signal; wg.Wait; then Close, or os.Exit when a consumer       *)
(* returned an error, which runs no deferred call.                         *)
TrcSignal ==
  /\ trcMain = "run" /\ trcMain' = "stopping"
  /\ UNCHANGED <<trcChan, trcHand, trcLoop, trcClosed, trcBusy, trcRows, trcKept, trcFailed, trcCount, trcFaults>>

ConsumersReturned == trcBusy = {}

TrcClose ==
  /\ trcMain = "stopping" /\ ConsumersReturned
  /\ trcMain' = "closing" /\ trcClosed' = TRUE
  /\ UNCHANGED <<trcChan, trcHand, trcLoop, trcBusy, trcRows, trcKept, trcFailed, trcCount, trcFaults>>

TrcExit ==
  /\ trcMain = "stopping" /\ ConsumersReturned /\ trcMain' = "failed"
  /\ UNCHANGED <<trcChan, trcHand, trcLoop, trcClosed, trcBusy, trcRows, trcKept, trcFailed, trcCount, trcFaults>>

TrcClosed ==
  /\ trcMain = "closing" /\ trcLoop = "gone" /\ trcMain' = "ended"
  /\ UNCHANGED <<trcChan, trcHand, trcLoop, trcClosed, trcBusy, trcRows, trcKept, trcFailed, trcCount, trcFaults>>

TrcWork == TrcTake \/ TrcSeeClosed \/ TrcDrained \/ TrcWrite

TraceNext ==
  \/ \E h \in TrcHandlers : TrcBegin(h) \/ TrcRecord(h) \/ TrcReturn(h)
  \/ TrcWork \/ TrcSignal \/ TrcClose \/ TrcExit \/ TrcClosed

TraceSpec == TraceInit /\ [][TraceNext]_traceVars

-----------------------------------------------------------------------------
(* A pusher that ends by its signal has lost no event it took: each is in  *)
(* the table, or its insertion failed; the rows are in the order the       *)
(* events occurred.                                                        *)
AcceptedIsStored ==
  /\ trcMain = "ended" => trcKept = ToSet(trcRows) \cup trcFailed
  /\ \A i, j \in DOMAIN trcRows : i < j => trcRows[i] < trcRows[j]
=============================================================================
