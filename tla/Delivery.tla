------------------------------ MODULE Delivery ------------------------------
(***************************************************************************)
(* The message of one campaign for one user, from the Redis stream to the  *)
(* vendor (internal/adapter/mq/redis_stream.go, internal/push/gateway.go). *)
(* The stream holds one or more copies of it and delivers each at least    *)
(* once; every delivery runs Gateway.Handle, which claims the user's       *)
(* push_records row of each channel, asks the vendor and records the       *)
(* answer; receipts move the row on later.  Rows, dedup keys, the stream   *)
(* and the campaign are shared; one action is one statement or call.       *)
(***************************************************************************)
EXTENDS Naturals, FiniteSets

CONSTANTS
  Entries,        \* stream entries that may hold a copy of the message
  CopySets,       \* sets of them that do, to choose from
  Handlers,       \* consumer goroutines of the pushers
  NoEntry,        \* the handler has no message
  NumChannels,    \* channels of the campaign, after MaxFallback and cost ordering
  Modes,          \* channel modes to choose from
  MaxDelivery,    \* redis_stream.max_delivery
  MaxAttempts,    \* vendor calls of one doSend: MaxRetry + 1
  Env,            \* the disturbances of the run, a subset of Disturbances
  MaxSlow,        \* bound: time limits that pass while a handler still works
  MaxFaults,      \* bound: disturbances of any kind in a behaviour
  DuplicateCost   \* bound: how many of them a second copy of the message counts for

Disturbances == {"defer", "suppress", "throttle", "reject", "timeout", "receipts", "pause",
                 "cancel", "expiry", "crash", "dbError", "redisError", "redisLoss", "trim"}
AllModes == {"single", "fallback", "parallel", "all_success"}

ASSUME EntriesAssumption ==
  /\ IsFiniteSet(Entries) /\ NoEntry \notin Entries
  /\ CopySets \subseteq (SUBSET Entries) \ {{}}
ASSUME DeliveryBounds ==
  /\ NumChannels \in Nat \ {0} /\ MaxDelivery \in Nat /\ MaxAttempts \in Nat
  /\ Modes \subseteq AllModes /\ Env \subseteq Disturbances
  /\ DuplicateCost \in Nat /\ MaxSlow \in Nat /\ MaxFaults \in Nat

VARIABLES
  mainStatus,  \* main_tasks.status; "running" stands for every status the gateway lets pass
  recent,      \* other statuses it had in the last 300 ms: what mainCache may still return
  expired,     \* has the message's expire_at passed?
  mode,        \* EffectiveMode of the message
  entry,       \* state of each stream entry
  deliveries,  \* its delivery count, up to MaxDelivery
  idle,        \* has it been pending for ClaimMinIdle since its last delivery?
  aged,        \* is it older than DeferredMaxAge?
  dlq,         \* entries copied to the dead-letter stream
  row,         \* push_records.status of each channel; "none" before the row is inserted
  rowStale,    \* has updated_at passed deliveryInFlightStale?
  dedup,       \* channels whose Redis dedup key exists
  stage,       \* where each handler is
  work,        \* the entry it handles
  goal,        \* what it does to the rows: send, or mark cancelled or expired
  pc,          \* where it is in each channel
  out,         \* what sendOne is about to return for the channel
  try,         \* attempts of doSend made before
  slow, faults,  \* counters for the bounds
  reached,     \* history: channels whose vendor accepted the message
  known,       \* history: ... and whose acceptance reached the caller and was not lost since
  twice,       \* history: channels whose vendor accepted it again while that was known
  unrecorded   \* history: channels with an update of the row that failed and was ignored

mainVars    == <<mainStatus, recent, expired, mode>>
streamVars  == <<entry, deliveries, idle, aged, dlq>>
rowVars     == <<row, rowStale>>
handlerVars == <<stage, work, goal>>
sendVars    == <<pc, out, try>>
boundVars   == <<slow, faults>>
vendorVars  == <<reached, known, twice>>
vars == <<mainVars, streamVars, rowVars, dedup, handlerVars, sendVars, boundVars, vendorVars,
          unrecorded>>

Channels == 1..NumChannels
Sends    == Handlers \X Channels

(* domain/status.go; "suppressed" stands for the four statuses of IsSuppressedLike *)
DeliveredOK == {"sent", "delivered", "clicked"}
SoftTerminal == {"failed", "cancelled", "suppressed"}
RowStatus   == {"none", "queued", "sending"} \cup DeliveredOK \cup SoftTerminal
Outcomes    == {"none", "ok", "failed", "suppressed", "deferred", "paused", "nothing"}
Stages      == {"idle", "snap", "run", "ok", "failed", "defer", "bury"}
Holding     == {"check", "gate", "send", "record", "write"}
SendPcs     == {"off", "pregate", "dedup", "claim", "take", "mark", "done"} \cup Holding
MainStatus  == {"running", "paused", "cancelled"}

MainTypeOK ==
  /\ mainStatus \in MainStatus /\ recent \subseteq MainStatus
  /\ expired \in BOOLEAN /\ mode \in Modes
StreamTypeOK ==
  /\ entry \in [Entries -> {"absent", "new", "pending", "acked", "trimmed"}]
  /\ deliveries \in [Entries -> Nat] /\ idle \in [Entries -> BOOLEAN]
  /\ aged \in [Entries -> BOOLEAN] /\ dlq \subseteq Entries
RowTypeOK ==
  /\ row \in [Channels -> RowStatus] /\ rowStale \in [Channels -> BOOLEAN]
  /\ dedup \subseteq Channels
HandlerTypeOK ==
  /\ stage \in [Handlers -> Stages] /\ work \in [Handlers -> Entries \cup {NoEntry}]
  /\ goal \in [Handlers -> {"send", "cancel", "expire"}]
  /\ \A h \in Handlers : stage[h] # "idle" => work[h] \in Entries
SendTypeOK ==
  /\ pc \in [Sends -> SendPcs] /\ out \in [Sends -> Outcomes] /\ try \in [Sends -> Nat]
  /\ \A t \in Sends : pc[t] # "off" => stage[t[1]] = "run"
OtherTypeOK ==
  /\ slow \in Nat /\ faults \in Nat
  /\ reached \subseteq Channels /\ known \subseteq reached /\ twice \subseteq reached
  /\ unrecorded \subseteq Channels

TypeOK ==
  MainTypeOK /\ StreamTypeOK /\ RowTypeOK /\ HandlerTypeOK /\ SendTypeOK /\ OtherTypeOK

Init ==
  /\ mainStatus = "running" /\ recent = {} /\ expired = FALSE /\ mode \in Modes
  /\ \E copies \in CopySets :
       /\ entry = [e \in Entries |-> IF e \in copies THEN "new" ELSE "absent"]
       /\ faults = DuplicateCost * (Cardinality(copies) - 1)
  /\ deliveries = [e \in Entries |-> 0] /\ idle = [e \in Entries |-> FALSE]
  /\ aged = [e \in Entries |-> FALSE] /\ dlq = {}
  /\ row = [c \in Channels |-> "none"] /\ rowStale = [c \in Channels |-> FALSE] /\ dedup = {}
  /\ stage = [h \in Handlers |-> "idle"] /\ work = [h \in Handlers |-> NoEntry]
  /\ goal = [h \in Handlers |-> "send"]
  /\ pc = [t \in Sends |-> "off"] /\ out = [t \in Sends |-> "none"]
  /\ try = [t \in Sends |-> 0]
  /\ slow = 0
  /\ reached = {} /\ known = {} /\ twice = {} /\ unrecorded = {}

Fault(kind) == kind \in Env /\ faults < MaxFaults /\ faults' = faults + 1

(* The handler has returned from Handle with this result. *)
Returns(h, result) ==
  /\ stage' = [stage EXCEPT ![h] = result]
  /\ goal' = [goal EXCEPT ![h] = "send"]
  /\ pc' = [t \in Sends |-> IF t[1] = h THEN "off" ELSE pc[t]]
  /\ out' = [t \in Sends |-> IF t[1] = h THEN "none" ELSE out[t]]
  /\ try' = [t \in Sends |-> IF t[1] = h THEN 0 ELSE try[t]]
  /\ UNCHANGED work

(* handleMessage is over: the goroutine is free. *)
Free(h) ==
  /\ stage' = [stage EXCEPT ![h] = "idle"]
  /\ work' = [work EXCEPT ![h] = NoEntry]
  /\ UNCHANGED <<goal, sendVars>>

-----------------------------------------------------------------------------
(* Consume: new entries with XREADGROUP, idle pending ones with XAUTOCLAIM *)
Take(h, e) ==
  /\ stage[h] = "idle"
  /\ stage' = [stage EXCEPT ![h] = "snap"]
  /\ work' = [work EXCEPT ![h] = e]
  /\ entry' = [entry EXCEPT ![e] = "pending"]
  /\ deliveries' = [deliveries EXCEPT ![e] = IF @ < MaxDelivery THEN @ + 1 ELSE @]
  /\ idle' = [idle EXCEPT ![e] = FALSE]
  /\ UNCHANGED <<mainVars, aged, dlq, rowVars, dedup, goal, sendVars, boundVars, vendorVars,
                 unrecorded>>

Deliver(h, e)    == entry[e] = "new" /\ Take(h, e)
reclaimOnce(h, e) == entry[e] = "pending" /\ idle[e] /\ Take(h, e)

(* XACK names the entry only, whoever it was delivered to last *)
Ack(h) ==
  /\ stage[h] \in {"ok", "bury"}
  /\ entry' = [entry EXCEPT ![work[h]] = IF @ = "pending" THEN "acked" ELSE @]
  /\ idle' = [idle EXCEPT ![work[h]] = FALSE]
  /\ Free(h)
  /\ UNCHANGED <<mainVars, deliveries, aged, dlq, rowVars, dedup, boundVars, vendorVars,
                 unrecorded>>

(* Variant: deferred messages wait for ever. *)
DeadByCount(h) ==
  stage[h] = "failed" /\ entry[work[h]] = "pending" /\ deliveries[work[h]] >= MaxDelivery

(* onHandlerFailure: to the dead letters after MaxDelivery deliveries, or, for *)
(* deferred results, after DeferredMaxAge.                                     *)
Dead(h) ==
  \/ stage[h] = "failed" /\ entry[work[h]] = "pending" /\ deliveries[work[h]] >= MaxDelivery
  \/ stage[h] = "defer" /\ aged[work[h]]

onHandlerFailure(h) ==
  /\ stage[h] \in {"failed", "defer"}
  /\ IF Dead(h)
     THEN /\ dlq' = dlq \cup {work[h]}
          /\ stage' = [stage EXCEPT ![h] = "bury"]
          /\ UNCHANGED <<work, goal, sendVars>>
     ELSE Free(h) /\ UNCHANGED dlq
  /\ UNCHANGED <<mainVars, entry, deliveries, idle, aged, rowVars, dedup, boundVars, vendorVars,
                 unrecorded>>

(* XACK, XPENDING or the XADD to the dead letters fails: left pending. *)
QueueError(h) ==
  /\ stage[h] \in {"ok", "bury", "failed", "defer"} /\ Fault("redisError")
  /\ Free(h)
  /\ UNCHANGED <<mainVars, streamVars, rowVars, dedup, slow, vendorVars, unrecorded>>

-----------------------------------------------------------------------------
(* Gateway.Handle *)
Sequential(h) == mode \in {"single", "fallback"} \/ goal[h] # "send"
LastChannel   == IF mode = "single" THEN 1 ELSE NumChannels

(* Start working on channels cs at step l. *)
Begin(h, what, cs, l) ==
  /\ stage' = [stage EXCEPT ![h] = "run"]
  /\ goal' = [goal EXCEPT ![h] = what]
  /\ pc' = [t \in Sends |-> IF t[1] = h /\ t[2] \in cs THEN l ELSE pc[t]]
  /\ UNCHANGED <<work, out, try>>

(* The snapshot may come from the cache. *)
Handle(h) ==
  /\ stage[h] = "snap"
  /\ \E status \in recent \cup {mainStatus} :
       \/ status = "cancelled" /\ Begin(h, "cancel", {1}, "claim")
       \/ status = "paused" /\ Returns(h, "defer")
       \/ status = "running" /\ expired /\ Begin(h, "expire", {1}, "claim")
       \/ /\ status = "running" /\ ~expired
          /\ Begin(h, "send", IF mode \in {"single", "fallback"} THEN {1} ELSE Channels, "dedup")
  /\ UNCHANGED <<mainVars, streamVars, rowVars, dedup, boundVars, vendorVars, unrecorded>>

(* Outside the send windows, in quiet hours, or a lookup failed *)
HandleDefers(h) ==
  /\ stage[h] = "snap" /\ Fault("defer")
  /\ Returns(h, "defer")
  /\ UNCHANGED <<mainVars, streamVars, rowVars, dedup, slow, vendorVars, unrecorded>>

Tried(h) == {c \in Channels : pc[<<h, c>>] # "off"}
Results(h) == {out[<<h, c>>] : c \in Tried(h)}

(* The results Handle may return; the last error counts, in any order. *)
SequentialResults(h, last) ==
  IF goal[h] # "send" \/ out[<<h, last>>] \in {"ok", "nothing"} THEN {"ok"}
  ELSE IF out[<<h, last>>] \in {"deferred", "paused"} THEN {"defer"}
  ELSE IF "failed" \in Results(h) THEN {"failed"} ELSE {"ok"}

Errors(rs, silent) ==
  (IF rs \cap ({"failed"} \cup silent) # {} THEN {"failed"} ELSE {})
    \cup (IF "paused" \in rs THEN {"defer"} ELSE {})

classifyParallelOutcomes(rs) ==
  IF "ok" \in rs THEN {"ok"}
  ELSE IF "deferred" \in rs THEN {"defer"}
  ELSE IF Errors(rs, {}) # {} THEN Errors(rs, {})
  ELSE IF "suppressed" \in rs THEN {"ok"} ELSE {"failed"}

(* Variant: a suppressed channel hides the failure of another one. *)
AllSuccessHides(rs) == IF "suppressed" \in rs THEN {"ok"} ELSE classifyParallelOutcomes(rs)

classifyAllSuccessOutcomes(rs) ==
  IF "deferred" \in rs THEN {"defer"}
  ELSE IF Errors(rs, {"nothing"}) # {} THEN Errors(rs, {"nothing"}) ELSE {"ok"}

(* One channel after the other: the next one, or the end *)
NextChannel(h, c) ==
  /\ stage[h] = "run" /\ Sequential(h)
  /\ pc[<<h, c>>] = "done" /\ <<h, c>> \in Sends /\ \A d \in Tried(h) : d <= c
  /\ IF /\ c < LastChannel /\ goal[h] # "cancel"
        /\ goal[h] = "expire" \/ out[<<h, c>>] \in {"failed", "suppressed"}
     THEN /\ pc' = [pc EXCEPT ![<<h, c + 1>>] = IF goal[h] = "send" THEN "pregate" ELSE "claim"]
          /\ UNCHANGED <<handlerVars, out, try>>
     ELSE \E result \in SequentialResults(h, c) : Returns(h, result)
  /\ UNCHANGED <<mainVars, streamVars, rowVars, dedup, boundVars, vendorVars, unrecorded>>

(* All channels at once *)
Join(h) ==
  /\ stage[h] = "run" /\ ~Sequential(h)
  /\ \A c \in Channels : pc[<<h, c>>] = "done"
  /\ \E result \in IF mode = "parallel" THEN classifyParallelOutcomes(Results(h))
                                        ELSE classifyAllSuccessOutcomes(Results(h)) :
       Returns(h, result)
  /\ UNCHANGED <<mainVars, streamVars, rowVars, dedup, boundVars, vendorVars, unrecorded>>

-----------------------------------------------------------------------------
(* sendOne on one channel: t = <<handler, channel>> *)
Goto(t, l) == pc' = [pc EXCEPT ![t] = l] /\ UNCHANGED <<handlerVars, out, try>>

Decide(t, l, o) ==
  /\ pc' = [pc EXCEPT ![t] = l]
  /\ out' = [out EXCEPT ![t] = o]
  /\ UNCHANGED <<handlerVars, try>>

(* sendFallback's checkMainGate before a further channel, forced *)
Pregate(t) ==
  /\ pc[t] = "pregate"
  /\ \/ /\ mainStatus = "cancelled"
        /\ goal' = [goal EXCEPT ![t[1]] = "cancel"]
        /\ pc' = [pc EXCEPT ![t] = "claim"]
        /\ UNCHANGED <<stage, work, out, try>>
     \/ mainStatus = "paused" /\ Decide(t, "done", "paused")
     \/ mainStatus = "running" /\ Goto(t, "dedup")
  /\ UNCHANGED <<mainVars, streamVars, rowVars, dedup, boundVars, vendorVars, unrecorded>>

(* HasDelivered *)
Dedup(t) ==
  /\ pc[t] = "dedup"
  /\ IF t[2] \in dedup THEN Decide(t, "done", "ok") ELSE Goto(t, "claim")
  /\ UNCHANGED <<mainVars, streamVars, rowVars, dedup, boundVars, vendorVars, unrecorded>>

(* ClaimDelivery returns id: what the three callers do with the row *)
Claimed(t) ==
  CASE goal[t[1]] = "send"   -> Goto(t, "check")
    [] goal[t[1]] = "cancel" -> Decide(t, "record", "nothing")
    [] OTHER                 -> Decide(t, "record", "suppressed")

Duplicate(t) == Decide(t, IF goal[t[1]] = "send" THEN "mark" ELSE "done", "ok")

SetRow(c, status) ==
  /\ row' = [row EXCEPT ![c] = status]
  /\ rowStale' = [rowStale EXCEPT ![c] = FALSE]

(* Variant: a fresh sending row is taken over like a stale one. *)
InFlightNever(c) == FALSE

InFlight(c) == row[c] = "sending" /\ ~rowStale[c]

(* Insert the row, or read the one the unique key names *)
ClaimDelivery(t) ==
  /\ pc[t] = "claim"
  /\ \/ row[t[2]] = "none" /\ SetRow(t[2], "sending") /\ Claimed(t)
     \/ row[t[2]] \in DeliveredOK /\ Duplicate(t) /\ UNCHANGED rowVars
     \/ InFlight(t[2]) /\ Decide(t, "done", "failed") /\ UNCHANGED rowVars
     \/ /\ row[t[2]] \notin {"none"} \cup DeliveredOK /\ ~InFlight(t[2])
        /\ Goto(t, "take") /\ UNCHANGED rowVars
  /\ UNCHANGED <<mainVars, streamVars, dedup, boundVars, vendorVars, unrecorded>>

(* WHERE id = ? AND status IN reclaimStatuses: neither the age of a sending row *)
(* nor whether it changed since it was read is tested.  When no row matches it  *)
(* is read again, which is part of this step.                                   *)
TakeRow(t) ==
  /\ pc[t] = "take"
  /\ IF row[t[2]] \in DeliveredOK
     THEN Duplicate(t) /\ UNCHANGED rowVars
     ELSE SetRow(t[2], "sending") /\ Claimed(t)
  /\ UNCHANGED <<mainVars, streamVars, dedup, boundVars, vendorVars, unrecorded>>

(* checkUnsubscribed, allowFreq, waitToken, and the channel is not registered *)
Check(t) ==
  /\ pc[t] = "check"
  /\ \/ Goto(t, "gate") /\ UNCHANGED faults
     \/ Fault("suppress") /\ Decide(t, "record", "suppressed")
     \/ Fault("throttle") /\ Decide(t, "record", "deferred")
  /\ UNCHANGED <<mainVars, streamVars, rowVars, dedup, slow, vendorVars, unrecorded>>

(* Variant: the refresh before the vendor call is answered from the cache. *)
GateCached(t) ==
  /\ pc[t] = "gate"
  /\ \E status \in recent \cup {mainStatus} :
       \/ status = "cancelled" /\ Decide(t, "record", "nothing")
       \/ status = "paused" /\ Decide(t, "record", "paused")
       \/ status = "running" /\ Goto(t, "send")
  /\ UNCHANGED <<mainVars, streamVars, rowVars, dedup, boundVars, vendorVars, unrecorded>>

(* Variant: the dedup key is set before the vendor is asked. *)
GateMarks(t) ==
  /\ pc[t] = "gate"
  /\ \/ mainStatus = "cancelled" /\ Decide(t, "record", "nothing") /\ UNCHANGED dedup
     \/ mainStatus = "paused" /\ Decide(t, "record", "paused") /\ UNCHANGED dedup
     \/ mainStatus = "running" /\ Goto(t, "send") /\ dedup' = dedup \cup {t[2]}
  /\ UNCHANGED <<mainVars, streamVars, rowVars, boundVars, vendorVars, unrecorded>>

(* The forced read after waitToken and after each backoff; doSend's first read *)
(* comes right after it and does the same with what it finds.                  *)
Gate(t) ==
  /\ pc[t] = "gate"
  /\ \/ mainStatus = "cancelled" /\ Decide(t, "record", "nothing")
     \/ mainStatus = "paused" /\ Decide(t, "record", "paused")
     \/ mainStatus = "running" /\ Goto(t, "send")
  /\ UNCHANGED <<mainVars, streamVars, rowVars, dedup, boundVars, vendorVars, unrecorded>>

Accepted(c) ==
  /\ reached' = reached \cup {c}
  /\ twice' = IF c \in known THEN twice \cup {c} ELSE twice

(* sender.Send succeeds. *)
Send(t) ==
  /\ pc[t] = "send"
  /\ Accepted(t[2]) /\ known' = known \cup {t[2]}
  /\ Decide(t, "record", "ok")
  /\ UNCHANGED <<mainVars, streamVars, rowVars, dedup, boundVars, unrecorded>>

(* It fails; after a timeout the vendor may have accepted the message.  A *)
(* retryable failure is tried again.                                      *)
SendFails(t) ==
  /\ pc[t] = "send"
  /\ \/ Fault("reject") /\ UNCHANGED vendorVars
     \/ Fault("timeout") /\ Accepted(t[2]) /\ UNCHANGED known
  /\ \/ Decide(t, "record", "failed")
     \/ /\ try[t] + 1 < MaxAttempts
        /\ pc' = [pc EXCEPT ![t] = "gate"]
        /\ try' = [try EXCEPT ![t] = @ + 1]
        /\ UNCHANGED <<handlerVars, out>>
  /\ UNCHANGED <<mainVars, streamVars, rowVars, dedup, slow, unrecorded>>

-----------------------------------------------------------------------------
(* UpdateRecordDelivery: a read, the test of CanTransitTo, a write *)
RowFor(o) == CASE o = "ok" -> "sent"
               [] o = "failed" -> "failed"
               [] o = "suppressed" -> "suppressed"
               [] o = "nothing" -> "cancelled"
               [] OTHER -> "queued"

CanTransitToAny(from, to) == from # "none"       \* variant: a later status is overwritten

CanTransitTo(from, to) ==
  \/ from = to
  \/ from = "queued"    /\ to \in {"sending"} \cup SoftTerminal
  \/ from = "sending"   /\ to \in {"sent", "queued"} \cup SoftTerminal
  \/ from = "sent"      /\ to \in {"delivered", "clicked", "failed"}
  \/ from = "delivered" /\ to \in {"clicked", "failed"}
  \/ from \in SoftTerminal /\ to \in {"sending", "queued"}

AfterRecord(t) == IF out[t] = "ok" THEN "mark" ELSE "done"

ReadRecord(t) ==
  /\ pc[t] = "record"
  /\ Goto(t, IF CanTransitTo(row[t[2]], RowFor(out[t])) THEN "write" ELSE AfterRecord(t))
  /\ UNCHANGED <<mainVars, streamVars, rowVars, dedup, boundVars, vendorVars, unrecorded>>

WriteRecord(t) ==
  /\ pc[t] = "write"
  /\ SetRow(t[2], RowFor(out[t]))
  /\ Goto(t, AfterRecord(t))
  /\ UNCHANGED <<mainVars, streamVars, dedup, boundVars, vendorVars, unrecorded>>

(* MarkDelivered *)
MarkDelivered(t) ==
  /\ pc[t] = "mark"
  /\ dedup' = dedup \cup {t[2]}
  /\ Goto(t, "done")
  /\ UNCHANGED <<mainVars, streamVars, rowVars, boundVars, vendorVars, unrecorded>>

(* A MySQL statement of sendOne fails.  Only the update after the vendor call *)
(* returns its error, and then the acceptance is lost; the others are ignored. *)
DbError(t) ==
  /\ Fault("dbError")
  /\ \/ /\ pc[t] \in {"claim", "take"} /\ Decide(t, "done", "failed")
        /\ UNCHANGED <<known, unrecorded>>
     \/ /\ pc[t] = "pregate" /\ Decide(t, "done", "deferred")
        /\ UNCHANGED <<known, unrecorded>>
     \/ /\ pc[t] = "gate" /\ Decide(t, "record", "deferred")
        /\ UNCHANGED <<known, unrecorded>>
     \/ /\ pc[t] \in {"record", "write"}
        /\ Decide(t, "done", IF out[t] = "ok" THEN "failed" ELSE out[t])
        /\ known' = IF out[t] = "ok" THEN known \ {t[2]} ELSE known
        /\ unrecorded' = IF out[t] \in {"ok", "failed"} THEN unrecorded
                                                  ELSE unrecorded \cup {t[2]}
  /\ UNCHANGED <<mainVars, streamVars, rowVars, dedup, slow, reached, twice>>

(* Redis fails: the dedup key is neither found nor set. *)
RedisError(t) ==
  /\ Fault("redisError")
  /\ \/ pc[t] = "dedup" /\ Goto(t, "claim")
     \/ pc[t] = "mark" /\ Goto(t, "done")
  /\ UNCHANGED <<mainVars, streamVars, rowVars, dedup, slow, vendorVars, unrecorded>>

-----------------------------------------------------------------------------
(* Receipts (app/callback/service.go, ApplyReceipt): the row is found by the  *)
(* provider's id, which it has from sent on; a vendor that reports a failure  *)
(* withdraws its acceptance.                                                  *)
Receipt(c, status) ==
  /\ Fault("receipts") /\ status \in {"delivered", "clicked", "failed"}
  /\ row[c] \in DeliveredOK /\ row[c] # status /\ CanTransitTo(row[c], status)
  /\ SetRow(c, status)
  /\ known' = IF status = "failed" THEN known \ {c} ELSE known
  /\ UNCHANGED <<mainVars, streamVars, dedup, handlerVars, sendVars, slow, reached, twice,
                 unrecorded>>

(* The campaign API *)
SetMain(status) == mainStatus' = status /\ recent' = recent \cup {mainStatus}

Pause ==
  /\ mainStatus = "running" /\ Fault("pause")
  /\ SetMain("paused")
  /\ UNCHANGED <<expired, mode, streamVars, rowVars, dedup, handlerVars, sendVars, slow,
                 vendorVars, unrecorded>>
Resume ==
  /\ mainStatus = "paused"
  /\ SetMain("running")
  /\ UNCHANGED <<expired, mode, streamVars, rowVars, dedup, handlerVars, sendVars, boundVars,
                 vendorVars, unrecorded>>
Cancel ==
  /\ mainStatus # "cancelled" /\ Fault("cancel")
  /\ SetMain("cancelled")
  /\ UNCHANGED <<expired, mode, streamVars, rowVars, dedup, handlerVars, sendVars, slow,
                 vendorVars, unrecorded>>

(* Time *)
CacheExpires ==
  /\ recent # {} /\ recent' = {}
  /\ UNCHANGED <<mainStatus, expired, mode, streamVars, rowVars, dedup, handlerVars, sendVars,
                 boundVars, vendorVars, unrecorded>>

MessageExpires ==
  /\ ~expired /\ Fault("expiry")
  /\ expired' = TRUE
  /\ UNCHANGED <<mainStatus, recent, mode, streamVars, rowVars, dedup, handlerVars, sendVars,
                 slow, vendorVars, unrecorded>>

SpendTime(busy) == IF busy THEN slow < MaxSlow /\ slow' = slow + 1 ELSE UNCHANGED slow

EntryIdles(e) ==
  /\ entry[e] = "pending" /\ ~idle[e]
  /\ idle' = [idle EXCEPT ![e] = TRUE]
  /\ SpendTime(\E h \in Handlers : work[h] = e)
  /\ UNCHANGED <<mainVars, entry, deliveries, aged, dlq, rowVars, dedup, handlerVars, sendVars,
                 faults, vendorVars, unrecorded>>

RowGetsStale(c) ==
  /\ row[c] = "sending" /\ ~rowStale[c]
  /\ rowStale' = [rowStale EXCEPT ![c] = TRUE]
  /\ SpendTime(\E h \in Handlers : pc[<<h, c>>] \in Holding)
  /\ UNCHANGED <<mainVars, streamVars, row, dedup, handlerVars, sendVars, faults, vendorVars,
                 unrecorded>>

EntryAges(e) ==
  /\ entry[e] = "pending" /\ ~aged[e]
  /\ aged' = [aged EXCEPT ![e] = TRUE]
  /\ UNCHANGED <<mainVars, entry, deliveries, idle, dlq, rowVars, dedup, handlerVars, sendVars,
                 boundVars, vendorVars, unrecorded>>

(* A pusher stops: what its vendor call returned and it had not recorded is lost. *)
Crash(h) ==
  /\ stage[h] # "idle" /\ Fault("crash")
  /\ stage' = [stage EXCEPT ![h] = "idle"]
  /\ work' = [work EXCEPT ![h] = NoEntry]
  /\ goal' = [goal EXCEPT ![h] = "send"]
  /\ pc' = [t \in Sends |-> IF t[1] = h THEN "off" ELSE pc[t]]
  /\ out' = [t \in Sends |-> IF t[1] = h THEN "none" ELSE out[t]]
  /\ try' = [t \in Sends |-> IF t[1] = h THEN 0 ELSE try[t]]
  /\ known' = known \ {c \in Channels : pc[<<h, c>>] \in {"record", "write"} /\ out[<<h, c>>] = "ok"}
  /\ UNCHANGED <<mainVars, streamVars, rowVars, dedup, slow, reached, twice, unrecorded>>

(* Redis forgets the dedup keys. *)
RedisLoss ==
  /\ dedup # {} /\ Fault("redisLoss")
  /\ dedup' = {}
  /\ UNCHANGED <<mainVars, streamVars, rowVars, handlerVars, sendVars, slow, vendorVars, unrecorded>>

(* XTRIM MAXLEN removes the entry, consumed or not. *)
Trim(e) ==
  /\ entry[e] \in {"new", "pending"} /\ Fault("trim")
  /\ entry' = [entry EXCEPT ![e] = "trimmed"]
  /\ idle' = [idle EXCEPT ![e] = FALSE]
  /\ UNCHANGED <<mainVars, deliveries, aged, dlq, rowVars, dedup, handlerVars, sendVars, slow,
                 vendorVars, unrecorded>>

-----------------------------------------------------------------------------
SendStep(t) ==
  \/ Pregate(t) \/ Dedup(t) \/ ClaimDelivery(t) \/ TakeRow(t) \/ Check(t) \/ Gate(t)
  \/ Send(t) \/ SendFails(t) \/ ReadRecord(t) \/ WriteRecord(t) \/ MarkDelivered(t)

HandleStep(h) ==
  \/ Handle(h) \/ HandleDefers(h) \/ Join(h)
  \/ \E c \in Channels : NextChannel(h, c) \/ SendStep(<<h, c>>)
  \/ Ack(h) \/ onHandlerFailure(h)

Consume(e) == \E h \in Handlers : Deliver(h, e) \/ reclaimOnce(h, e)

ErrorStep(t) == DbError(t) \/ RedisError(t)

ApiStep == Pause \/ Resume \/ Cancel

TimeStep ==
  \/ CacheExpires \/ MessageExpires
  \/ \E e \in Entries : EntryIdles(e) \/ EntryAges(e)
  \/ \E c \in Channels : RowGetsStale(c)

VendorStep == \E c \in Channels, status \in DeliveredOK \cup {"failed"} : Receipt(c, status)

Next ==
  \/ \E e \in Entries : Consume(e) \/ Trim(e)
  \/ \E h \in Handlers : HandleStep(h) \/ QueueError(h) \/ Crash(h)
  \/ \E t \in Sends : ErrorStep(t)
  \/ ApiStep \/ TimeStep \/ VendorStep \/ RedisLoss

Spec == Init /\ [][Next]_vars

(* Goroutines run; every round of Consume reads both the idle pending entries  *)
(* and the new ones, so no entry is passed over for ever; time passes.         *)
Fairness ==
  /\ \A h \in Handlers : WF_vars(HandleStep(h))
  /\ \A e \in Entries :
       /\ WF_vars(Consume(e))
       /\ WF_vars(EntryIdles(e) /\ \A h \in Handlers : work[h] # e)
       /\ WF_vars(EntryAges(e))
  /\ WF_vars(CacheExpires)

FairSpec == Spec /\ Fairness

-----------------------------------------------------------------------------
(* Properties *)

(* What counts as delivered was accepted by the vendor: a row that says so   *)
(* and a dedup key, which keeps every later copy from being sent.            *)
DeliveredWasAccepted == \A c \in Channels : row[c] \in DeliveredOK \/ c \in dedup => c \in reached

(* Why: a handler that is about to record or mark a success got it from the  *)
(* vendor or from a delivered row.                                           *)
HoldsSuccess(t) == pc[t] = "mark" \/ (pc[t] \in {"record", "write"} /\ out[t] = "ok")
SuccessInHand == \A t \in Sends : HoldsSuccess(t) => t[2] \in reached
AcceptedInv == DeliveredWasAccepted /\ SuccessInHand

(* The vendor does not get the message again while its acceptance is known:  *)
(* redeliveries, retries and copies end at the row or the dedup key.         *)
SentOnce == twice = {}

(* A delivered row stays delivered, and a receipt is not undone by the late  *)
(* update of the send itself; only the vendor reports a failure.  This needs *)
(* one handler per row: the write is not guarded by the status that was read. *)
DeliveredStays ==
  [][\A c \in Channels : row[c] \in DeliveredOK =>
       \/ row'[c] = row[c]
       \/ row[c] = "sent" /\ row'[c] \in {"delivered", "clicked", "failed"}
       \/ row[c] = "delivered" /\ row'[c] \in {"clicked", "failed"}]_vars

(* Once the campaign is cancelled nobody starts a vendor call: not the next  *)
(* channel, not a retry after its backoff, not a handler with a cached       *)
(* status; only calls that have begun are finished.                          *)
CancelStopsSends ==
  [][\A t \in Sends : mainStatus = "cancelled" /\ pc[t] # "send" => pc'[t] # "send"]_vars

(* The rows, the claims and the forced looks at the campaign keep the promise *)
(* of DeliveryPromise on every channel: at most one vendor call at a time,    *)
(* none after a cancellation or while an acceptance is known, and a delivered *)
(* row that only the vendor takes back.  The dedup keys are not part of it.   *)
Cancelled == mainStatus = "cancelled"
Asking    == {t \in Sends : pc[t] = "send"}
Shown     == {c \in Channels : row[c] \in DeliveredOK}
Promise   == INSTANCE DeliveryPromise
               WITH cancelled <- Cancelled, calls <- Asking, accepted <- reached, shown <- Shown
ImplementsPromise == Promise!Spec

Resolved(c) == c \in reached \cup unrecorded \/ row[c] \in {"suppressed", "cancelled"}

(* When every copy is acknowledged, none of them dead, the user's message    *)
(* has reached a vendor or a row says why not; with all_success on every     *)
(* channel.  An update of a row that failed and was ignored is the only      *)
(* exception; cancelled and expired campaigns are marked on a best-effort    *)
(* basis.                                                                    *)
AckedIsResolved ==
  /\ \A e \in Entries : entry[e] \in {"absent", "acked"} /\ e \notin dlq
  /\ \A h \in Handlers : stage[h] = "idle"
  /\ mainStatus # "cancelled" /\ ~expired
  => IF mode = "all_success" THEN \A c \in Channels : Resolved(c) ELSE \E c \in Channels : Resolved(c)

(* No message stays pending for ever: it is acknowledged, if need be after   *)
(* it was put to the dead letters, or trimmed.                               *)
EntrySettles == <>(\A e \in Entries : entry[e] \in {"absent", "acked", "trimmed"})
=============================================================================
