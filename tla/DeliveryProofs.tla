--------------------------- MODULE DeliveryProofs ---------------------------
(***************************************************************************)
(* Proofs about Delivery for any stream entries and copies, any number of  *)
(* handlers, channels and attempts, any disturbances and any bounds.       *)
(***************************************************************************)
EXTENDS Delivery, FiniteSetTheorems, TLAPS

-----------------------------------------------------------------------------
(* Typing *)
LEMMA Stutters ==
  /\ MainTypeOK /\ UNCHANGED mainVars => MainTypeOK'
  /\ StreamTypeOK /\ UNCHANGED streamVars => StreamTypeOK'
  /\ RowTypeOK /\ UNCHANGED <<rowVars, dedup>> => RowTypeOK'
  /\ HandlerTypeOK /\ UNCHANGED handlerVars => HandlerTypeOK'
  /\ SendTypeOK /\ UNCHANGED <<handlerVars, sendVars>> => SendTypeOK'
  /\ OtherTypeOK /\ UNCHANGED <<boundVars, vendorVars, unrecorded>> => OtherTypeOK'
BY DEF MainTypeOK, StreamTypeOK, RowTypeOK, HandlerTypeOK, SendTypeOK, OtherTypeOK,
   mainVars, streamVars, rowVars, handlerVars, sendVars, boundVars, vendorVars

LEMMA SendsAre == \A t \in Sends : t[1] \in Handlers /\ t[2] \in Channels
BY DEF Sends

LEMMA GotoTyped ==
  ASSUME SendTypeOK, NEW t \in Sends, pc[t] # "off", NEW l \in SendPcs, Goto(t, l)
  PROVE  SendTypeOK' /\ UNCHANGED handlerVars
BY DEF SendTypeOK, Goto, handlerVars

LEMMA DecideTyped ==
  ASSUME SendTypeOK, NEW t \in Sends, pc[t] # "off", NEW l \in SendPcs, NEW o \in Outcomes,
         Decide(t, l, o)
  PROVE  SendTypeOK' /\ UNCHANGED handlerVars
BY DEF SendTypeOK, Decide, handlerVars

LEMMA SetRowTyped ==
  ASSUME RowTypeOK, NEW c \in Channels, NEW status \in RowStatus, SetRow(c, status), UNCHANGED dedup
  PROVE  RowTypeOK'
BY DEF RowTypeOK, SetRow

LEMMA ReturnsTyped ==
  ASSUME HandlerTypeOK, SendTypeOK, NEW h \in Handlers, stage[h] # "idle", NEW result \in Stages,
         Returns(h, result)
  PROVE  HandlerTypeOK' /\ SendTypeOK'
<1>1. HandlerTypeOK'
  BY DEF HandlerTypeOK, Returns
<1>2. SendTypeOK'
  <2>1. pc' \in [Sends -> SendPcs] /\ out' \in [Sends -> Outcomes] /\ try' \in [Sends -> Nat]
    BY DEF SendTypeOK, Returns, SendPcs, Outcomes
  <2>2. ASSUME NEW t \in Sends, pc'[t] # "off" PROVE stage'[t[1]] = "run"
    <3>1. t[1] # h /\ pc[t] # "off"
      BY <2>2 DEF Returns
    <3>2. t[1] \in Handlers /\ stage'[t[1]] = stage[t[1]]
      BY <3>1, SendsAre DEF Returns, HandlerTypeOK
    <3> QED BY <3>1, <3>2 DEF SendTypeOK
  <2> QED BY <2>1, <2>2 DEF SendTypeOK
<1> QED BY <1>1, <1>2

LEMMA FreeTyped ==
  ASSUME HandlerTypeOK, SendTypeOK, NEW h \in Handlers, stage[h] # "run", Free(h)
  PROVE  HandlerTypeOK' /\ SendTypeOK'
<1>1. HandlerTypeOK'
  BY DEF HandlerTypeOK, Free, Stages
<1>2. ASSUME NEW t \in Sends, pc[t] # "off" PROVE t[1] \in Handlers /\ t[1] # h /\ stage[t[1]] = "run"
  BY <1>2, SendsAre DEF SendTypeOK
<1>3. SendTypeOK'
  BY <1>2 DEF SendTypeOK, HandlerTypeOK, Free, sendVars
<1> QED BY <1>1, <1>3

LEMMA BeginTyped ==
  ASSUME HandlerTypeOK, SendTypeOK, NEW h \in Handlers, stage[h] = "snap",
         NEW what \in {"send", "cancel", "expire"}, NEW cs, NEW l \in SendPcs, Begin(h, what, cs, l)
  PROVE  HandlerTypeOK' /\ SendTypeOK'
<1>1. HandlerTypeOK'
  BY DEF HandlerTypeOK, Begin, Stages
<1>2. pc' \in [Sends -> SendPcs] /\ out' \in [Sends -> Outcomes] /\ try' \in [Sends -> Nat]
  BY DEF SendTypeOK, Begin
<1>3. ASSUME NEW t \in Sends, pc'[t] # "off" PROVE stage'[t[1]] = "run"
  <2>1. CASE t[1] = h
    BY <2>1 DEF Begin, HandlerTypeOK
  <2>2. CASE t[1] # h
    <3>1. pc[t] # "off" /\ t[1] \in Handlers
      BY <1>3, <2>2, SendsAre DEF Begin
    <3> QED BY <2>2, <3>1 DEF SendTypeOK, HandlerTypeOK, Begin
  <2> QED BY <2>1, <2>2
<1> QED BY <1>1, <1>2, <1>3 DEF SendTypeOK

LEMMA InitTyped == Init => TypeOK
<1> SUFFICES ASSUME Init PROVE TypeOK
  OBVIOUS
<1>1. MainTypeOK /\ StreamTypeOK /\ RowTypeOK
  BY DEF Init, MainTypeOK, MainStatus, StreamTypeOK, RowTypeOK, RowStatus
<1>2. HandlerTypeOK /\ SendTypeOK
  BY DEF Init, HandlerTypeOK, SendTypeOK, Stages, SendPcs, Outcomes
<1>3. faults \in Nat
  <2>1. PICK copies \in CopySets : faults = DuplicateCost * (Cardinality(copies) - 1)
    BY DEF Init
  <2>2. copies \subseteq Entries /\ copies # {} /\ IsFiniteSet(copies)
    BY EntriesAssumption, FS_Subset
  <2>3. Cardinality(copies) \in Nat /\ Cardinality(copies) # 0
    BY <2>2, FS_CardinalityType, FS_EmptySet
  <2>4. Cardinality(copies) - 1 \in Nat
    BY <2>3
  <2> QED BY <2>1, <2>4, DeliveryBounds
<1>4. OtherTypeOK
  BY <1>3 DEF Init, OtherTypeOK
<1> QED BY <1>1, <1>2, <1>4 DEF TypeOK

(* Consume, the acknowledgement and the dead letters *)
LEMMA QueueTyped ==
  ASSUME TypeOK, NEW h \in Handlers,
         \/ \E e \in Entries : Deliver(h, e) \/ reclaimOnce(h, e)
         \/ Ack(h) \/ onHandlerFailure(h) \/ QueueError(h)
  PROVE  TypeOK'
<1> USE Stutters DEF TypeOK
<1>1. ASSUME NEW e \in Entries, Take(h, e) PROVE TypeOK'
  <2>1. StreamTypeOK'
    BY <1>1 DEF Take, StreamTypeOK
  <2>2. HandlerTypeOK'
    BY <1>1 DEF Take, HandlerTypeOK, Stages
  <2>3. SendTypeOK'
    <3>1. ASSUME NEW t \in Sends, pc[t] # "off" PROVE t[1] \in Handlers /\ t[1] # h
      BY <1>1, <3>1, SendsAre DEF Take, SendTypeOK
    <3> QED BY <1>1, <3>1 DEF Take, SendTypeOK, HandlerTypeOK, sendVars
  <2> QED BY <1>1, <2>1, <2>2, <2>3 DEF Take
<1>2. CASE Ack(h)
  <2>1. StreamTypeOK'
    BY <1>2 DEF Ack, StreamTypeOK
  <2>2. HandlerTypeOK' /\ SendTypeOK'
    BY <1>2, FreeTyped DEF Ack
  <2> QED BY <1>2, <2>1, <2>2 DEF Ack
<1>3. CASE onHandlerFailure(h)
  <2>0. work[h] \in Entries /\ stage[h] # "run"
    BY <1>3 DEF onHandlerFailure, HandlerTypeOK
  <2>1. CASE Dead(h)
    <3>1. StreamTypeOK'
      BY <1>3, <2>0, <2>1 DEF onHandlerFailure, StreamTypeOK
    <3>2. HandlerTypeOK'
      BY <1>3, <2>0, <2>1 DEF onHandlerFailure, HandlerTypeOK, Stages
    <3>3. SendTypeOK'
      <4>1. ASSUME NEW t \in Sends, pc[t] # "off" PROVE t[1] \in Handlers /\ t[1] # h
        BY <2>0, <4>1, SendsAre DEF SendTypeOK
      <4> QED BY <1>3, <2>1, <4>1 DEF onHandlerFailure, SendTypeOK, HandlerTypeOK, sendVars
    <3> QED BY <1>3, <3>1, <3>2, <3>3 DEF onHandlerFailure
  <2>2. CASE ~Dead(h)
    <3>1. HandlerTypeOK' /\ SendTypeOK'
      BY <1>3, <2>0, <2>2, FreeTyped DEF onHandlerFailure
    <3>2. UNCHANGED streamVars
      BY <1>3, <2>2 DEF onHandlerFailure, streamVars
    <3> QED BY <1>3, <3>1, <3>2 DEF onHandlerFailure
  <2> QED BY <2>1, <2>2
<1>4. CASE QueueError(h)
  <2>1. HandlerTypeOK' /\ SendTypeOK'
    BY <1>4, FreeTyped DEF QueueError
  <2>2. OtherTypeOK'
    BY <1>4 DEF QueueError, Fault, OtherTypeOK, vendorVars
  <2> QED BY <1>4, <2>1, <2>2 DEF QueueError
<1> QED BY <1>1, <1>2, <1>3, <1>4 DEF Deliver, reclaimOnce

(* Handle and its result *)
LEMMA HandleTyped ==
  ASSUME TypeOK, NEW h \in Handlers,
         Handle(h) \/ HandleDefers(h) \/ Join(h) \/ \E c \in Channels : NextChannel(h, c)
  PROVE  TypeOK'
<1> USE Stutters DEF TypeOK
<1>1. CASE Handle(h)
  <2>1. HandlerTypeOK' /\ SendTypeOK'
    <3>1. PICK status \in recent \cup {mainStatus} :
            \/ status = "cancelled" /\ Begin(h, "cancel", {1}, "claim")
            \/ status = "paused" /\ Returns(h, "defer")
            \/ status = "running" /\ expired /\ Begin(h, "expire", {1}, "claim")
            \/ /\ status = "running" /\ ~expired
               /\ Begin(h, "send", IF mode \in {"single", "fallback"} THEN {1} ELSE Channels, "dedup")
      BY <1>1 DEF Handle
    <3>2. CASE Returns(h, "defer")
      BY <1>1, <3>2, ReturnsTyped DEF Handle, Stages
    <3>3. ASSUME NEW what \in {"send", "cancel", "expire"}, NEW cs, NEW l \in {"claim", "dedup"},
                 Begin(h, what, cs, l)
          PROVE  HandlerTypeOK' /\ SendTypeOK'
      BY <1>1, <3>3, BeginTyped DEF Handle, SendPcs
    <3> QED BY <3>1, <3>2, <3>3
  <2> QED BY <1>1, <2>1 DEF Handle
<1>2. CASE HandleDefers(h)
  <2>1. HandlerTypeOK' /\ SendTypeOK'
    BY <1>2, ReturnsTyped DEF HandleDefers, Stages
  <2>2. OtherTypeOK'
    BY <1>2 DEF HandleDefers, Fault, OtherTypeOK, vendorVars
  <2> QED BY <1>2, <2>1, <2>2 DEF HandleDefers
<1>3. ASSUME NEW c \in Channels, NextChannel(h, c) PROVE TypeOK'
  <2>1. SequentialResults(h, c) \subseteq Stages
    BY DEF SequentialResults, Stages
  <2>2. HandlerTypeOK' /\ SendTypeOK'
    <3>1. CASE \E result \in Stages : Returns(h, result)
      BY <1>3, <3>1, ReturnsTyped DEF NextChannel
    <3>2. CASE /\ c < LastChannel /\ UNCHANGED <<handlerVars, out, try>>
               /\ pc' = [pc EXCEPT ![<<h, c + 1>>] = IF goal[h] = "send" THEN "pregate" ELSE "claim"]
      <4> DEFINE l == IF goal[h] = "send" THEN "pregate" ELSE "claim"
      <4>0. l \in SendPcs
        BY DEF SendPcs
      <4>1. pc' = [pc EXCEPT ![<<h, c + 1>>] = l]
        BY <3>2
      <4> HIDE DEF l
      <4>2. pc' \in [Sends -> SendPcs]
        BY <4>0, <4>1 DEF SendTypeOK
      <4>3. ASSUME NEW t \in Sends, pc'[t] # "off" PROVE stage[t[1]] = "run"
        <5>1. t = <<h, c + 1>> => t[1] = h
          OBVIOUS
        <5>2. t # <<h, c + 1>> => pc[t] # "off"
          BY <4>1, <4>3 DEF SendTypeOK
        <5> QED BY <1>3, <5>1, <5>2 DEF NextChannel, SendTypeOK
      <4> QED BY <3>2, <4>2, <4>3 DEF SendTypeOK, handlerVars
    <3> QED BY <1>3, <2>1, <3>1, <3>2 DEF NextChannel
  <2> QED BY <1>3, <2>2 DEF NextChannel
<1>4. CASE Join(h)
  <2>1. ASSUME NEW rs
        PROVE  classifyParallelOutcomes(rs) \subseteq Stages /\ classifyAllSuccessOutcomes(rs) \subseteq Stages
    BY DEF classifyParallelOutcomes, classifyAllSuccessOutcomes, Errors, Stages
  <2>2. \E result \in Stages : Returns(h, result)
    BY <1>4, <2>1 DEF Join
  <2>3. HandlerTypeOK' /\ SendTypeOK'
    BY <1>4, <2>2, ReturnsTyped DEF Join
  <2> QED BY <1>4, <2>3 DEF Join
<1> QED BY <1>1, <1>2, <1>3, <1>4

(* sendOne up to the vendor's answer *)
LEMMA ClaimTyped ==
  ASSUME TypeOK, NEW t \in Sends, Pregate(t) \/ Dedup(t) \/ ClaimDelivery(t) \/ TakeRow(t) \/ Check(t) \/ Gate(t)
  PROVE  TypeOK'
<1> USE Stutters, SendsAre, GotoTyped, DecideTyped DEF TypeOK, SendPcs, Holding, Outcomes
<1>0. ASSUME pc[t] # "off", Claimed(t) \/ Duplicate(t) PROVE SendTypeOK' /\ UNCHANGED handlerVars
  BY <1>0 DEF Claimed, Duplicate
<1>1. CASE Pregate(t)
  <2>1. CASE /\ goal' = [goal EXCEPT ![t[1]] = "cancel"]
             /\ pc' = [pc EXCEPT ![t] = "claim"]
             /\ UNCHANGED <<stage, work, out, try>>
    <3>1. HandlerTypeOK'
      BY <2>1 DEF HandlerTypeOK
    <3>2. SendTypeOK'
      BY <1>1, <2>1 DEF Pregate, SendTypeOK
    <3> QED BY <1>1, <3>1, <3>2 DEF Pregate
  <2>2. CASE Decide(t, "done", "paused") \/ Goto(t, "dedup")
    BY <1>1, <2>2 DEF Pregate
  <2> QED BY <1>1, <2>1, <2>2 DEF Pregate
<1>2. CASE Dedup(t)
  BY <1>2 DEF Dedup
<1>3. CASE ClaimDelivery(t)
  <2>1. RowTypeOK'
    BY <1>3, SetRowTyped DEF ClaimDelivery, RowStatus
  <2>2. SendTypeOK' /\ UNCHANGED handlerVars
    BY <1>3, <1>0 DEF ClaimDelivery
  <2> QED BY <1>3, <2>1, <2>2 DEF ClaimDelivery
<1>4. CASE TakeRow(t)
  <2>1. RowTypeOK'
    BY <1>4, SetRowTyped DEF TakeRow, RowStatus
  <2>2. SendTypeOK' /\ UNCHANGED handlerVars
    BY <1>4, <1>0 DEF TakeRow
  <2> QED BY <1>4, <2>1, <2>2 DEF TakeRow
<1>5. CASE Check(t)
  <2>1. SendTypeOK' /\ UNCHANGED handlerVars
    BY <1>5 DEF Check
  <2>2. OtherTypeOK'
    BY <1>5 DEF Check, Fault, OtherTypeOK, vendorVars
  <2> QED BY <1>5, <2>1, <2>2 DEF Check
<1>6. CASE Gate(t)
  BY <1>6 DEF Gate
<1> QED BY <1>1, <1>2, <1>3, <1>4, <1>5, <1>6

(* The vendor call, the record of its answer and the failing statements *)
LEMMA SendTyped ==
  ASSUME TypeOK, NEW t \in Sends,
         \/ Send(t) \/ SendFails(t) \/ ReadRecord(t) \/ WriteRecord(t) \/ MarkDelivered(t)
         \/ DbError(t) \/ RedisError(t)
  PROVE  TypeOK'
<1> USE Stutters, SendsAre, GotoTyped, DecideTyped DEF TypeOK, SendPcs, Holding, Outcomes
<1>1. CASE Send(t)
  <2>1. OtherTypeOK'
    BY <1>1 DEF Send, Accepted, OtherTypeOK, boundVars
  <2> QED BY <1>1, <2>1 DEF Send
<1>2. CASE SendFails(t)
  <2>1. OtherTypeOK'
    BY <1>2 DEF SendFails, Fault, Accepted, OtherTypeOK, vendorVars
  <2>2. SendTypeOK' /\ UNCHANGED handlerVars
    <3>1. CASE Decide(t, "record", "failed")
      BY <1>2, <3>1 DEF SendFails
    <3>2. CASE ~Decide(t, "record", "failed")
      BY <1>2, <3>2 DEF SendFails, SendTypeOK, handlerVars
    <3> QED BY <3>1, <3>2
  <2> QED BY <1>2, <2>1, <2>2 DEF SendFails
<1>3. CASE ReadRecord(t)
  BY <1>3 DEF ReadRecord, AfterRecord
<1>4. CASE WriteRecord(t)
  <2>1. RowFor(out[t]) \in RowStatus
    BY DEF RowFor, RowStatus, DeliveredOK, SoftTerminal
  <2>2. RowTypeOK'
    BY <1>4, <2>1, SetRowTyped DEF WriteRecord
  <2> QED BY <1>4, <2>2 DEF WriteRecord, AfterRecord
<1>5. CASE MarkDelivered(t)
  <2>1. RowTypeOK'
    BY <1>5 DEF MarkDelivered, RowTypeOK, rowVars
  <2> QED BY <1>5, <2>1 DEF MarkDelivered
<1>6. CASE DbError(t)
  <2>1. SendTypeOK' /\ UNCHANGED handlerVars
    <3>1. CASE pc[t] \in {"record", "write"}
      <4>1. PICK o \in Outcomes : Decide(t, "done", o)
        BY <1>6, <3>1 DEF DbError, SendTypeOK
      <4> QED BY <3>1, <4>1
    <3>2. CASE pc[t] \notin {"record", "write"}
      BY <1>6, <3>2 DEF DbError
    <3> QED BY <3>1, <3>2
  <2>2. OtherTypeOK'
    BY <1>6 DEF DbError, Fault, OtherTypeOK
  <2> QED BY <1>6, <2>1, <2>2 DEF DbError
<1>7. CASE RedisError(t)
  <2>1. OtherTypeOK'
    BY <1>7 DEF RedisError, Fault, OtherTypeOK, vendorVars
  <2> QED BY <1>7, <2>1 DEF RedisError
<1> QED BY <1>1, <1>2, <1>3, <1>4, <1>5, <1>6, <1>7

(* Receipts, the campaign API, time, crashes and the loss of keys and entries *)
LEMMA OutsideTyped ==
  ASSUME TypeOK,
         \/ ApiStep \/ TimeStep \/ VendorStep \/ RedisLoss
         \/ (\E h \in Handlers : Crash(h)) \/ (\E e \in Entries : Trim(e)) \/ UNCHANGED vars
  PROVE  TypeOK'
<1> USE Stutters DEF TypeOK
<1>1. ASSUME NEW c \in Channels, NEW status \in DeliveredOK \cup {"failed"}, Receipt(c, status)
      PROVE  TypeOK'
  <2>1. RowTypeOK'
    BY <1>1, SetRowTyped DEF Receipt, RowStatus, DeliveredOK, SoftTerminal
  <2>2. OtherTypeOK'
    BY <1>1 DEF Receipt, Fault, OtherTypeOK
  <2> QED BY <1>1, <2>1, <2>2 DEF Receipt
<1>2. CASE Pause \/ Resume \/ Cancel
  <2>1. MainTypeOK'
    BY <1>2 DEF Pause, Resume, Cancel, SetMain, MainTypeOK, MainStatus
  <2>2. OtherTypeOK'
    BY <1>2 DEF Pause, Resume, Cancel, Fault, OtherTypeOK, vendorVars, boundVars
  <2> QED BY <1>2, <2>1, <2>2 DEF Pause, Resume, Cancel
<1>3. CASE CacheExpires
  <2>1. MainTypeOK'
    BY <1>3 DEF CacheExpires, MainTypeOK
  <2> QED BY <1>3, <2>1 DEF CacheExpires
<1>4. CASE MessageExpires
  <2>1. MainTypeOK' /\ OtherTypeOK'
    BY <1>4 DEF MessageExpires, Fault, MainTypeOK, OtherTypeOK, vendorVars
  <2> QED BY <1>4, <2>1 DEF MessageExpires
<1>5. ASSUME NEW e \in Entries, EntryIdles(e) \/ EntryAges(e) PROVE TypeOK'
  <2>1. StreamTypeOK'
    BY <1>5 DEF EntryIdles, EntryAges, StreamTypeOK
  <2>2. OtherTypeOK'
    BY <1>5 DEF EntryIdles, EntryAges, SpendTime, OtherTypeOK, vendorVars, boundVars
  <2> QED BY <1>5, <2>1, <2>2 DEF EntryIdles, EntryAges
<1>6. ASSUME NEW c \in Channels, RowGetsStale(c) PROVE TypeOK'
  <2>1. RowTypeOK'
    BY <1>6 DEF RowGetsStale, RowTypeOK
  <2>2. OtherTypeOK'
    BY <1>6 DEF RowGetsStale, SpendTime, OtherTypeOK, vendorVars
  <2> QED BY <1>6, <2>1, <2>2 DEF RowGetsStale
<1>7. CASE RedisLoss
  <2>1. RowTypeOK' /\ OtherTypeOK'
    BY <1>7 DEF RedisLoss, Fault, RowTypeOK, rowVars, OtherTypeOK, vendorVars
  <2> QED BY <1>7, <2>1 DEF RedisLoss
<1>8. ASSUME NEW h \in Handlers, Crash(h) PROVE TypeOK'
  <2>1. HandlerTypeOK'
    BY <1>8 DEF Crash, HandlerTypeOK, Stages
  <2>2. pc' \in [Sends -> SendPcs] /\ out' \in [Sends -> Outcomes] /\ try' \in [Sends -> Nat]
    BY <1>8 DEF Crash, SendTypeOK, SendPcs, Outcomes
  <2>3. ASSUME NEW t \in Sends, pc'[t] # "off" PROVE stage'[t[1]] = "run"
    <3>1. t[1] # h /\ pc[t] # "off" /\ t[1] \in Handlers
      BY <1>8, <2>3, SendsAre DEF Crash
    <3> QED BY <1>8, <3>1 DEF Crash, SendTypeOK, HandlerTypeOK
  <2>4. OtherTypeOK'
    BY <1>8 DEF Crash, Fault, OtherTypeOK
  <2> QED BY <1>8, <2>1, <2>2, <2>3, <2>4 DEF Crash, SendTypeOK
<1>9. ASSUME NEW e \in Entries, Trim(e) PROVE TypeOK'
  <2>1. StreamTypeOK'
    BY <1>9 DEF Trim, StreamTypeOK
  <2>2. OtherTypeOK'
    BY <1>9 DEF Trim, Fault, OtherTypeOK, vendorVars
  <2> QED BY <1>9, <2>1, <2>2 DEF Trim
<1>10. CASE UNCHANGED vars
  BY <1>10 DEF vars
<1> QED BY <1>1, <1>2, <1>3, <1>4, <1>5, <1>6, <1>7, <1>8, <1>9, <1>10 DEF ApiStep, TimeStep, VendorStep

(* The steps by what they do *)
QueueStep(h) ==
  \/ \E e \in Entries : Deliver(h, e) \/ reclaimOnce(h, e)
  \/ Ack(h) \/ onHandlerFailure(h) \/ QueueError(h)
GatewayStep(h) == Handle(h) \/ HandleDefers(h) \/ Join(h) \/ \E c \in Channels : NextChannel(h, c)
OutsideStep ==
  \/ ApiStep \/ TimeStep \/ VendorStep \/ RedisLoss
  \/ (\E h \in Handlers : Crash(h)) \/ (\E e \in Entries : Trim(e)) \/ UNCHANGED vars

LEMMA StepIs ==
  ASSUME [Next]_vars
  PROVE  \/ \E h \in Handlers : QueueStep(h) \/ GatewayStep(h)
         \/ \E t \in Sends : SendStep(t) \/ DbError(t) \/ RedisError(t)
         \/ OutsideStep
<1>1. ASSUME NEW h \in Handlers, HandleStep(h)
      PROVE  QueueStep(h) \/ GatewayStep(h) \/ \E t \in Sends : SendStep(t)
  <2>1. ASSUME NEW c \in Channels, SendStep(<<h, c>>) PROVE \E t \in Sends : SendStep(t)
    BY <2>1 DEF Sends
  <2> QED BY <1>1, <2>1 DEF HandleStep, QueueStep, GatewayStep
<1>2. ASSUME NEW e \in Entries, Consume(e) PROVE \E h \in Handlers : QueueStep(h)
  BY <1>2 DEF Consume, QueueStep
<1>3. ASSUME NEW h \in Handlers, QueueError(h) PROVE QueueStep(h)
  BY <1>3 DEF QueueStep
<1> QED BY <1>1, <1>2, <1>3 DEF Next, ErrorStep, OutsideStep

(* Every reachable state of the delivery is well-typed. *)
THEOREM DeliveryTyping == Spec => []TypeOK
<1>1. ASSUME TypeOK, [Next]_vars PROVE TypeOK'
  <2>1. ASSUME NEW h \in Handlers, QueueStep(h) \/ GatewayStep(h) PROVE TypeOK'
    BY <1>1, <2>1, QueueTyped, HandleTyped DEF QueueStep, GatewayStep
  <2>2. ASSUME NEW t \in Sends, SendStep(t) \/ DbError(t) \/ RedisError(t) PROVE TypeOK'
    BY <1>1, <2>2, ClaimTyped, SendTyped DEF SendStep
  <2>3. CASE OutsideStep
    BY <1>1, <2>3, OutsideTyped DEF OutsideStep
  <2> QED BY <1>1, <2>1, <2>2, <2>3, StepIs
<1> QED BY InitTyped, <1>1, PTL DEF Spec

-----------------------------------------------------------------------------
(* What counts as delivered was accepted.  A step adds a delivered row or a  *)
(* dedup key only out of a success in hand, and a success in hand comes from *)
(* the vendor's answer or from a delivered row.                              *)
LEMMA AcceptedFrom ==
  ASSUME AcceptedInv, reached \subseteq reached',
         \A c \in Channels : row'[c] \in DeliveredOK =>
           row[c] \in DeliveredOK \/ \E t \in Sends : t[2] = c /\ HoldsSuccess(t),
         \A c \in Channels : c \in dedup' =>
           c \in dedup \/ \E t \in Sends : t[2] = c /\ HoldsSuccess(t),
         \A t \in Sends : HoldsSuccess(t)' =>
           HoldsSuccess(t) \/ row[t[2]] \in DeliveredOK \/ t[2] \in reached'
  PROVE  AcceptedInv'
<1>1. \A c \in Channels : (row[c] \in DeliveredOK \/ c \in dedup) => c \in reached
  BY DEF AcceptedInv, DeliveredWasAccepted
<1>2. \A t \in Sends : HoldsSuccess(t) => t[2] \in reached
  BY DEF AcceptedInv, SuccessInHand, HoldsSuccess
<1>3. DeliveredWasAccepted'
  BY <1>1, <1>2 DEF DeliveredWasAccepted
<1>4. SuccessInHand'
  BY <1>1, <1>2, SendsAre DEF SuccessInHand, HoldsSuccess
<1> QED BY <1>3, <1>4 DEF AcceptedInv

LEMMA SendAccepted ==
  ASSUME TypeOK, AcceptedInv, NEW t \in Sends, SendStep(t) \/ DbError(t) \/ RedisError(t)
  PROVE  AcceptedInv'
<1> USE SendsAre DEF HoldsSuccess
<1>t. pc \in [Sends -> SendPcs] /\ out \in [Sends -> Outcomes] /\ row \in [Channels -> RowStatus]
  BY DEF TypeOK, SendTypeOK, RowTypeOK
<1>1. reached \subseteq reached'
  BY DEF SendStep, Pregate, Dedup, ClaimDelivery, TakeRow, Check, Gate, Send, SendFails, Accepted,
     ReadRecord, WriteRecord, MarkDelivered, DbError, RedisError, vendorVars
<1>2. ASSUME NEW u \in Sends, u # t PROVE pc'[u] = pc[u] /\ out'[u] = out[u]
  BY <1>2, <1>t DEF SendStep, Pregate, Dedup, ClaimDelivery, Claimed, Duplicate, TakeRow, Check, Gate, Send,
     SendFails, ReadRecord, WriteRecord, MarkDelivered, DbError, RedisError, Goto, Decide
<1>3. HoldsSuccess(t)' => HoldsSuccess(t) \/ row[t[2]] \in DeliveredOK \/ t[2] \in reached'
  <2>1. CASE Pregate(t) \/ Dedup(t) \/ Check(t) \/ Gate(t)
    BY <1>t, <2>1 DEF Pregate, Dedup, Check, Gate, Goto, Decide
  <2>2. CASE ClaimDelivery(t) \/ TakeRow(t)
    BY <1>t, <2>2 DEF ClaimDelivery, TakeRow, Claimed, Duplicate, Goto, Decide
  <2>3. CASE Send(t) \/ SendFails(t)
    BY <1>t, <2>3 DEF Send, SendFails, Accepted, Decide
  <2>4. CASE ReadRecord(t) \/ WriteRecord(t) \/ MarkDelivered(t)
    BY <1>t, <2>4 DEF ReadRecord, WriteRecord, MarkDelivered, AfterRecord, Goto
  <2>5. CASE DbError(t) \/ RedisError(t)
    BY <1>t, <2>5 DEF DbError, RedisError, Goto, Decide
  <2> QED BY <2>1, <2>2, <2>3, <2>4, <2>5 DEF SendStep
<1>4. ASSUME NEW c \in Channels, row'[c] \in DeliveredOK
      PROVE  row[c] \in DeliveredOK \/ (t[2] = c /\ HoldsSuccess(t))
  <2>1. CASE WriteRecord(t)
    BY <1>t, <1>4, <2>1 DEF WriteRecord, SetRow, RowFor, DeliveredOK
  <2>2. CASE ClaimDelivery(t) \/ TakeRow(t)
    BY <1>t, <1>4, <2>2 DEF ClaimDelivery, TakeRow, SetRow, DeliveredOK, rowVars
  <2>3. CASE ~(WriteRecord(t) \/ ClaimDelivery(t) \/ TakeRow(t))
    BY <1>4, <2>3 DEF SendStep, Pregate, Dedup, Check, Gate, Send, SendFails, ReadRecord, MarkDelivered,
       DbError, RedisError, rowVars
  <2> QED BY <2>1, <2>2, <2>3
<1>5. ASSUME NEW c \in Channels, c \in dedup' PROVE c \in dedup \/ (t[2] = c /\ HoldsSuccess(t))
  <2>1. CASE MarkDelivered(t)
    BY <1>5, <2>1 DEF MarkDelivered
  <2>2. CASE ~MarkDelivered(t)
    BY <1>5, <2>2 DEF SendStep, Pregate, Dedup, ClaimDelivery, TakeRow, Check, Gate, Send, SendFails,
       ReadRecord, WriteRecord, DbError, RedisError
  <2> QED BY <2>1, <2>2
<1>6. \A u \in Sends : HoldsSuccess(u)' => HoldsSuccess(u) \/ row[u[2]] \in DeliveredOK \/ u[2] \in reached'
  BY <1>2, <1>3
<1> QED BY <1>1, <1>4, <1>5, <1>6, AcceptedFrom

LEMMA RestAccepted ==
  ASSUME TypeOK, AcceptedInv, OutsideStep \/ \E h \in Handlers : QueueStep(h) \/ GatewayStep(h)
  PROVE  AcceptedInv'
<1>t. pc \in [Sends -> SendPcs] /\ out \in [Sends -> Outcomes] /\ row \in [Channels -> RowStatus]
  BY DEF TypeOK, SendTypeOK, RowTypeOK
<1>1. ASSUME NEW h \in Handlers, QueueStep(h)
      PROVE  UNCHANGED <<row, dedup, pc, out, reached>>
  BY <1>1 DEF QueueStep, Deliver, reclaimOnce, Take, Ack, onHandlerFailure, QueueError, Free, rowVars,
     sendVars, vendorVars
<1>2. ASSUME NEW h \in Handlers, GatewayStep(h)
      PROVE  /\ UNCHANGED <<row, dedup, reached>>
             /\ \A t \in Sends : HoldsSuccess(t)' => HoldsSuccess(t)
  <2>1. UNCHANGED <<row, dedup, reached>>
    BY <1>2 DEF GatewayStep, Handle, HandleDefers, Join, NextChannel, rowVars, vendorVars
  <2>2. CASE \E result : Returns(h, result)
    BY <1>t, <2>1, <2>2 DEF Returns, HoldsSuccess
  <2>3. CASE \E what, cs : Begin(h, what, cs, "claim") \/ Begin(h, what, cs, "dedup")
    BY <1>t, <2>1, <2>3 DEF Begin, HoldsSuccess
  <2>4. CASE \E c \in Channels :
               /\ UNCHANGED out
               /\ \/ pc' = [pc EXCEPT ![<<h, c + 1>>] = "pregate"]
                  \/ pc' = [pc EXCEPT ![<<h, c + 1>>] = "claim"]
    BY <1>t, <2>1, <2>4 DEF HoldsSuccess
  <2>5. ASSUME NEW c \in Channels, NextChannel(h, c)
        PROVE  \/ \E result : Returns(h, result)
               \/ /\ UNCHANGED out
                  /\ \/ pc' = [pc EXCEPT ![<<h, c + 1>>] = "pregate"]
                     \/ pc' = [pc EXCEPT ![<<h, c + 1>>] = "claim"]
    BY <2>5 DEF NextChannel
  <2>6. (\E result : Returns(h, result)) \/ (\E what, cs : Begin(h, what, cs, "claim") \/ Begin(h, what, cs, "dedup"))
          \/ \E c \in Channels : NextChannel(h, c)
    BY <1>2 DEF GatewayStep, Handle, HandleDefers, Join
  <2> QED BY <2>1, <2>2, <2>3, <2>4, <2>5, <2>6
<1>3. ASSUME OutsideStep
      PROVE  /\ reached' = reached /\ dedup' \subseteq dedup
             /\ \A c \in Channels : row'[c] \in DeliveredOK => row[c] \in DeliveredOK
             /\ \A t \in Sends : HoldsSuccess(t)' => HoldsSuccess(t)
  <2>1. CASE \E c \in Channels, status \in DeliveredOK \cup {"failed"} : Receipt(c, status)
    BY <1>t, <2>1 DEF Receipt, SetRow, sendVars, HoldsSuccess
  <2>2. CASE \E h \in Handlers : Crash(h)
    BY <1>t, <2>2 DEF Crash, rowVars, HoldsSuccess
  <2>3. CASE ApiStep \/ TimeStep \/ RedisLoss \/ (\E e \in Entries : Trim(e)) \/ UNCHANGED vars
    <3>1. UNCHANGED <<row, pc, out, reached>> /\ dedup' \subseteq dedup
      BY <2>3 DEF ApiStep, Pause, Resume, Cancel, TimeStep, CacheExpires, MessageExpires, EntryIdles,
         EntryAges, RowGetsStale, RedisLoss, Trim, vars, rowVars, sendVars, vendorVars
    <3> QED BY <3>1 DEF HoldsSuccess
  <2> QED BY <1>3, <2>1, <2>2, <2>3 DEF OutsideStep, VendorStep
<1>4. CASE \E h \in Handlers : QueueStep(h)
  BY <1>1, <1>4, AcceptedFrom DEF HoldsSuccess
<1> QED BY <1>2, <1>3, <1>4, AcceptedFrom

(* Crashes, duplicates, failing statements and lost keys never make a message *)
(* count as delivered that no vendor has accepted: a row says sent, and a     *)
(* dedup key keeps the other copies away, only after sender.Send succeeded.   *)
THEOREM Delivered == Spec => []DeliveredWasAccepted
<1>1. Init => AcceptedInv
  BY DEF Init, AcceptedInv, DeliveredWasAccepted, SuccessInHand, HoldsSuccess, DeliveredOK
<1>2. ASSUME TypeOK, AcceptedInv, [Next]_vars PROVE AcceptedInv'
  BY <1>2, StepIs, SendAccepted, RestAccepted
<1>3. AcceptedInv => DeliveredWasAccepted
  BY DEF AcceptedInv
<1> QED BY <1>1, <1>2, <1>3, DeliveryTyping, PTL DEF Spec

-----------------------------------------------------------------------------
(* A vendor call begins with a forced look at the campaign that finds it     *)
(* running; nothing else leads to one.                                       *)
LEMMA OnlyGateSends ==
  ASSUME TypeOK, [Next]_vars, mainStatus = "cancelled", NEW t \in Sends, pc[t] # "send"
  PROVE  pc'[t] # "send"
<1>t. pc \in [Sends -> SendPcs]
  BY DEF TypeOK, SendTypeOK
<1>1. ASSUME NEW h \in Handlers, QueueStep(h) PROVE UNCHANGED pc
  BY <1>1 DEF QueueStep, Deliver, reclaimOnce, Take, Ack, onHandlerFailure, QueueError, Free, sendVars
<1>2. ASSUME NEW h \in Handlers, GatewayStep(h) PROVE pc'[t] # "send"
  BY <1>t, <1>2 DEF GatewayStep, Handle, HandleDefers, Join, NextChannel, Begin, Returns
<1>3. ASSUME NEW u \in Sends, SendStep(u) \/ DbError(u) \/ RedisError(u)
      PROVE  pc'[t] # "send"
  <2>1. \/ UNCHANGED pc
        \/ \E l \in SendPcs \ {"send"} : pc' = [pc EXCEPT ![u] = l]
    BY <1>3 DEF SendStep, Pregate, Dedup, ClaimDelivery, Claimed, Duplicate, TakeRow, Check, Gate, Send,
       SendFails, ReadRecord, WriteRecord, MarkDelivered, AfterRecord, DbError, RedisError, Goto, Decide,
       SendPcs, Holding
  <2> QED BY <1>t, <2>1
<1>4. CASE OutsideStep
  <2>1. UNCHANGED pc \/ \E h \in Handlers : pc' = [u \in Sends |-> IF u[1] = h THEN "off" ELSE pc[u]]
    BY <1>4 DEF OutsideStep, ApiStep, Pause, Resume, Cancel, TimeStep, CacheExpires, MessageExpires,
       EntryIdles, EntryAges, RowGetsStale, VendorStep, Receipt, RedisLoss, Crash, Trim, vars, sendVars
  <2> QED BY <2>1
<1> QED BY <1>1, <1>2, <1>3, <1>4, StepIs

(* Once a campaign is cancelled no handler starts another vendor call,        *)
(* whatever it had read before and however many channels and retries it has   *)
(* left.                                                                      *)
THEOREM CancelStops == Spec => CancelStopsSends
<1>1. ASSUME TypeOK, [Next]_vars
      PROVE  [\A t \in Sends : mainStatus = "cancelled" /\ pc[t] # "send" => pc'[t] # "send"]_vars
  BY <1>1, OnlyGateSends
<1> QED BY <1>1, DeliveryTyping, PTL DEF Spec, CancelStopsSends

-----------------------------------------------------------------------------
(* One message, published once and never redelivered while a handler still   *)
(* works on it: then one handler at a time has it.                           *)
OneCopy == MaxSlow = 0 /\ \A copies \in CopySets : \E e \in Entries : copies = {e}

OneWorker ==
  /\ \E e \in Entries : \A f \in Entries : entry[f] # "absent" <=> f = e
  /\ \A h \in Handlers : stage[h] # "idle" => entry[work[h]] \in {"pending", "trimmed"} /\ ~idle[work[h]]
  /\ \A h, g \in Handlers : stage[h] # "idle" /\ stage[g] # "idle" => h = g

(* Many copies of it, of which none finds anything but a row that is being   *)
(* sent or was delivered.                                                    *)
Undisturbed == MaxSlow = 0 /\ Env \subseteq {"defer", "redisError", "redisLoss", "trim"}

Untaken ==
  /\ mainStatus = "running" /\ recent = {} /\ ~expired
  /\ \A h \in Handlers : goal[h] = "send"
  /\ \A c \in Channels : ~rowStale[c] /\ row[c] \in {"none", "sending", "sent"}
  /\ \A c \in Channels : row[c] = "sending" => \E h \in Handlers : pc[<<h, c>>] \in Holding
  /\ \A t \in Sends : pc[t] # "take" /\ (pc[t] \in {"record", "write"} => out[t] = "ok")
  /\ \A t, u \in Sends : t[2] = u[2] /\ pc[t] \in Holding /\ pc[u] \in Holding => t = u

(* A row has one holder, and who is about to take it over is not another.    *)
OneHolder ==
  \A t, u \in Sends : t[2] = u[2] /\ pc[t] \in Holding /\ pc[u] \in Holding \cup {"take"} => t = u

(* One channel after the other                                               *)
InOrder ==
  \A t \in Sends :
    /\ pc[t] = "pregate" => mode \in {"single", "fallback"}
    /\ Sequential(t[1]) /\ pc[t] # "off" =>
         \A c \in Channels : c < t[2] => pc[<<t[1], c>>] \in {"off", "done"}

(* An acceptance that is known is in the row, or about to be written there   *)
HasAnswer(t) == pc[t] \in {"record", "write"} /\ out[t] = "ok"

KnownInv ==
  /\ SentOnce
  /\ \A t \in Sends : pc[t] \in Holding => row[t[2]] = "sending"
  /\ \A c \in known : row[c] \in DeliveredOK \/ \E h \in Handlers : HasAnswer(<<h, c>>)

(* What a handler returns, and leaves                                        *)
Over == mainStatus = "cancelled" \/ expired

ChannelsResolved ==
  IF mode = "all_success" THEN \A c \in Channels : Resolved(c) ELSE \E c \in Channels : Resolved(c)

Answered(t) ==
  pc[t] \in {"record", "write", "mark", "done"} =>
    /\ out[t] # "none"
    /\ out[t] = "ok" => t[2] \in reached
    /\ out[t] = "nothing" => Over
    /\ pc[t] = "mark" => out[t] = "ok"
    /\ pc[t] = "done" /\ out[t] = "suppressed" => Resolved(t[2])

OverGoals ==
  /\ "cancelled" \notin recent
  /\ \A h \in Handlers : stage[h] = "run" /\ goal[h] # "send" => Over

Returned ==
  /\ \A h \in Handlers : stage[h] = "ok" => ChannelsResolved \/ Over
  /\ \A h \in Handlers : stage[h] = "bury" => work[h] \in dlq
  /\ \A e \in Entries : entry[e] = "acked" => ChannelsResolved \/ Over \/ e \in dlq

OutcomeInv == OverGoals /\ (\A t \in Sends : Answered(t)) /\ Returned

-----------------------------------------------------------------------------
(* What the steps leave alone                                                *)
LEMMA SendsOfHandler ==
  ASSUME NEW h \in Handlers, NEW c \in Channels
  PROVE  <<h, c>> \in Sends /\ <<h, c>>[1] = h /\ <<h, c>>[2] = c
BY DEF Sends

LEMMA SendIsPair == ASSUME NEW t \in Sends PROVE t = <<t[1], t[2]>>
BY DEF Sends

LEMMA QueueKeeps ==
  ASSUME NEW h \in Handlers, QueueStep(h)
  PROVE  UNCHANGED <<mainStatus, recent, expired, mode, row, rowStale, dedup, goal, pc, out, try,
                     reached, known, twice, unrecorded>>
BY DEF QueueStep, Deliver, reclaimOnce, Take, Ack, onHandlerFailure, QueueError, Free, mainVars, rowVars,
   sendVars, vendorVars

LEMMA GatewayKeeps ==
  ASSUME NEW h \in Handlers, GatewayStep(h)
  PROVE  UNCHANGED <<mainStatus, recent, expired, mode, entry, deliveries, idle, aged, dlq, row, rowStale,
                     dedup, reached, known, twice, unrecorded, work>>
<1>1. UNCHANGED work
  BY DEF GatewayStep, Handle, HandleDefers, Join, NextChannel, Returns, Begin, handlerVars
<1> QED BY <1>1 DEF GatewayStep, Handle, HandleDefers, Join, NextChannel, mainVars, streamVars, rowVars, vendorVars

LEMMA SendKeeps ==
  ASSUME TypeOK, NEW t \in Sends, SendStep(t) \/ DbError(t) \/ RedisError(t)
  PROVE  /\ UNCHANGED <<mainStatus, recent, expired, mode, entry, deliveries, idle, aged, dlq, stage, work>>
         /\ \A u \in Sends : u # t => pc'[u] = pc[u] /\ out'[u] = out[u]
         /\ pc[t] \notin {"off", "done"} /\ stage[t[1]] = "run"
         /\ pc'[t] \notin {"off", "pregate"}
         /\ ~Pregate(t) => UNCHANGED goal
         /\ reached \subseteq reached' /\ unrecorded \subseteq unrecorded'
<1>t. pc \in [Sends -> SendPcs] /\ out \in [Sends -> Outcomes]
  BY DEF TypeOK, SendTypeOK
<1>1. UNCHANGED <<mainStatus, recent, expired, mode, entry, deliveries, idle, aged, dlq>>
  BY DEF SendStep, Pregate, Dedup, ClaimDelivery, TakeRow, Check, Gate, Send, SendFails, ReadRecord, WriteRecord,
     MarkDelivered, DbError, RedisError, mainVars, streamVars
<1>2. UNCHANGED <<stage, work>> /\ (~Pregate(t) => UNCHANGED goal)
  BY DEF SendStep, Pregate, Dedup, ClaimDelivery, Claimed, Duplicate, TakeRow, Check, Gate, Send,
     SendFails, ReadRecord, WriteRecord, MarkDelivered, DbError, RedisError, Goto, Decide, handlerVars
<1>3. \A u \in Sends : u # t => pc'[u] = pc[u] /\ out'[u] = out[u]
  BY <1>t DEF SendStep, Pregate, Dedup, ClaimDelivery, Claimed, Duplicate, TakeRow, Check, Gate, Send,
     SendFails, ReadRecord, WriteRecord, MarkDelivered, DbError, RedisError, Goto, Decide
<1>4. pc[t] \notin {"off", "done"}
  BY DEF SendStep, Pregate, Dedup, ClaimDelivery, TakeRow, Check, Gate, Send, SendFails, ReadRecord, WriteRecord,
     MarkDelivered, DbError, RedisError
<1>5. pc'[t] \notin {"off", "pregate"}
  BY <1>t DEF SendStep, Pregate, Dedup, ClaimDelivery, Claimed, Duplicate, TakeRow, Check, Gate, Send, AfterRecord,
     SendFails, ReadRecord, WriteRecord, MarkDelivered, DbError, RedisError, Goto, Decide
<1>6. reached \subseteq reached' /\ unrecorded \subseteq unrecorded'
  BY DEF SendStep, Pregate, Dedup, ClaimDelivery, TakeRow, Check, Gate, Send, SendFails, Accepted,
     ReadRecord, WriteRecord, MarkDelivered, DbError, RedisError, vendorVars
<1>7. stage[t[1]] = "run"
  BY <1>4 DEF TypeOK, SendTypeOK
<1> QED BY <1>1, <1>2, <1>3, <1>4, <1>5, <1>6, <1>7

(* What happens around the handlers: receipts, crashes, and the rest, which  *)
(* touches neither rows nor handlers.                                        *)
Around == ApiStep \/ TimeStep \/ RedisLoss \/ (\E e \in Entries : Trim(e)) \/ UNCHANGED vars

LEMMA AroundKeeps ==
  ASSUME Around
  PROVE  /\ UNCHANGED <<mode, row, stage, work, goal, pc, out, reached, known, twice, unrecorded, dlq>>
         /\ dedup' \subseteq dedup
BY DEF Around, ApiStep, Pause, Resume, Cancel, TimeStep, CacheExpires, MessageExpires, EntryIdles,
       EntryAges, RowGetsStale, RedisLoss, Trim, vars, rowVars, sendVars, vendorVars, handlerVars, mainVars, streamVars

LEMMA OutsideIs ==
  ASSUME OutsideStep
  PROVE  \/ Around \/ (\E h \in Handlers : Crash(h))
         \/ \E c \in Channels, status \in DeliveredOK \cup {"failed"} : Receipt(c, status)
BY DEF OutsideStep, Around, VendorStep

(* What Handle does with the channels                                        *)
LEMMA GatewayIs ==
  ASSUME TypeOK, InOrder, NEW h \in Handlers, GatewayStep(h)
  PROVE  \/ /\ \A c \in Channels : pc[<<h, c>>] = "off"
            /\ \/ Begin(h, "cancel", {1}, "claim") /\ "cancelled" \in recent \cup {mainStatus}
               \/ Begin(h, "expire", {1}, "claim") /\ expired
               \/ \E cs : Begin(h, "send", cs, "dedup") /\ (mode \in {"single", "fallback"} => cs = {1})
         \/ /\ \A c \in Channels : pc[<<h, c>>] \in {"off", "done"}
            /\ \E result \in Stages : Returns(h, result)
         \/ \E c \in Channels, l \in {"pregate", "claim"} :
              /\ pc' = [pc EXCEPT ![<<h, c + 1>>] = l] /\ UNCHANGED <<stage, work, goal, out, try>>
              /\ Sequential(h) /\ (l = "pregate" => mode \in {"single", "fallback"})
              /\ \A d \in Channels : pc[<<h, d>>] # "off" => d <= c /\ pc[<<h, d>>] = "done"
<1>1. stage[h] = "snap" => \A c \in Channels : pc[<<h, c>>] = "off"
  BY SendsOfHandler DEF TypeOK, SendTypeOK
<1>2. CASE Handle(h)
  <2>0. \A c \in Channels : pc[<<h, c>>] = "off"
    BY <1>1, <1>2 DEF Handle
  <2>1. PICK status \in recent \cup {mainStatus} :
          \/ status = "cancelled" /\ Begin(h, "cancel", {1}, "claim")
          \/ status = "paused" /\ Returns(h, "defer")
          \/ status = "running" /\ expired /\ Begin(h, "expire", {1}, "claim")
          \/ /\ status = "running" /\ ~expired
             /\ Begin(h, "send", IF mode \in {"single", "fallback"} THEN {1} ELSE Channels, "dedup")
    BY <1>2 DEF Handle
  <2>2. CASE Returns(h, "defer")
    BY <2>0, <2>2 DEF Stages
  <2>4. CASE status = "cancelled" /\ Begin(h, "cancel", {1}, "claim")
    BY <2>0, <2>4
  <2>5. CASE status = "running" /\ expired /\ Begin(h, "expire", {1}, "claim")
    BY <2>0, <2>5
  <2>6. CASE Begin(h, "send", IF mode \in {"single", "fallback"} THEN {1} ELSE Channels, "dedup")
    <3> DEFINE cs == IF mode \in {"single", "fallback"} THEN {1} ELSE Channels
    <3>1. Begin(h, "send", cs, "dedup") /\ (mode \in {"single", "fallback"} => cs = {1})
      BY <2>6
    <3> HIDE DEF cs
    <3> QED BY <2>0, <3>1
  <2> QED BY <2>1, <2>2, <2>4, <2>5, <2>6
<1>3. CASE HandleDefers(h)
  BY <1>1, <1>3 DEF HandleDefers, Stages
<1>4. ASSUME NEW c \in Channels, NextChannel(h, c)
      PROVE  \A d \in Channels : pc[<<h, d>>] # "off" => d <= c /\ pc[<<h, d>>] = "done"
  <2> SUFFICES ASSUME NEW d \in Channels, pc[<<h, d>>] # "off" PROVE d <= c /\ pc[<<h, d>>] = "done"
    OBVIOUS
  <2>1. d <= c /\ Sequential(h) /\ pc[<<h, c>>] = "done"
    BY <1>4 DEF NextChannel, Tried
  <2>2. d < c => pc[<<h, d>>] \in {"off", "done"}
    BY <2>1, SendsOfHandler DEF InOrder
  <2>3. d < c \/ d = c
    BY <2>1 DEF Channels
  <2> QED BY <2>1, <2>2, <2>3
<1>5. ASSUME NEW c \in Channels, NextChannel(h, c), \A result : ~Returns(h, result)
      PROVE  \E l \in {"pregate", "claim"} :
               /\ pc' = [pc EXCEPT ![<<h, c + 1>>] = l] /\ UNCHANGED <<stage, work, goal, out, try>>
               /\ Sequential(h) /\ (l = "pregate" => mode \in {"single", "fallback"})
  BY <1>5 DEF NextChannel, handlerVars, Sequential
<1>6. ASSUME NEW c \in Channels, NextChannel(h, c), NEW result, Returns(h, result)
      PROVE  \E r \in Stages : Returns(h, r)
  <2>1. SequentialResults(h, c) \subseteq Stages
    BY DEF SequentialResults, Stages
  <2>2. CASE \E r \in SequentialResults(h, c) : Returns(h, r)
    BY <2>1, <2>2
  <2>3. CASE UNCHANGED handlerVars
    <3>1. stage' = [stage EXCEPT ![h] = result] /\ stage' = stage /\ stage \in [Handlers -> Stages]
      BY <1>6, <2>3 DEF handlerVars, Returns, TypeOK, HandlerTypeOK
    <3>2. result \in Stages
      BY <3>1
    <3> QED BY <1>6, <3>2
  <2> QED BY <1>6, <2>2, <2>3 DEF NextChannel
<1>7. CASE Join(h)
  <2>1. ASSUME NEW rs
        PROVE  classifyParallelOutcomes(rs) \subseteq Stages /\ classifyAllSuccessOutcomes(rs) \subseteq Stages
    BY DEF classifyParallelOutcomes, classifyAllSuccessOutcomes, Errors, Stages
  <2>2. (\E result \in Stages : Returns(h, result)) /\ \A c \in Channels : pc[<<h, c>>] = "done"
    BY <1>7, <2>1 DEF Join
  <2> QED BY <2>2
<1>8. CASE \E c \in Channels : NextChannel(h, c)
  <2>1. PICK c \in Channels : NextChannel(h, c)
    BY <1>8
  <2>2. CASE \E result : Returns(h, result)
    BY <1>4, <1>6, <2>1, <2>2
  <2>3. CASE \A result : ~Returns(h, result)
    BY <1>4, <1>5, <2>1, <2>3
  <2> QED BY <2>2, <2>3
<1> QED BY <1>2, <1>3, <1>7, <1>8 DEF GatewayStep

-----------------------------------------------------------------------------
(* The order of the channels                                                 *)
LEMMA InOrderInit == Init => InOrder
BY DEF Init, InOrder

LEMMA InOrderStep == TypeOK /\ InOrder /\ [Next]_vars => InOrder'
<1> SUFFICES ASSUME TypeOK, InOrder, [Next]_vars PROVE InOrder'
  OBVIOUS
<1>t. pc \in [Sends -> SendPcs] /\ goal \in [Handlers -> {"send", "cancel", "expire"}]
  BY DEF TypeOK, SendTypeOK, HandlerTypeOK
<1>1. ASSUME NEW h \in Handlers, QueueStep(h) PROVE InOrder'
  BY <1>1, QueueKeeps DEF InOrder, Sequential
<1>2. ASSUME NEW h \in Handlers, GatewayStep(h) PROVE InOrder'
  <2>0. mode' = mode
    BY <1>2, GatewayKeeps
  <2>1. ASSUME NEW what \in {"send", "cancel", "expire"}, NEW cs, NEW l \in {"claim", "dedup"},
               Begin(h, what, cs, l), mode \in {"single", "fallback"} \/ what # "send" => cs = {1},
               \A c \in Channels : pc[<<h, c>>] = "off"
        PROVE  InOrder'
    <3>1. /\ pc' = [t \in Sends |-> IF t[1] = h /\ t[2] \in cs THEN l ELSE pc[t]]
          /\ goal' = [goal EXCEPT ![h] = what]
      BY <2>1 DEF Begin
    <3> SUFFICES ASSUME NEW t \in Sends
                 PROVE  /\ pc'[t] = "pregate" => mode' \in {"single", "fallback"}
                        /\ Sequential(t[1])' /\ pc'[t] # "off" =>
                             \A c \in Channels : c < t[2] => pc'[<<t[1], c>>] \in {"off", "done"}
      BY DEF InOrder
    <3>2. CASE t[1] = h
      <4>1. pc[t] = "off"
        BY <2>1, <3>2, SendsAre, SendIsPair
      <4>2. pc'[t] = IF t[2] \in cs THEN l ELSE "off"
        BY <3>1, <3>2, <4>1
      <4>3. ASSUME Sequential(h)', pc'[t] # "off", NEW c \in Channels, c < t[2]
            PROVE  pc'[<<h, c>>] = "off"
        <5>1. goal'[h] = what
          BY <1>t, <3>1
        <5>2. cs = {1} /\ t[2] = 1
          BY <2>0, <2>1, <4>2, <4>3, <5>1 DEF Sequential
        <5>3. c \in Nat /\ c >= 1
          BY DEF Channels
        <5> QED BY <4>3, <5>2, <5>3
      <4> QED BY <3>2, <4>2, <4>3
    <3>3. CASE t[1] # h
      <4>1. pc'[t] = pc[t] /\ goal'[t[1]] = goal[t[1]] /\ t[1] \in Handlers
        BY <1>t, <3>1, <3>3, SendsAre
      <4>2. \A c \in Channels : pc'[<<t[1], c>>] = pc[<<t[1], c>>]
        BY <3>1, <3>3, <4>1, SendsOfHandler
      <4> QED BY <2>0, <4>1, <4>2 DEF InOrder, Sequential
    <3> QED BY <3>2, <3>3
  <2>2. ASSUME NEW result \in Stages, Returns(h, result) PROVE InOrder'
    <3>1. /\ pc' = [t \in Sends |-> IF t[1] = h THEN "off" ELSE pc[t]]
          /\ goal' = [goal EXCEPT ![h] = "send"]
      BY <2>2 DEF Returns
    <3>2. ASSUME NEW t \in Sends, t[1] # h
          PROVE  /\ pc'[t] = pc[t] /\ goal'[t[1]] = goal[t[1]]
                 /\ \A c \in Channels : pc'[<<t[1], c>>] = pc[<<t[1], c>>]
      BY <1>t, <3>1, <3>2, SendsAre, SendsOfHandler
    <3>3. \A t \in Sends : t[1] = h => pc'[t] = "off"
      BY <3>1
    <3> QED BY <2>0, <3>2, <3>3 DEF InOrder, Sequential
  <2>3. ASSUME NEW c \in Channels, NEW l \in {"pregate", "claim"},
               pc' = [pc EXCEPT ![<<h, c + 1>>] = l], UNCHANGED goal,
               l = "pregate" => mode \in {"single", "fallback"},
               \A d \in Channels : pc[<<h, d>>] # "off" => d <= c /\ pc[<<h, d>>] = "done"
        PROVE  InOrder'
    <3> SUFFICES ASSUME NEW t \in Sends
                 PROVE  /\ pc'[t] = "pregate" => mode' \in {"single", "fallback"}
                        /\ Sequential(t[1])' /\ pc'[t] # "off" =>
                             \A d \in Channels : d < t[2] => pc'[<<t[1], d>>] \in {"off", "done"}
      BY DEF InOrder
    <3>1. CASE t[1] = h
      <4>1. ASSUME pc'[t] # "off", NEW d \in Channels, d < t[2] PROVE pc'[<<h, d>>] \in {"off", "done"}
        <5>1. t[2] <= c + 1 /\ d \in Nat /\ t[2] \in Nat /\ c \in Nat
          <6>1. t[2] \in Nat /\ d \in Nat /\ c \in Nat
            BY SendsAre DEF Channels
          <6>2. t = <<h, c + 1>> \/ pc[t] # "off"
            BY <1>t, <2>3, <4>1
          <6>3. t = <<h, c + 1>> => t[2] = c + 1
            OBVIOUS
          <6>4. pc[t] # "off" => t[2] <= c
            BY <2>3, <3>1, SendsAre, SendIsPair
          <6> QED BY <6>1, <6>2, <6>3, <6>4
        <5>2. d # c + 1
          BY <4>1, <5>1
        <5>3. pc'[<<h, d>>] = pc[<<h, d>>]
          BY <1>t, <2>3, <5>2, SendsOfHandler
        <5> QED BY <2>3, <5>3
      <4>2. pc'[t] = "pregate" => mode' \in {"single", "fallback"}
        BY <1>t, <2>0, <2>3 DEF InOrder
      <4> QED BY <3>1, <4>1, <4>2
    <3>2. CASE t[1] # h
      <4>1. pc'[t] = pc[t] /\ t[1] \in Handlers
        BY <1>t, <2>3, <3>2, SendsAre
      <4>2. \A d \in Channels : pc'[<<t[1], d>>] = pc[<<t[1], d>>]
        BY <1>t, <2>3, <3>2, <4>1, SendsOfHandler
      <4> QED BY <2>0, <2>3, <4>1, <4>2 DEF InOrder, Sequential
    <3> QED BY <3>1, <3>2
  <2> QED BY <1>2, <2>1, <2>2, <2>3, GatewayIs
<1>3. ASSUME NEW t \in Sends, SendStep(t) \/ DbError(t) \/ RedisError(t) PROVE InOrder'
  <2>1. /\ mode' = mode /\ pc[t] \notin {"off", "done"} /\ pc'[t] \notin {"off", "pregate"}
        /\ \A u \in Sends : u # t => pc'[u] = pc[u]
    BY <1>3, SendKeeps
  <2>2. \A h \in Handlers : Sequential(h)' => Sequential(h) \/ (Pregate(t) /\ h = t[1])
    BY <1>t, <1>3, <2>1, SendKeeps DEF Sequential, Pregate, Decide, Goto, handlerVars
  <2>3. Pregate(t) => Sequential(t[1])
    BY DEF Pregate, InOrder, Sequential
  <2> SUFFICES ASSUME NEW u \in Sends
               PROVE  /\ pc'[u] = "pregate" => mode' \in {"single", "fallback"}
                      /\ Sequential(u[1])' /\ pc'[u] # "off" =>
                           \A d \in Channels : d < u[2] => pc'[<<u[1], d>>] \in {"off", "done"}
    BY DEF InOrder
  <2>4. pc'[u] = "pregate" => mode' \in {"single", "fallback"}
    BY <2>1 DEF InOrder
  <2>5. ASSUME Sequential(u[1])', pc'[u] # "off", NEW d \in Channels, d < u[2]
        PROVE  pc'[<<u[1], d>>] \in {"off", "done"}
    <3>1. Sequential(u[1]) /\ pc[u] # "off"
      BY <2>1, <2>2, <2>3, <2>5, SendsAre
    <3>2. pc[<<u[1], d>>] \in {"off", "done"}
      BY <2>5, <3>1 DEF InOrder
    <3> QED BY <2>1, <3>2, SendsOfHandler, SendsAre
  <2> QED BY <2>4, <2>5
<1>4. CASE OutsideStep
  <2>1. CASE Around
    BY <2>1, AroundKeeps DEF InOrder, Sequential
  <2>2. CASE \E c \in Channels, status \in DeliveredOK \cup {"failed"} : Receipt(c, status)
    BY <2>2 DEF Receipt, mainVars, sendVars, handlerVars, InOrder, Sequential
  <2>3. ASSUME NEW h \in Handlers, Crash(h) PROVE InOrder'
    <3>1. /\ pc' = [t \in Sends |-> IF t[1] = h THEN "off" ELSE pc[t]]
          /\ goal' = [goal EXCEPT ![h] = "send"] /\ mode' = mode
      BY <2>3 DEF Crash, mainVars
    <3>2. ASSUME NEW t \in Sends, t[1] # h
          PROVE  /\ pc'[t] = pc[t] /\ goal'[t[1]] = goal[t[1]]
                 /\ \A c \in Channels : pc'[<<t[1], c>>] = pc[<<t[1], c>>]
      BY <1>t, <3>1, <3>2, SendsAre, SendsOfHandler
    <3>3. \A t \in Sends : t[1] = h => pc'[t] = "off"
      BY <3>1
    <3> QED BY <3>1, <3>2, <3>3 DEF InOrder, Sequential
  <2> QED BY <1>4, <2>1, <2>2, <2>3, OutsideIs
<1> QED BY <1>1, <1>2, <1>3, <1>4, StepIs

-----------------------------------------------------------------------------
(* An acceptance that is known                                               *)
LEMMA KnownInit == Init => KnownInv
BY DEF Init, KnownInv, SentOnce, Holding

LEMMA KnownFrame ==
  ASSUME TypeOK, KnownInv, UNCHANGED <<row, known, twice>>,
         \A t \in Sends : pc'[t] \in Holding => pc[t] \in Holding,
         \A t \in Sends : HasAnswer(t) => HasAnswer(t)'
  PROVE  KnownInv'
<1>1. SentOnce' /\ \A t \in Sends : pc'[t] \in Holding => row'[t[2]] = "sending"
  BY DEF KnownInv, SentOnce
<1>2. ASSUME NEW c \in known' PROVE row'[c] \in DeliveredOK \/ \E h \in Handlers : HasAnswer(<<h, c>>)'
  <2>1. c \in known /\ c \in Channels
    BY DEF TypeOK, OtherTypeOK
  <2>2. row[c] \in DeliveredOK \/ \E h \in Handlers : HasAnswer(<<h, c>>)
    BY <2>1 DEF KnownInv
  <2> QED BY <2>1, <2>2, SendsOfHandler
<1> QED BY <1>1, <1>2 DEF KnownInv

(* Who may send to the vendor, or may overwrite the row, does not find it    *)
(* known.                                                                    *)
LEMMA HolderKnows ==
  ASSUME TypeOK, KnownInv, OneHolder, NEW t \in Sends, t[2] \in known, row[t[2]] \notin DeliveredOK,
         pc[t] \in Holding \cup {"take"}
  PROVE  HasAnswer(t)
<1>1. PICK h \in Handlers : HasAnswer(<<h, t[2]>>)
  BY DEF KnownInv
<1>2. <<h, t[2]>> \in Sends /\ <<h, t[2]>>[2] = t[2] /\ pc[<<h, t[2]>>] \in Holding
  BY <1>1, SendsOfHandler, SendsAre DEF HasAnswer, Holding
<1>3. <<h, t[2]>> = t
  BY <1>2 DEF OneHolder
<1> QED BY <1>1, <1>3

LEMMA KnownSendStep ==
  ASSUME TypeOK, KnownInv, OneHolder, NEW t \in Sends, SendStep(t) \/ DbError(t) \/ RedisError(t)
  PROVE  KnownInv'
<1>t. pc \in [Sends -> SendPcs] /\ out \in [Sends -> Outcomes] /\ row \in [Channels -> RowStatus]
      /\ t[2] \in Channels /\ known \subseteq Channels
  BY SendsAre DEF TypeOK, SendTypeOK, RowTypeOK, OtherTypeOK
<1>u. \A u \in Sends : u # t => pc'[u] = pc[u] /\ out'[u] = out[u]
  BY SendKeeps
<1>h. \A u \in Sends : u # t => (HasAnswer(u)' <=> HasAnswer(u))
  BY <1>u DEF HasAnswer
<1>k. ASSUME NEW c \in known, row[c] \notin DeliveredOK
      PROVE  \E h \in Handlers : HasAnswer(<<h, c>>)
  BY <1>k DEF KnownInv
<1>1. CASE Pregate(t) \/ Dedup(t) \/ Check(t) \/ Gate(t) \/ MarkDelivered(t) \/ RedisError(t)
  <2>1. UNCHANGED <<row, known, twice>>
    BY <1>1 DEF Pregate, Dedup, Check, Gate, MarkDelivered, RedisError, rowVars, vendorVars
  <2>2. (pc'[t] \in Holding => pc[t] \in Holding) /\ ~HasAnswer(t)
    BY <1>t, <1>1 DEF Pregate, Dedup, Check, Gate, MarkDelivered, RedisError, Goto, Decide, Holding, HasAnswer
  <2> QED BY <1>u, <1>h, <2>1, <2>2, KnownFrame
<1>2. CASE ClaimDelivery(t) \/ TakeRow(t)
  <2>1. UNCHANGED <<known, twice>> /\ ~HasAnswer(t) /\ pc[t] \in {"claim", "take"}
    BY <1>2 DEF ClaimDelivery, TakeRow, vendorVars, HasAnswer
  <2>2. CASE UNCHANGED rowVars /\ pc'[t] \notin Holding
    BY <1>u, <1>h, <2>1, <2>2, KnownFrame DEF rowVars
  <2>3. CASE SetRow(t[2], "sending") /\ row[t[2]] \notin DeliveredOK
             /\ (row[t[2]] = "none" \/ TakeRow(t))
    <3>1. row' = [row EXCEPT ![t[2]] = "sending"]
      BY <2>3 DEF SetRow
    <3>2. t[2] \notin known
      <4>1. CASE TakeRow(t)
        BY <2>1, <2>3, <4>1, HolderKnows DEF TakeRow
      <4>2. CASE row[t[2]] = "none"
        <5>1. row[t[2]] # "sending"
          BY <4>2
        <5>2. ASSUME t[2] \in known PROVE FALSE
          <6>1. PICK h \in Handlers : HasAnswer(<<h, t[2]>>)
            BY <1>k, <2>3, <5>2
          <6>2. <<h, t[2]>> \in Sends /\ <<h, t[2]>>[2] = t[2] /\ pc[<<h, t[2]>>] \in Holding
            BY <1>t, <6>1, SendsOfHandler DEF HasAnswer, Holding
          <6> QED BY <5>1, <6>2 DEF KnownInv
        <5> QED BY <5>2
      <4> QED BY <2>3, <4>1, <4>2
    <3>3. \A u \in Sends : pc'[u] \in Holding => row'[u[2]] = "sending"
      <4>1. \A u \in Sends : u # t /\ pc[u] \in Holding => row[u[2]] = "sending"
        BY DEF KnownInv
      <4> QED BY <1>t, <1>u, <3>1, <4>1, SendsAre
    <3>4. ASSUME NEW c \in known' PROVE row'[c] \in DeliveredOK \/ \E h \in Handlers : HasAnswer(<<h, c>>)'
      <4>1. c \in known /\ c \in Channels /\ c # t[2] /\ row'[c] = row[c]
        BY <1>t, <2>1, <3>1, <3>2
      <4>2. \A h \in Handlers : <<h, c>> \in Sends /\ <<h, c>> # t
        BY <4>1, SendsOfHandler
      <4> QED BY <1>h, <1>k, <4>1, <4>2
    <3> QED BY <2>1, <3>3, <3>4 DEF KnownInv, SentOnce
  <2>4. \/ UNCHANGED rowVars /\ pc'[t] \notin Holding
        \/ SetRow(t[2], "sending") /\ row[t[2]] \notin DeliveredOK
             /\ (row[t[2]] = "none" \/ TakeRow(t))
    <3>1. CASE ClaimDelivery(t)
      BY <1>t, <3>1 DEF ClaimDelivery, Duplicate, Goto, Decide, Holding, DeliveredOK
    <3>2. CASE TakeRow(t)
      BY <1>t, <3>2 DEF TakeRow, Duplicate, Decide, Holding
    <3> QED BY <1>2, <3>1, <3>2
  <2> QED BY <2>2, <2>3, <2>4
<1>3. CASE Send(t) \/ SendFails(t)
  <2>1. row' = row /\ pc[t] = "send" /\ row[t[2]] = "sending" /\ row[t[2]] \notin DeliveredOK
    BY <1>3 DEF Send, SendFails, rowVars, KnownInv, Holding, DeliveredOK
  <2>2. t[2] \notin known
    BY <2>1, HolderKnows DEF HasAnswer, Holding
  <2>3. twice' = twice
    BY <1>3, <2>2 DEF Send, SendFails, Accepted, vendorVars
  <2>4. pc'[t] \in Holding /\ ~HasAnswer(t)
    BY <1>t, <1>3, <2>1 DEF Send, SendFails, Decide, Holding, HasAnswer
  <2>5. known' = known \/ (known' = known \cup {t[2]} /\ HasAnswer(t)')
    BY <1>t, <1>3 DEF Send, SendFails, vendorVars, Decide, HasAnswer
  <2>6. \A u \in Sends : pc'[u] \in Holding => row'[u[2]] = "sending"
    BY <1>u, <2>1, <2>4 DEF KnownInv
  <2>7. ASSUME NEW c \in known' PROVE row'[c] \in DeliveredOK \/ \E h \in Handlers : HasAnswer(<<h, c>>)'
    <3>1. CASE c \in known
      <4>1. c \in Channels
        BY <1>t, <3>1
      <4> QED BY <1>h, <1>k, <2>1, <2>4, <3>1, <4>1, SendsOfHandler
    <3>2. CASE c \notin known
      <4>1. c = t[2] /\ HasAnswer(t)' /\ t[1] \in Handlers /\ t = <<t[1], c>>
        BY <2>5, <2>7, <3>2, SendsAre, SendIsPair
      <4>2. HasAnswer(<<t[1], c>>)'
        BY <4>1
      <4> QED BY <4>1, <4>2
    <3> QED BY <3>1, <3>2
  <2> QED BY <2>3, <2>6, <2>7 DEF KnownInv, SentOnce
<1>4. CASE ReadRecord(t)
  <2>1. UNCHANGED <<row, known, twice, out>> /\ pc[t] = "record" /\ row[t[2]] = "sending"
    BY <1>4 DEF ReadRecord, Goto, rowVars, vendorVars, KnownInv, Holding
  <2>2. out[t] = "ok" => CanTransitTo(row[t[2]], RowFor(out[t]))
    BY <2>1 DEF CanTransitTo, RowFor
  <2>3. HasAnswer(t) => HasAnswer(t)'
    BY <1>t, <1>4, <2>1, <2>2 DEF ReadRecord, Goto, HasAnswer
  <2>4. pc[t] \in Holding
    BY <2>1 DEF Holding
  <2> QED BY <1>u, <1>h, <2>1, <2>3, <2>4, KnownFrame
<1>5. CASE WriteRecord(t)
  <2>1. /\ row' = [row EXCEPT ![t[2]] = RowFor(out[t])] /\ UNCHANGED <<known, twice>>
        /\ pc[t] = "write" /\ row[t[2]] = "sending" /\ row[t[2]] \notin DeliveredOK
    BY <1>5 DEF WriteRecord, SetRow, vendorVars, KnownInv, Holding, DeliveredOK
  <2>2. t[2] \in known => row'[t[2]] \in DeliveredOK
    BY <1>t, <2>1, HolderKnows DEF HasAnswer, Holding, RowFor, DeliveredOK
  <2>3. pc'[t] \notin Holding
    BY <1>t, <1>5 DEF WriteRecord, Goto, AfterRecord, Holding
  <2>4. ASSUME NEW u \in Sends, pc'[u] \in Holding PROVE row'[u[2]] = "sending"
    <3>1. u # t /\ pc[u] \in Holding
      BY <1>u, <2>3, <2>4
    <3>2. u[2] # t[2]
      BY <2>1, <3>1 DEF OneHolder, Holding
    <3> QED BY <1>t, <2>1, <3>1, <3>2, SendsAre DEF KnownInv
  <2>5. ASSUME NEW c \in known' PROVE row'[c] \in DeliveredOK \/ \E h \in Handlers : HasAnswer(<<h, c>>)'
    <3>1. CASE c = t[2]
      BY <2>1, <2>2, <2>5, <3>1
    <3>2. CASE c # t[2]
      <4>1. c \in known /\ c \in Channels /\ row'[c] = row[c]
        BY <1>t, <2>1, <2>5, <3>2
      <4>2. \A h \in Handlers : <<h, c>> \in Sends /\ <<h, c>> # t
        BY <3>2, <4>1, SendsOfHandler
      <4> QED BY <1>h, <1>k, <4>1, <4>2
    <3> QED BY <3>1, <3>2
  <2> QED BY <2>1, <2>4, <2>5 DEF KnownInv, SentOnce
<1>6. CASE DbError(t)
  <2>1. UNCHANGED <<row, twice>> /\ (pc'[t] \in Holding => pc[t] \in Holding)
    BY <1>t, <1>6 DEF DbError, rowVars, Decide, Holding
  <2>2. known' = IF HasAnswer(t) THEN known \ {t[2]} ELSE known
    BY <1>6 DEF DbError, HasAnswer
  <2>3. ASSUME NEW c \in known' PROVE row'[c] \in DeliveredOK \/ \E h \in Handlers : HasAnswer(<<h, c>>)'
    <3>1. c \in known /\ c \in Channels /\ row'[c] = row[c] /\ (HasAnswer(t) => c # t[2])
      BY <1>t, <2>1, <2>2, <2>3
    <3>2. \A h \in Handlers : <<h, c>> \in Sends /\ <<h, c>>[2] = c
      BY <3>1, SendsOfHandler
    <3> QED BY <1>h, <1>k, <3>1, <3>2
  <2>4. \A u \in Sends : pc'[u] \in Holding => row'[u[2]] = "sending"
    BY <1>u, <2>1 DEF KnownInv
  <2> QED BY <2>1, <2>3, <2>4 DEF KnownInv, SentOnce
<1> QED BY <1>1, <1>2, <1>3, <1>4, <1>5, <1>6 DEF SendStep

LEMMA KnownStep ==
  ASSUME TypeOK, KnownInv, OneHolder, InOrder, [Next]_vars
  PROVE  KnownInv'
<1>t. pc \in [Sends -> SendPcs] /\ row \in [Channels -> RowStatus] /\ known \subseteq Channels
  BY DEF TypeOK, SendTypeOK, RowTypeOK, OtherTypeOK
<1>1. ASSUME NEW h \in Handlers, QueueStep(h) PROVE KnownInv'
  BY <1>1, QueueKeeps, KnownFrame DEF HasAnswer
<1>2. ASSUME NEW h \in Handlers, GatewayStep(h) PROVE KnownInv'
  <2>0. UNCHANGED <<row, known, twice>>
    BY <1>2, GatewayKeeps
  <2>1. ASSUME NEW what, NEW cs, NEW l \in {"claim", "dedup"}, Begin(h, what, cs, l),
               \A c \in Channels : pc[<<h, c>>] = "off"
        PROVE  KnownInv'
    <3>1. /\ out' = out
          /\ \A t \in Sends : t[1] # h => pc'[t] = pc[t]
          /\ \A t \in Sends : t[1] = h => pc[t] = "off" /\ pc'[t] \in {"off", "claim", "dedup"}
      BY <2>1, SendsAre, SendIsPair DEF Begin
    <3>2. \A t \in Sends : pc'[t] \in Holding => pc[t] \in Holding
      BY <3>1 DEF Holding
    <3>3. \A t \in Sends : HasAnswer(t) => HasAnswer(t)'
      BY <3>1 DEF HasAnswer
    <3> QED BY <2>0, <3>2, <3>3, KnownFrame
  <2>2. ASSUME NEW result \in Stages, Returns(h, result), \A c \in Channels : pc[<<h, c>>] \in {"off", "done"}
        PROVE  KnownInv'
    <3>1. /\ \A t \in Sends : t[1] # h => pc'[t] = pc[t] /\ out'[t] = out[t]
          /\ \A t \in Sends : t[1] = h => pc[t] \in {"off", "done"} /\ pc'[t] = "off"
      BY <2>2, SendsAre, SendIsPair DEF Returns
    <3>2. \A t \in Sends : pc'[t] \in Holding => pc[t] \in Holding
      BY <3>1 DEF Holding
    <3>3. \A t \in Sends : HasAnswer(t) => HasAnswer(t)'
      BY <3>1 DEF HasAnswer
    <3> QED BY <2>0, <3>2, <3>3, KnownFrame
  <2>3. ASSUME NEW c \in Channels, NEW l \in {"pregate", "claim"},
               pc' = [pc EXCEPT ![<<h, c + 1>>] = l], UNCHANGED out,
               \A d \in Channels : pc[<<h, d>>] # "off" => d <= c /\ pc[<<h, d>>] = "done"
        PROVE  KnownInv'
    <3>1. \A t \in Sends : t # <<h, c + 1>> => pc'[t] = pc[t]
      BY <1>t, <2>3
    <3>2. <<h, c + 1>> \in Sends => pc[<<h, c + 1>>] \in {"off", "done"} /\ pc'[<<h, c + 1>>] = l
      <4>1. <<h, c + 1>> \in Sends => c + 1 \in Channels
        BY DEF Sends
      <4> QED BY <1>t, <2>3, <4>1
    <3>3. \A t \in Sends : pc'[t] \in Holding => pc[t] \in Holding
      BY <3>1, <3>2 DEF Holding
    <3>4. \A t \in Sends : HasAnswer(t) => HasAnswer(t)'
      BY <2>3, <3>1, <3>2 DEF HasAnswer
    <3> QED BY <2>0, <3>3, <3>4, KnownFrame
  <2> QED BY <1>2, <2>1, <2>2, <2>3, GatewayIs
<1>3. CASE OutsideStep
  <2>1. CASE Around
    BY <2>1, AroundKeeps, KnownFrame DEF HasAnswer
  <2>2. ASSUME NEW c \in Channels, NEW status \in DeliveredOK \cup {"failed"}, Receipt(c, status) PROVE KnownInv'
    <3>1. /\ UNCHANGED <<pc, out, twice>> /\ row[c] \in DeliveredOK /\ row' = [row EXCEPT ![c] = status]
          /\ known' = IF status = "failed" THEN known \ {c} ELSE known
      BY <2>2 DEF Receipt, sendVars, SetRow
    <3>2. \A t \in Sends : pc'[t] \in Holding => row'[t[2]] = "sending"
      <4>1. \A t \in Sends : pc[t] \in Holding => row[t[2]] = "sending" /\ t[2] # c
        BY <3>1 DEF KnownInv, DeliveredOK
      <4> QED BY <1>t, <3>1, <4>1, SendsAre
    <3>3. ASSUME NEW d \in known' PROVE row'[d] \in DeliveredOK \/ \E h \in Handlers : HasAnswer(<<h, d>>)'
      <4>1. d \in known /\ d \in Channels /\ (d = c => status \in DeliveredOK)
        BY <1>t, <3>1, <3>3
      <4>2. CASE d = c
        BY <1>t, <3>1, <4>1, <4>2
      <4>3. CASE d # c
        <5>1. row[d] \in DeliveredOK \/ \E h \in Handlers : HasAnswer(<<h, d>>)
          BY <4>1 DEF KnownInv
        <5> QED BY <1>t, <3>1, <4>1, <4>3, <5>1 DEF HasAnswer
      <4> QED BY <4>2, <4>3
    <3> QED BY <3>1, <3>2, <3>3 DEF KnownInv, SentOnce
  <2>3. ASSUME NEW h \in Handlers, Crash(h) PROVE KnownInv'
    <3>1. /\ UNCHANGED <<row, twice>>
          /\ \A t \in Sends : t[1] # h => pc'[t] = pc[t] /\ out'[t] = out[t]
          /\ \A t \in Sends : t[1] = h => pc'[t] = "off"
          /\ known' = known \ {c \in Channels : pc[<<h, c>>] \in {"record", "write"} /\ out[<<h, c>>] = "ok"}
      BY <2>3 DEF Crash, rowVars
    <3>2. \A t \in Sends : pc'[t] \in Holding => row'[t[2]] = "sending"
      BY <3>1 DEF KnownInv, Holding
    <3>3. ASSUME NEW c \in known' PROVE row'[c] \in DeliveredOK \/ \E g \in Handlers : HasAnswer(<<g, c>>)'
      <4>1. c \in known /\ c \in Channels /\ ~HasAnswer(<<h, c>>)
        BY <1>t, <3>1, <3>3 DEF HasAnswer
      <4>2. row[c] \in DeliveredOK \/ \E g \in Handlers : HasAnswer(<<g, c>>)
        BY <4>1 DEF KnownInv
      <4>3. ASSUME NEW g \in Handlers, HasAnswer(<<g, c>>) PROVE HasAnswer(<<g, c>>)'
        <5>1. g # h
          BY <4>1, <4>3
        <5> QED BY <3>1, <4>1, <4>3, <5>1, SendsOfHandler DEF HasAnswer
      <4> QED BY <3>1, <4>2, <4>3
    <3> QED BY <3>1, <3>2, <3>3 DEF KnownInv, SentOnce
  <2> QED BY <1>3, <2>1, <2>2, <2>3, OutsideIs
<1> QED BY <1>1, <1>2, <1>3, KnownSendStep, StepIs

-----------------------------------------------------------------------------
(* One copy of the message                                                   *)
LEMMA OneWorkerHolds == ASSUME TypeOK, OneWorker PROVE OneHolder
<1> SUFFICES ASSUME NEW t \in Sends, NEW u \in Sends, t[2] = u[2], pc[t] \in Holding, pc[u] \in Holding \cup {"take"}
             PROVE  t = u
  BY DEF OneHolder
<1>1. stage[t[1]] = "run" /\ stage[u[1]] = "run"
  BY DEF TypeOK, SendTypeOK, Holding
<1>2. t[1] = u[1]
  BY <1>1, SendsAre DEF OneWorker
<1> QED BY <1>2, SendIsPair

LEMMA OneWorkerInit == ASSUME OneCopy, Init PROVE OneWorker
<1>1. PICK copies \in CopySets : entry = [e \in Entries |-> IF e \in copies THEN "new" ELSE "absent"]
  BY DEF Init
<1>2. PICK e \in Entries : copies = {e}
  BY <1>1 DEF OneCopy
<1>3. \A f \in Entries : entry[f] # "absent" <=> f = e
  BY <1>1, <1>2
<1> QED BY <1>3 DEF Init, OneWorker

LEMMA OneWorkerStep == ASSUME OneCopy, TypeOK, OneWorker, [Next]_vars PROVE OneWorker'
<1>t. /\ stage \in [Handlers -> Stages] /\ work \in [Handlers -> Entries \cup {NoEntry}]
      /\ entry \in [Entries -> {"absent", "new", "pending", "acked", "trimmed"}]
      /\ idle \in [Entries -> BOOLEAN] /\ \A h \in Handlers : stage[h] # "idle" => work[h] \in Entries
  BY DEF TypeOK, HandlerTypeOK, StreamTypeOK
<1>p. PICK e0 \in Entries : \A f \in Entries : entry[f] # "absent" <=> f = e0
  BY DEF OneWorker
<1>w. \A h \in Handlers : stage[h] # "idle" =>
        work[h] = e0 /\ entry[e0] \in {"pending", "trimmed"} /\ ~idle[e0]
  BY <1>t, <1>p DEF OneWorker
<1>f. ASSUME \A f \in Entries : entry'[f] # "absent" <=> entry[f] # "absent",
             \A h \in Handlers : stage'[h] # "idle" =>
               stage[h] # "idle" /\ work'[h] = work[h] /\ entry'[e0] \in {"pending", "trimmed"} /\ ~idle'[e0]
      PROVE  OneWorker'
  <2>1. \A f \in Entries : entry'[f] # "absent" <=> f = e0
    BY <1>p, <1>f
  <2>2. \A h \in Handlers : stage'[h] # "idle" => entry'[work'[h]] \in {"pending", "trimmed"} /\ ~idle'[work'[h]]
    BY <1>w, <1>f
  <2>3. \A h, g \in Handlers : stage'[h] # "idle" /\ stage'[g] # "idle" => h = g
    BY <1>f DEF OneWorker
  <2> QED BY <2>1, <2>2, <2>3 DEF OneWorker
<1>1. ASSUME NEW h \in Handlers, NEW e \in Entries, Deliver(h, e) \/ reclaimOnce(h, e) PROVE OneWorker'
  <2>1. /\ e = e0 /\ entry' = [entry EXCEPT ![e] = "pending"] /\ idle' = [idle EXCEPT ![e] = FALSE]
        /\ stage' = [stage EXCEPT ![h] = "snap"] /\ work' = [work EXCEPT ![h] = e]
    BY <1>1, <1>p DEF Deliver, reclaimOnce, Take
  <2>2. \A g \in Handlers : stage[g] = "idle"
    BY <1>1, <1>w, <2>1 DEF Deliver, reclaimOnce
  <2>3. \A g \in Handlers : stage'[g] # "idle" => g = h
    BY <1>t, <2>1, <2>2
  <2>4. work'[h] = e0 /\ entry'[e0] = "pending" /\ ~idle'[e0]
    BY <1>t, <2>1
  <2>5. \A f \in Entries : entry'[f] # "absent" <=> f = e0
    BY <1>t, <1>p, <2>1
  <2> QED BY <2>3, <2>4, <2>5 DEF OneWorker
<1>2. ASSUME NEW h \in Handlers, Ack(h) PROVE OneWorker'
  <2>1. stage[h] # "idle" /\ work[h] = e0
    BY <1>2, <1>w DEF Ack
  <2>2. \A g \in Handlers : stage'[g] = "idle"
    BY <1>t, <1>2, <2>1 DEF Ack, Free, OneWorker
  <2>3. \A f \in Entries : entry'[f] # "absent" <=> entry[f] # "absent"
    BY <1>t, <1>2 DEF Ack
  <2> QED BY <1>p, <2>2, <2>3 DEF OneWorker
<1>3. ASSUME NEW h \in Handlers, onHandlerFailure(h) \/ QueueError(h) PROVE OneWorker'
  <2>1. UNCHANGED <<entry, idle>> /\ stage[h] # "idle"
    BY <1>3 DEF onHandlerFailure, QueueError, streamVars
  <2>2. \A g \in Handlers : stage'[g] # "idle" => stage[g] # "idle" /\ work'[g] = work[g]
    BY <1>t, <1>3 DEF onHandlerFailure, QueueError, Free
  <2> QED BY <1>f, <1>w, <2>1, <2>2
<1>4. ASSUME NEW h \in Handlers, GatewayStep(h) PROVE OneWorker'
  <2>1. UNCHANGED <<entry, idle, work>>
    BY <1>4, GatewayKeeps
  <2>2. stage[h] # "idle" /\ \A g \in Handlers : g # h => stage'[g] = stage[g]
    BY <1>t, <1>4 DEF GatewayStep, Handle, HandleDefers, Join, NextChannel, Returns, Begin, handlerVars
  <2> QED BY <1>f, <1>w, <2>1, <2>2
<1>5. ASSUME NEW t \in Sends, SendStep(t) \/ DbError(t) \/ RedisError(t) PROVE OneWorker'
  BY <1>5, <1>f, <1>w, SendKeeps
<1>6. CASE OutsideStep
  <2>1. ASSUME NEW h \in Handlers, Crash(h) PROVE OneWorker'
    <3>1. UNCHANGED <<entry, idle>> /\ \A g \in Handlers : stage'[g] # "idle" => stage'[g] = stage[g] /\ work'[g] = work[g]
      BY <1>t, <2>1 DEF Crash, streamVars
    <3> QED BY <1>f, <1>w, <3>1
  <2>2. CASE \E c \in Channels, status \in DeliveredOK \cup {"failed"} : Receipt(c, status)
    BY <1>f, <1>w, <2>2 DEF Receipt, streamVars, handlerVars
  <2>3. ASSUME NEW e \in Entries, Trim(e) PROVE OneWorker'
    BY <1>t, <1>f, <1>w, <2>3 DEF Trim, handlerVars
  <2>4. ASSUME NEW e \in Entries, EntryIdles(e) PROVE OneWorker'
    <3>1. \A h \in Handlers : work[h] # e
      BY <2>4 DEF EntryIdles, SpendTime, OneCopy, TypeOK, OtherTypeOK
    <3>2. UNCHANGED <<entry, stage, work>> /\ idle' = [idle EXCEPT ![e] = TRUE]
      BY <2>4 DEF EntryIdles, handlerVars
    <3> QED BY <1>t, <1>f, <1>w, <3>1, <3>2
  <2>5. CASE /\ UNCHANGED <<entry, idle, stage, work>>
    BY <1>f, <1>w, <2>5
  <2>6. ASSUME Around PROVE \/ UNCHANGED <<entry, idle, stage, work>>
                            \/ \E e \in Entries : EntryIdles(e) \/ Trim(e)
    BY <2>6 DEF Around, ApiStep, Pause, Resume, Cancel, TimeStep, CacheExpires, MessageExpires, EntryAges,
       RowGetsStale, RedisLoss, vars, streamVars, handlerVars
  <2> QED BY <1>6, <2>1, <2>2, <2>3, <2>4, <2>5, <2>6, OutsideIs
<1> QED BY <1>1, <1>2, <1>3, <1>4, <1>5, <1>6, StepIs DEF QueueStep

LEMMA OneCopyAlways == ASSUME OneCopy PROVE Spec => [](TypeOK /\ OneWorker /\ InOrder /\ KnownInv)
<1>1. Init => OneWorker /\ InOrder /\ KnownInv
  BY OneWorkerInit, InOrderInit, KnownInit
<1>2. TypeOK /\ OneWorker /\ InOrder /\ KnownInv /\ [Next]_vars => (OneWorker /\ InOrder /\ KnownInv)'
  BY OneWorkerStep, OneWorkerHolds, InOrderStep, KnownStep
<1> QED BY <1>1, <1>2, DeliveryTyping, PTL DEF Spec

(* A message published once, and redelivered only when its handler is gone,  *)
(* is not sent again while its acceptance is known, whatever fails.          *)
THEOREM OneCopySentOnce == ASSUME OneCopy PROVE Spec => []SentOnce
<1>1. KnownInv => SentOnce
  BY DEF KnownInv
<1> QED BY <1>1, OneCopyAlways, PTL

(* Who writes a row over holds it in the status sending; claims insert, or   *)
(* take over what was not delivered; a receipt asks CanTransitTo.            *)
LEMMA RowsMove ==
  ASSUME TypeOK, KnownInv, [Next]_vars, NEW c \in Channels, row[c] \in DeliveredOK
  PROVE  \/ row'[c] = row[c]
         \/ row[c] = "sent" /\ row'[c] \in {"delivered", "clicked", "failed"}
         \/ row[c] = "delivered" /\ row'[c] \in {"clicked", "failed"}
<1>t. row \in [Channels -> RowStatus]
  BY DEF TypeOK, RowTypeOK
<1>1. ASSUME NEW h \in Handlers, QueueStep(h) \/ GatewayStep(h) PROVE row' = row
  BY <1>1, QueueKeeps, GatewayKeeps
<1>2. ASSUME NEW t \in Sends, SendStep(t) \/ DbError(t) \/ RedisError(t) PROVE row'[c] = row[c]
  <2>0. t[2] \in Channels
    BY SendsAre
  <2>1. CASE ClaimDelivery(t)
    BY <1>t, <2>0, <2>1 DEF ClaimDelivery, SetRow, rowVars, DeliveredOK
  <2>2. CASE TakeRow(t)
    BY <1>t, <2>0, <2>2 DEF TakeRow, SetRow, rowVars
  <2>3. CASE WriteRecord(t)
    <3>1. row[t[2]] = "sending"
      BY <2>3 DEF WriteRecord, KnownInv, Holding
    <3> QED BY <1>t, <2>0, <2>3, <3>1 DEF WriteRecord, SetRow, DeliveredOK
  <2>4. CASE ~(ClaimDelivery(t) \/ TakeRow(t) \/ WriteRecord(t))
    BY <1>2, <2>4 DEF SendStep, Pregate, Dedup, Check, Gate, Send, SendFails, ReadRecord, MarkDelivered, DbError,
       RedisError, rowVars
  <2> QED BY <2>1, <2>2, <2>3, <2>4
<1>3. CASE OutsideStep
  <2>1. ASSUME NEW d \in Channels, NEW status, Receipt(d, status)
        PROVE  row'[c] = row[c] \/ (d = c /\ row'[c] = status)
    BY <1>t, <2>1 DEF Receipt, SetRow
  <2>2. CASE Around \/ \E h \in Handlers : Crash(h)
    BY <2>2, AroundKeeps DEF Crash, rowVars
  <2>3. ASSUME NEW status, Receipt(c, status) PROVE status # row[c] /\ CanTransitTo(row[c], status)
    BY <2>3 DEF Receipt
  <2> QED BY <1>3, <2>1, <2>2, <2>3, OutsideIs DEF CanTransitTo, DeliveredOK, SoftTerminal
<1> QED BY <1>1, <1>2, <1>3, StepIs

(* With one copy a delivered row moves forward only: the handler's own late  *)
(* update, which does not look at what the row says by then, never meets a   *)
(* receipt.                                                                  *)
THEOREM DeliveredIsKept == ASSUME OneCopy PROVE Spec => DeliveredStays
<1>1. TypeOK /\ KnownInv /\ [Next]_vars =>
        [\A c \in Channels : row[c] \in DeliveredOK =>
           \/ row'[c] = row[c]
           \/ row[c] = "sent" /\ row'[c] \in {"delivered", "clicked", "failed"}
           \/ row[c] = "delivered" /\ row'[c] \in {"clicked", "failed"}]_vars
  BY RowsMove
<1> QED BY <1>1, OneCopyAlways, PTL DEF Spec, DeliveredStays

-----------------------------------------------------------------------------
(* What an acknowledgement means                                             *)
LEMMA Busy ==
  ASSUME TypeOK, OneWorker, NEW h \in Handlers, stage[h] # "idle"
  PROVE  /\ \A g \in Handlers : stage[g] # "idle" => g = h
         /\ \A e \in Entries : entry[e] # "acked"
<1>1. PICK e0 \in Entries : \A f \in Entries : entry[f] # "absent" <=> f = e0
  BY DEF OneWorker
<1>2. work[h] \in Entries /\ entry[work[h]] \in {"pending", "trimmed"}
  BY DEF TypeOK, HandlerTypeOK, OneWorker
<1>3. work[h] = e0
  BY <1>1, <1>2
<1>4. \A e \in Entries : entry[e] # "acked"
  BY <1>1, <1>2, <1>3
<1>5. \A g \in Handlers : stage[g] # "idle" => g = h
  BY DEF OneWorker
<1> QED BY <1>4, <1>5

LEMMA SendRow ==
  ASSUME TypeOK, NEW t \in Sends, SendStep(t) \/ DbError(t) \/ RedisError(t)
  PROVE  \A c \in Channels : c # t[2] => row'[c] = row[c]
<1>t. row \in [Channels -> RowStatus]
  BY DEF TypeOK, RowTypeOK
<1>1. row' = row \/ \E status : row' = [row EXCEPT ![t[2]] = status]
  BY DEF SendStep, Pregate, Dedup, ClaimDelivery, TakeRow, Check, Gate, Send, SendFails, ReadRecord, WriteRecord,
     MarkDelivered, DbError, RedisError, SetRow, rowVars
<1> QED BY <1>t, <1>1

LEMMA AnswerStep ==
  ASSUME TypeOK, AcceptedInv, KnownInv, OutcomeInv, NEW t \in Sends,
         SendStep(t) \/ DbError(t) \/ RedisError(t)
  PROVE  Answered(t)'
<1>t. /\ pc \in [Sends -> SendPcs] /\ out \in [Sends -> Outcomes] /\ row \in [Channels -> RowStatus]
      /\ t[1] \in Handlers /\ t[2] \in Channels
  BY SendsAre DEF TypeOK, SendTypeOK, RowTypeOK
<1>o. Over' = Over /\ reached \subseteq reached' /\ unrecorded \subseteq unrecorded'
  BY SendKeeps DEF Over
<1>a. Answered(t)
  BY DEF OutcomeInv
<1>g. goal[t[1]] # "send" => Over
  BY <1>t, SendKeeps DEF OutcomeInv, OverGoals
<1>d. (row[t[2]] \in DeliveredOK \/ t[2] \in dedup) => t[2] \in reached
  BY <1>t DEF AcceptedInv, DeliveredWasAccepted
<1>1. CASE Pregate(t) \/ Check(t) \/ Gate(t)
  <2>1. /\ pc'[t] \in {"record", "done"} =>
             out'[t] \in {"paused", "suppressed", "deferred", "nothing"}
        /\ pc'[t] \notin {"write", "mark"}
        /\ pc'[t] = "done" => out'[t] = "paused"
        /\ pc'[t] = "record" /\ out'[t] = "nothing" => mainStatus = "cancelled"
    BY <1>t, <1>1 DEF Pregate, Check, Gate, Goto, Decide
  <2> QED BY <1>o, <2>1 DEF Answered, Over
<1>2. CASE Dedup(t)
  <2>1. \/ pc'[t] = "claim"
        \/ pc'[t] = "done" /\ out'[t] = "ok" /\ t[2] \in dedup
    BY <1>t, <1>2 DEF Dedup, Goto, Decide
  <2> QED BY <1>d, <1>o, <2>1 DEF Answered
<1>3. CASE ClaimDelivery(t) \/ TakeRow(t)
  <2>1. \/ pc'[t] \in {"check", "take"}
        \/ pc'[t] = "record" /\ out'[t] = "nothing" /\ goal[t[1]] # "send"
        \/ pc'[t] = "record" /\ out'[t] = "suppressed"
        \/ pc'[t] \in {"mark", "done"} /\ out'[t] = "ok" /\ row[t[2]] \in DeliveredOK
        \/ pc'[t] = "done" /\ out'[t] = "failed"
    <3>1. ASSUME Claimed(t)
          PROVE  \/ pc'[t] = "check"
                 \/ pc'[t] = "record" /\ out'[t] = "nothing" /\ goal[t[1]] # "send"
                 \/ pc'[t] = "record" /\ out'[t] = "suppressed"
      BY <1>t, <3>1 DEF Claimed, Goto, Decide
    <3>2. ASSUME Duplicate(t) PROVE pc'[t] \in {"mark", "done"} /\ out'[t] = "ok"
      BY <1>t, <3>2 DEF Duplicate, Decide
    <3>3. CASE ClaimDelivery(t)
      BY <1>t, <3>1, <3>2, <3>3 DEF ClaimDelivery, Goto, Decide
    <3>4. CASE TakeRow(t)
      BY <3>1, <3>2, <3>4 DEF TakeRow
    <3> QED BY <1>3, <3>3, <3>4
  <2> QED BY <1>d, <1>g, <1>o, <2>1 DEF Answered
<1>4. CASE Send(t)
  <2>1. pc'[t] = "record" /\ out'[t] = "ok" /\ t[2] \in reached'
    BY <1>t, <1>4 DEF Send, Accepted, Decide
  <2> QED BY <2>1 DEF Answered
<1>5. CASE SendFails(t)
  <2>1. pc'[t] = "gate" \/ (pc'[t] = "record" /\ out'[t] = "failed")
    BY <1>t, <1>5 DEF SendFails, Decide
  <2> QED BY <2>1 DEF Answered
<1>6. CASE ReadRecord(t)
  <2>1. /\ out' = out /\ pc[t] = "record" /\ row' = row /\ row[t[2]] = "sending"
    BY <1>6 DEF ReadRecord, Goto, rowVars, KnownInv, Holding
  <2>2. pc'[t] = IF CanTransitTo(row[t[2]], RowFor(out[t])) THEN "write" ELSE AfterRecord(t)
    BY <1>t, <1>6 DEF ReadRecord, Goto
  <2>3. CanTransitTo(row[t[2]], RowFor(out[t]))
    BY <2>1 DEF CanTransitTo, RowFor, SoftTerminal
  <2> QED BY <1>a, <1>o, <2>1, <2>2, <2>3 DEF Answered
<1>7. CASE WriteRecord(t)
  <2>1. out' = out /\ pc[t] = "write" /\ pc'[t] = (IF out[t] = "ok" THEN "mark" ELSE "done")
    BY <1>t, <1>7 DEF WriteRecord, Goto, AfterRecord
  <2>2. row'[t[2]] = RowFor(out[t])
    BY <1>t, <1>7 DEF WriteRecord, SetRow
  <2>3. out[t] = "suppressed" => Resolved(t[2])'
    BY <2>2 DEF Resolved, RowFor
  <2> QED BY <1>a, <1>o, <2>1, <2>3 DEF Answered
<1>8. CASE MarkDelivered(t) \/ RedisError(t)
  <2>1. out' = out /\ (pc'[t] = "claim" \/ (pc[t] = "mark" /\ pc'[t] = "done"))
    BY <1>t, <1>8 DEF MarkDelivered, RedisError, Goto
  <2> QED BY <1>a, <1>o, <2>1 DEF Answered
<1>9. CASE DbError(t)
  <2>1. CASE pc[t] \in {"claim", "take", "pregate", "gate"}
    <3>1. pc'[t] \in {"done", "record"} /\ out'[t] \in {"failed", "deferred"}
      BY <1>t, <1>9, <2>1 DEF DbError, Decide
    <3> QED BY <3>1 DEF Answered
  <2>2. CASE pc[t] \in {"record", "write"}
    <3>1. /\ pc'[t] = "done" /\ out'[t] = (IF out[t] = "ok" THEN "failed" ELSE out[t])
          /\ unrecorded' = IF out[t] \in {"ok", "failed"} THEN unrecorded ELSE unrecorded \cup {t[2]}
      BY <1>t, <1>9, <2>2 DEF DbError, Decide
    <3>2. out'[t] = "suppressed" => Resolved(t[2])'
      BY <3>1 DEF Resolved
    <3> QED BY <1>a, <1>o, <2>2, <3>1, <3>2 DEF Answered
  <2> QED BY <1>9, <2>1, <2>2 DEF DbError
<1> QED BY <1>1, <1>2, <1>3, <1>4, <1>5, <1>6, <1>7, <1>8, <1>9 DEF SendStep

LEMMA OutcomeSendStep ==
  ASSUME TypeOK, AcceptedInv, KnownInv, OneWorker, OutcomeInv, NEW t \in Sends,
         SendStep(t) \/ DbError(t) \/ RedisError(t)
  PROVE  OutcomeInv'
<1>k. /\ UNCHANGED <<mainStatus, recent, expired, mode, entry, stage, work, dlq>> /\ stage[t[1]] = "run"
      /\ \A u \in Sends : u # t => pc'[u] = pc[u] /\ out'[u] = out[u]
      /\ ~Pregate(t) => UNCHANGED goal
      /\ reached \subseteq reached' /\ unrecorded \subseteq unrecorded'
  BY SendKeeps
<1>h. t[1] \in Handlers /\ t[2] \in Channels
  BY SendsAre
<1>b. (\A g \in Handlers : stage[g] # "idle" => g = t[1]) /\ \A e \in Entries : entry[e] # "acked"
  BY <1>k, <1>h, Busy
<1>1. OverGoals'
  <2>1. Over' = Over
    BY <1>k DEF Over
  <2>2. ASSUME NEW h \in Handlers, stage[h] = "run", goal'[h] # "send" PROVE Over
    <3>1. goal'[h] = goal[h] \/ mainStatus = "cancelled"
      BY <1>k DEF Pregate, Decide, Goto, handlerVars
    <3> QED BY <2>2, <3>1 DEF OutcomeInv, OverGoals, Over
  <2> QED BY <1>k, <2>1, <2>2 DEF OutcomeInv, OverGoals
<1>2. ASSUME NEW u \in Sends, u # t PROVE Answered(u)'
  <2>1. CASE pc[u] = "off"
    BY <1>k, <1>2, <2>1 DEF Answered
  <2>2. CASE pc[u] # "off"
    <3>1. stage[u[1]] = "run" /\ u[1] \in Handlers /\ u[2] \in Channels
      BY <2>2, SendsAre DEF TypeOK, SendTypeOK
    <3>2. u[1] = t[1]
      BY <1>b, <3>1
    <3>3. u[2] # t[2]
      BY <1>2, <3>2, SendIsPair
    <3>4. Resolved(u[2]) => Resolved(u[2])'
      BY <1>k, <3>1, <3>3, SendRow DEF Resolved
    <3>5. Over' = Over /\ Answered(u)
      BY <1>k DEF Over, OutcomeInv
    <3> QED BY <1>k, <1>2, <3>4, <3>5 DEF Answered
  <2> QED BY <2>1, <2>2
<1>3. Returned'
  BY <1>k, <1>b DEF Returned
<1> QED BY <1>1, <1>2, <1>3, AnswerStep DEF OutcomeInv

(* What Handle returns                                                       *)
LEMMA SequentialOk ==
  ASSUME TypeOK, OutcomeInv, NEW h \in Handlers, NEW c \in Channels, Sequential(h), stage[h] = "run",
         pc[<<h, c>>] = "done", "ok" \in SequentialResults(h, c)
  PROVE  ChannelsResolved \/ Over
<1>1. <<h, c>> \in Sends /\ <<h, c>>[2] = c /\ out[<<h, c>>] \in Outcomes /\ Answered(<<h, c>>)
  BY SendsOfHandler DEF TypeOK, SendTypeOK, OutcomeInv
<1>2. CASE goal[h] # "send"
  BY <1>2 DEF OutcomeInv, OverGoals
<1>3. CASE goal[h] = "send"
  <2>1. mode # "all_success"
    BY <1>3 DEF Sequential
  <2>2. c \in Tried(h)
    BY DEF Tried
  <2>3. out[<<h, c>>] \in Results(h)
    BY <2>2 DEF Results
  <2>4. out[<<h, c>>] \in {"ok", "nothing", "suppressed"}
    BY <1>1, <1>3, <2>3 DEF SequentialResults, Answered, Outcomes
  <2>5. out[<<h, c>>] \in {"ok", "suppressed"} => Resolved(c)
    BY <1>1 DEF Answered, Resolved
  <2>6. out[<<h, c>>] = "nothing" => Over
    BY <1>1 DEF Answered
  <2> QED BY <2>1, <2>4, <2>5, <2>6 DEF ChannelsResolved
<1> QED BY <1>2, <1>3

LEMMA JoinOk ==
  ASSUME TypeOK, OutcomeInv, NEW h \in Handlers, ~Sequential(h), \A c \in Channels : pc[<<h, c>>] = "done",
         "ok" \in (IF mode = "parallel" THEN classifyParallelOutcomes(Results(h))
                                        ELSE classifyAllSuccessOutcomes(Results(h)))
  PROVE  ChannelsResolved
<1>1. \A c \in Channels : /\ <<h, c>>[2] = c /\ out[<<h, c>>] \in Outcomes /\ Answered(<<h, c>>)
                          /\ out[<<h, c>>] \in Results(h)
  <2>1. \A c \in Channels : <<h, c>> \in Sends /\ <<h, c>>[2] = c
    BY SendsOfHandler
  <2>2. \A c \in Channels : c \in Tried(h)
    BY DEF Tried
  <2>3. \A c \in Channels : out[<<h, c>>] \in Results(h)
    BY <2>2 DEF Results
  <2> QED BY <2>1, <2>3 DEF TypeOK, SendTypeOK, OutcomeInv
<1>2. \A c \in Channels : out[<<h, c>>] \in {"ok", "suppressed"} => Resolved(c)
  BY <1>1 DEF Answered, Resolved
<1>3. CASE mode = "parallel"
  <2>1. "ok" \in Results(h) \/ "suppressed" \in Results(h)
    BY <1>3 DEF classifyParallelOutcomes, Errors
  <2>2. PICK c \in Channels : out[<<h, c>>] \in {"ok", "suppressed"}
    BY <2>1 DEF Results, Tried
  <2> QED BY <1>2, <1>3, <2>2 DEF ChannelsResolved
<1>4. CASE mode # "parallel"
  <2>1. Results(h) \cap {"deferred", "failed", "nothing", "paused"} = {}
    BY <1>4 DEF classifyAllSuccessOutcomes, Errors
  <2>2. \A c \in Channels : out[<<h, c>>] \in {"ok", "suppressed"}
    BY <1>1, <2>1 DEF Answered, Outcomes
  <2>3. mode = "all_success"
    BY <1>4, DeliveryBounds DEF TypeOK, MainTypeOK, Sequential, AllModes
  <2> QED BY <1>2, <2>2, <2>3 DEF ChannelsResolved
<1> QED BY <1>3, <1>4

LEMMA OutcomeGatewayStep ==
  ASSUME TypeOK, InOrder, OneWorker, OutcomeInv, NEW h \in Handlers, GatewayStep(h)
  PROVE  OutcomeInv'
<1>t. /\ pc \in [Sends -> SendPcs] /\ stage \in [Handlers -> Stages]
      /\ goal \in [Handlers -> {"send", "cancel", "expire"}]
  BY DEF TypeOK, SendTypeOK, HandlerTypeOK
<1>k. UNCHANGED <<mainStatus, recent, expired, mode, entry, dlq, row, reached, unrecorded, work>>
  BY GatewayKeeps
<1>s. Over' = Over /\ ChannelsResolved' = ChannelsResolved /\ \A c \in Channels : Resolved(c)' = Resolved(c)
  BY <1>k DEF Over, ChannelsResolved, Resolved
<1>b. (\A g \in Handlers : stage[g] # "idle" => g = h) /\ \A e \in Entries : entry[e] # "acked"
  <2>1. stage[h] # "idle"
    BY DEF GatewayStep, Handle, HandleDefers, Join, NextChannel
  <2> QED BY <2>1, Busy
<1>f. ASSUME OverGoals', stage'[h] = "ok" => ChannelsResolved \/ Over, stage'[h] # "bury",
             \A g \in Handlers : g # h => stage'[g] = stage[g],
             \A u \in Sends : pc'[u] \notin {"record", "write", "mark", "done"}
                              \/ (pc'[u] = pc[u] /\ out'[u] = out[u])
      PROVE  OutcomeInv'
  <2>1. ASSUME NEW u \in Sends PROVE Answered(u)'
    <3>1. Answered(u) /\ u[2] \in Channels
      BY SendsAre DEF OutcomeInv
    <3>2. pc'[u] \notin {"record", "write", "mark", "done"} \/ (pc'[u] = pc[u] /\ out'[u] = out[u])
      BY <1>f
    <3> QED BY <1>k, <1>s, <3>1, <3>2 DEF Answered
  <2>2. Returned'
    BY <1>b, <1>f, <1>k, <1>s DEF Returned
  <2> QED BY <1>f, <2>1, <2>2 DEF OutcomeInv
<1>1. ASSUME NEW what \in {"send", "cancel", "expire"}, NEW cs, NEW l \in {"claim", "dedup"},
             Begin(h, what, cs, l), what # "send" => Over
      PROVE  OutcomeInv'
  <2>1. /\ stage' = [stage EXCEPT ![h] = "run"] /\ goal' = [goal EXCEPT ![h] = what] /\ out' = out
        /\ \A u \in Sends : pc'[u] \in {"claim", "dedup"} \/ pc'[u] = pc[u]
    BY <1>1 DEF Begin
  <2>2. OverGoals'
    BY <1>t, <1>k, <1>s, <1>1, <2>1 DEF OutcomeInv, OverGoals
  <2> QED BY <1>t, <1>f, <2>1, <2>2
<1>2. ASSUME NEW result \in {"ok", "failed", "defer"}, Returns(h, result), result = "ok" => ChannelsResolved \/ Over
      PROVE  OutcomeInv'
  <2>1. /\ stage' = [stage EXCEPT ![h] = result] /\ goal' = [goal EXCEPT ![h] = "send"]
        /\ \A u \in Sends : pc'[u] = "off" \/ (pc'[u] = pc[u] /\ out'[u] = out[u])
    BY <1>2 DEF Returns
  <2>2. OverGoals'
    BY <1>t, <1>k, <1>s, <2>1 DEF OutcomeInv, OverGoals
  <2> QED BY <1>t, <1>f, <1>2, <2>1, <2>2
<1>3. ASSUME NEW c \in Channels, NEW l \in {"pregate", "claim"},
             pc' = [pc EXCEPT ![<<h, c + 1>>] = l], UNCHANGED <<stage, goal, out>>, stage[h] = "run"
      PROVE  OutcomeInv'
  <2>1. \A u \in Sends : pc'[u] \in {"pregate", "claim"} \/ pc'[u] = pc[u]
    BY <1>t, <1>3
  <2>2. OverGoals'
    BY <1>k, <1>s, <1>3 DEF OutcomeInv, OverGoals
  <2> QED BY <1>f, <1>3, <2>1, <2>2
<1>4. CASE Handle(h)
  <2>1. PICK status \in recent \cup {mainStatus} :
          \/ status = "cancelled" /\ Begin(h, "cancel", {1}, "claim")
          \/ status = "paused" /\ Returns(h, "defer")
          \/ status = "running" /\ expired /\ Begin(h, "expire", {1}, "claim")
          \/ /\ status = "running" /\ ~expired
             /\ Begin(h, "send", IF mode \in {"single", "fallback"} THEN {1} ELSE Channels, "dedup")
    BY <1>4 DEF Handle
  <2>2. CASE status = "cancelled" /\ Begin(h, "cancel", {1}, "claim")
    <3>1. Over
      BY <2>2 DEF OutcomeInv, OverGoals, Over
    <3> QED BY <1>1, <2>2, <3>1
  <2>3. CASE Returns(h, "defer")
    BY <1>2, <2>3
  <2>4. CASE expired /\ Begin(h, "expire", {1}, "claim")
    BY <1>1, <2>4 DEF Over
  <2>5. CASE Begin(h, "send", IF mode \in {"single", "fallback"} THEN {1} ELSE Channels, "dedup")
    BY <1>1, <2>5
  <2> QED BY <2>1, <2>2, <2>3, <2>4, <2>5
<1>5. CASE HandleDefers(h)
  BY <1>2, <1>5 DEF HandleDefers
<1>6. ASSUME NEW c \in Channels, NextChannel(h, c) PROVE OutcomeInv'
  <2>1. stage[h] = "run" /\ Sequential(h) /\ pc[<<h, c>>] = "done"
    BY <1>6 DEF NextChannel
  <2>2. CASE \E result \in SequentialResults(h, c) : Returns(h, result)
    <3>1. PICK result \in SequentialResults(h, c) : Returns(h, result)
      BY <2>2
    <3>2. result \in {"ok", "failed", "defer"}
      BY <3>1 DEF SequentialResults
    <3> QED BY <1>2, <2>1, <3>1, <3>2, SequentialOk
  <2>3. CASE \E l \in {"pregate", "claim"} : pc' = [pc EXCEPT ![<<h, c + 1>>] = l] /\ UNCHANGED <<handlerVars, out>>
    BY <1>3, <2>1, <2>3 DEF handlerVars
  <2> QED BY <1>6, <2>2, <2>3 DEF NextChannel
<1>7. CASE Join(h)
  <2> DEFINE Rs == IF mode = "parallel" THEN classifyParallelOutcomes(Results(h))
                                        ELSE classifyAllSuccessOutcomes(Results(h))
  <2>1. ~Sequential(h) /\ \A c \in Channels : pc[<<h, c>>] = "done"
    BY <1>7 DEF Join
  <2>2. PICK result \in Rs : Returns(h, result)
    BY <1>7 DEF Join
  <2>3. result \in {"ok", "failed", "defer"}
    BY <2>2 DEF classifyParallelOutcomes, classifyAllSuccessOutcomes, Errors
  <2>4. result = "ok" => ChannelsResolved
    BY <2>1, <2>2, JoinOk
  <2> QED BY <1>2, <2>2, <2>3, <2>4
<1> QED BY <1>4, <1>5, <1>6, <1>7 DEF GatewayStep

LEMMA OutcomeQueueStep ==
  ASSUME TypeOK, OutcomeInv, NEW h \in Handlers, QueueStep(h)
  PROVE  OutcomeInv'
<1>t. /\ stage \in [Handlers -> Stages] /\ work \in [Handlers -> Entries \cup {NoEntry}]
      /\ entry \in [Entries -> {"absent", "new", "pending", "acked", "trimmed"}]
      /\ dlq \subseteq Entries
  BY DEF TypeOK, HandlerTypeOK, StreamTypeOK
<1>k. UNCHANGED <<mainStatus, recent, expired, mode, row, goal, pc, out, reached, unrecorded>>
  BY QueueKeeps
<1>s. Over' = Over /\ ChannelsResolved' = ChannelsResolved
  BY <1>k DEF Over, ChannelsResolved, Resolved
<1>u. \A u \in Sends : Answered(u)'
  BY <1>k DEF OutcomeInv, Answered, Over, Resolved
<1>f. ASSUME \A g \in Handlers : stage'[g] = "run" => stage[g] = "run", Returned' PROVE OutcomeInv'
  BY <1>f, <1>k, <1>s, <1>u DEF OutcomeInv, OverGoals
<1>r. Returned
  BY DEF OutcomeInv
<1>1. ASSUME NEW e \in Entries, Deliver(h, e) \/ reclaimOnce(h, e) PROVE OutcomeInv'
  <2>1. /\ stage' = [stage EXCEPT ![h] = "snap"] /\ work' = [work EXCEPT ![h] = e]
        /\ entry' = [entry EXCEPT ![e] = "pending"] /\ dlq' = dlq
    BY <1>1 DEF Deliver, reclaimOnce, Take
  <2>2. \A g \in Handlers : g # h => stage'[g] = stage[g] /\ work'[g] = work[g]
    BY <1>t, <2>1
  <2>3. stage'[h] = "snap"
    BY <1>t, <2>1
  <2>4. \A d \in Entries : entry'[d] = "acked" => entry[d] = "acked"
    BY <1>t, <2>1
  <2> QED BY <1>f, <1>r, <1>s, <2>1, <2>2, <2>3, <2>4 DEF Returned
<1>2. CASE Ack(h)
  <2>1. /\ stage[h] \in {"ok", "bury"} /\ stage' = [stage EXCEPT ![h] = "idle"]
        /\ work' = [work EXCEPT ![h] = NoEntry] /\ dlq' = dlq
        /\ entry' = [entry EXCEPT ![work[h]] = IF @ = "pending" THEN "acked" ELSE @]
    BY <1>2 DEF Ack, Free
  <2>2. \A g \in Handlers : g # h => stage'[g] = stage[g] /\ work'[g] = work[g]
    BY <1>t, <2>1
  <2>3. stage'[h] = "idle"
    BY <1>t, <2>1
  <2>4. \A d \in Entries : entry'[d] = "acked" => entry[d] = "acked" \/ d = work[h]
    BY <1>t, <2>1
  <2>5. ChannelsResolved \/ Over \/ work[h] \in dlq
    BY <1>r, <2>1 DEF Returned
  <2> QED BY <1>f, <1>r, <1>s, <2>1, <2>2, <2>3, <2>4, <2>5 DEF Returned
<1>3. CASE onHandlerFailure(h) \/ QueueError(h)
  <2>1. /\ entry' = entry /\ dlq \subseteq dlq'
        /\ \/ stage' = [stage EXCEPT ![h] = "idle"] /\ work' = [work EXCEPT ![h] = NoEntry]
           \/ stage' = [stage EXCEPT ![h] = "bury"] /\ work' = work /\ work[h] \in dlq'
    BY <1>3 DEF onHandlerFailure, QueueError, Free, streamVars
  <2>2. \A g \in Handlers : g # h => stage'[g] = stage[g] /\ work'[g] = work[g]
    BY <1>t, <2>1
  <2>3. stage'[h] = "idle" \/ (stage'[h] = "bury" /\ work'[h] \in dlq')
    BY <1>t, <2>1
  <2>4. \A d \in Entries : entry'[d] = "acked" => entry[d] = "acked"
    BY <2>1
  <2>5. \A g \in Handlers : stage'[g] = "run" => stage[g] = "run"
    BY <2>2, <2>3
  <2>6. Returned'
    BY <1>r, <1>s, <2>1, <2>2, <2>3, <2>4 DEF Returned
  <2> QED BY <1>f, <2>5, <2>6
<1> QED BY <1>1, <1>2, <1>3 DEF QueueStep

LEMMA OutcomeOutsideStep == ASSUME TypeOK, OutcomeInv, OutsideStep PROVE OutcomeInv'
<1>t. /\ stage \in [Handlers -> Stages] /\ row \in [Channels -> RowStatus]
      /\ entry \in [Entries -> {"absent", "new", "pending", "acked", "trimmed"}]
  BY DEF TypeOK, HandlerTypeOK, StreamTypeOK, RowTypeOK
<1>f. ASSUME Over => Over', "cancelled" \notin recent', \A c \in Channels : Resolved(c) => Resolved(c)',
             UNCHANGED <<mode, dlq, reached>>,
             \A g \in Handlers : stage'[g] = "idle" \/ (stage'[g] = stage[g] /\ work'[g] = work[g] /\ goal'[g] = goal[g]),
             \A u \in Sends : pc'[u] = "off" \/ (pc'[u] = pc[u] /\ out'[u] = out[u]),
             \A e \in Entries : entry'[e] = "acked" => entry[e] = "acked"
      PROVE  OutcomeInv'
  <2>1. OverGoals'
    BY <1>f DEF OutcomeInv, OverGoals
  <2>2. \A u \in Sends : Answered(u)'
    BY <1>f, SendsAre DEF OutcomeInv, Answered
  <2>3. ChannelsResolved => ChannelsResolved'
    BY <1>f DEF ChannelsResolved
  <2>4. Returned'
    BY <1>f, <2>3 DEF OutcomeInv, Returned
  <2> QED BY <2>1, <2>2, <2>4 DEF OutcomeInv
<1>r. "cancelled" \notin recent
  BY DEF OutcomeInv, OverGoals
<1>1. CASE Around
  <2>1. UNCHANGED <<mode, row, stage, work, goal, pc, out, reached, unrecorded, dlq>>
    BY <1>1, AroundKeeps
  <2>2. (Over => Over') /\ "cancelled" \notin recent'
    <3>1. CASE ApiStep
      BY <1>r, <3>1 DEF ApiStep, Pause, Resume, Cancel, SetMain, Over
    <3>2. CASE CacheExpires \/ MessageExpires
      BY <1>r, <3>2 DEF CacheExpires, MessageExpires, Over
    <3>3. CASE UNCHANGED mainVars
      BY <1>r, <3>3 DEF mainVars, Over
    <3> QED BY <1>1, <3>1, <3>2, <3>3 DEF Around, TimeStep, EntryIdles, EntryAges, RowGetsStale, RedisLoss,
                 Trim, vars, mainVars
  <2>3. \A e \in Entries : entry'[e] = "acked" => entry[e] = "acked"
    BY <1>t, <1>1 DEF Around, ApiStep, Pause, Resume, Cancel, TimeStep, CacheExpires, MessageExpires,
       EntryIdles, EntryAges, RowGetsStale, RedisLoss, Trim, vars, streamVars
  <2> QED BY <1>f, <2>1, <2>2, <2>3 DEF Resolved
<1>2. ASSUME NEW c \in Channels, NEW status \in DeliveredOK \cup {"failed"}, Receipt(c, status) PROVE OutcomeInv'
  <2>1. /\ UNCHANGED <<mainStatus, recent, expired, mode, entry, dlq, stage, work, goal, pc, out, reached, unrecorded>>
        /\ row[c] \in DeliveredOK /\ row' = [row EXCEPT ![c] = status]
    BY <1>2 DEF Receipt, SetRow, mainVars, streamVars, handlerVars, sendVars
  <2>2. \A d \in Channels : Resolved(d) => Resolved(d)'
    BY <1>t, <2>1 DEF Resolved, DeliveredOK
  <2> QED BY <1>f, <1>r, <2>1, <2>2 DEF Over
<1>3. ASSUME NEW h \in Handlers, Crash(h) PROVE OutcomeInv'
  <2>1. /\ UNCHANGED <<mainStatus, recent, expired, mode, entry, dlq, row, reached, unrecorded>>
        /\ \A u \in Sends : pc'[u] = "off" \/ (pc'[u] = pc[u] /\ out'[u] = out[u])
    BY <1>3 DEF Crash, mainVars, streamVars, rowVars
  <2>2. \A g \in Handlers : stage'[g] = "idle" \/ (stage'[g] = stage[g] /\ work'[g] = work[g] /\ goal'[g] = goal[g])
    BY <1>t, <1>3 DEF Crash, TypeOK, HandlerTypeOK
  <2> QED BY <1>f, <1>r, <2>1, <2>2 DEF Over, Resolved
<1> QED BY <1>1, <1>2, <1>3, OutsideIs

(* A message that is acknowledged and was not put to the dead letters has    *)
(* reached a vendor, or a row or a failed update says why not, on one of its *)
(* channels or, with all_success, on each: whatever failed on the way and    *)
(* however often the message was delivered again.                            *)
THEOREM OneCopyResolved == ASSUME OneCopy PROVE Spec => []AckedIsResolved
<1>1. Init => OneWorker /\ InOrder /\ KnownInv /\ AcceptedInv /\ OutcomeInv
  <2>1. Init => AcceptedInv
    BY DEF Init, AcceptedInv, DeliveredWasAccepted, SuccessInHand, HoldsSuccess, DeliveredOK
  <2>2. Init => OutcomeInv
    BY DEF Init, OutcomeInv, OverGoals, Answered, Returned
  <2> QED BY <2>1, <2>2, OneWorkerInit, InOrderInit, KnownInit
<1>2. TypeOK /\ OneWorker /\ InOrder /\ KnownInv /\ AcceptedInv /\ OutcomeInv /\ [Next]_vars
        => (OneWorker /\ InOrder /\ KnownInv /\ AcceptedInv /\ OutcomeInv)'
  <2> SUFFICES ASSUME TypeOK, OneWorker, InOrder, KnownInv, AcceptedInv, OutcomeInv, [Next]_vars
               PROVE  (OneWorker /\ InOrder /\ KnownInv /\ AcceptedInv /\ OutcomeInv)'
    OBVIOUS
  <2>1. AcceptedInv'
    BY StepIs, SendAccepted, RestAccepted
  <2>2. OutcomeInv'
    BY StepIs, OutcomeQueueStep, OutcomeGatewayStep, OutcomeSendStep, OutcomeOutsideStep
  <2>3. OneWorker' /\ InOrder' /\ KnownInv'
    BY OneWorkerStep, OneWorkerHolds, InOrderStep, KnownStep
  <2> QED BY <2>1, <2>2, <2>3
<1>3. OneWorker /\ OutcomeInv => AckedIsResolved
  <2> SUFFICES ASSUME OneWorker, OutcomeInv,
                      \A e \in Entries : entry[e] \in {"absent", "acked"} /\ e \notin dlq, ~Over
               PROVE  ChannelsResolved
    BY DEF AckedIsResolved, ChannelsResolved, Over
  <2>1. PICK e \in Entries : entry[e] # "absent"
    BY DEF OneWorker
  <2> QED BY <2>1 DEF OutcomeInv, Returned
<1> QED BY <1>1, <1>2, <1>3, DeliveryTyping, PTL DEF Spec

-----------------------------------------------------------------------------
(* Any number of copies                                                      *)
LEMMA UntakenHolds == Untaken => OneHolder
BY DEF Untaken, OneHolder

LEMMA UntakenInit == Init => Untaken
BY DEF Init, Untaken, Holding

LEMMA UntakenFrame ==
  ASSUME Untaken, UNCHANGED <<mainStatus, recent, expired, goal, row, rowStale>>,
         \A t \in Sends : pc'[t] \in Holding <=> pc[t] \in Holding,
         \A t \in Sends : pc'[t] # "take" /\ (pc'[t] \in {"record", "write"} => out'[t] = "ok")
  PROVE  Untaken'
<1>1. ASSUME NEW c \in Channels, row[c] = "sending" PROVE \E h \in Handlers : pc'[<<h, c>>] \in Holding
  BY <1>1, SendsOfHandler DEF Untaken
<1> QED BY <1>1 DEF Untaken

LEMMA UntakenSendStep ==
  ASSUME Undisturbed, TypeOK, KnownInv, Untaken, NEW t \in Sends, SendStep(t) \/ DbError(t) \/ RedisError(t)
  PROVE  Untaken'
<1>t. /\ pc \in [Sends -> SendPcs] /\ out \in [Sends -> Outcomes] /\ row \in [Channels -> RowStatus]
      /\ rowStale \in [Channels -> BOOLEAN] /\ t[1] \in Handlers /\ t[2] \in Channels
  BY SendsAre DEF TypeOK, SendTypeOK, RowTypeOK
<1>m. UNCHANGED <<mainStatus, recent, expired>> /\ \A u \in Sends : u # t => pc'[u] = pc[u] /\ out'[u] = out[u]
  BY SendKeeps
<1>n. mainStatus = "running" /\ goal[t[1]] = "send" /\ pc[t] # "take"
  BY <1>t DEF Untaken
<1>e. \A kind \in Disturbances \ {"defer", "redisError", "redisLoss", "trim"} : ~Fault(kind)
  BY DEF Undisturbed, Fault
<1>f. ASSUME UNCHANGED <<goal, row, rowStale>>, pc'[t] \in Holding <=> pc[t] \in Holding,
             pc'[t] # "take", pc'[t] \in {"record", "write"} => out'[t] = "ok"
      PROVE  Untaken'
  <2>1. \A u \in Sends : pc'[u] \in Holding <=> pc[u] \in Holding
    BY <1>m, <1>f
  <2>2. \A u \in Sends : pc'[u] # "take" /\ (pc'[u] \in {"record", "write"} => out'[u] = "ok")
    BY <1>m, <1>f DEF Untaken
  <2> QED BY <1>m, <1>f, <2>1, <2>2, UntakenFrame
<1>1. CASE Pregate(t) \/ Dedup(t) \/ Check(t) \/ Gate(t) \/ Send(t) \/ ReadRecord(t) \/ MarkDelivered(t) \/ RedisError(t)
  <2>1. UNCHANGED <<goal, row, rowStale>>
    BY <1>n, <1>1 DEF Pregate, Dedup, Check, Gate, Send, ReadRecord, MarkDelivered, RedisError, Goto, Decide,
       rowVars, handlerVars
  <2>2. CASE Pregate(t) \/ Dedup(t) \/ MarkDelivered(t) \/ RedisError(t)
    <3>1. pc[t] \notin Holding /\ pc'[t] \in {"dedup", "claim", "done"}
      BY <1>t, <1>n, <2>2 DEF Pregate, Dedup, MarkDelivered, RedisError, Goto, Decide, Holding
    <3> QED BY <1>f, <2>1, <3>1 DEF Holding
  <2>3. CASE Check(t) \/ Gate(t)
    <3>1. ~Fault("suppress") /\ ~Fault("throttle")
      BY <1>e DEF Disturbances
    <3>2. pc[t] \in Holding /\ pc'[t] \in {"gate", "send"}
      BY <1>t, <1>n, <2>3, <3>1 DEF Check, Gate, Goto, Holding
    <3> QED BY <1>f, <2>1, <3>2 DEF Holding
  <2>4. CASE Send(t)
    <3>1. pc[t] \in Holding /\ pc'[t] = "record" /\ out'[t] = "ok"
      BY <1>t, <2>4 DEF Send, Decide, Holding
    <3> QED BY <1>f, <2>1, <3>1 DEF Holding
  <2>5. CASE ReadRecord(t)
    <3>1. pc[t] = "record" /\ out[t] = "ok" /\ row[t[2]] = "sending" /\ out' = out
      BY <2>5 DEF ReadRecord, Goto, Untaken, KnownInv, Holding
    <3>2. pc'[t] = "write"
      BY <1>t, <2>5, <3>1 DEF ReadRecord, Goto, CanTransitTo, RowFor
    <3> QED BY <1>f, <2>1, <3>1, <3>2 DEF Holding
  <2> QED BY <1>1, <2>2, <2>3, <2>4, <2>5
<1>2. CASE ClaimDelivery(t)
  <2>1. goal' = goal /\ pc[t] = "claim" /\ pc[t] \notin Holding
    BY <1>2 DEF ClaimDelivery, Claimed, Duplicate, Goto, Decide, handlerVars, Holding
  <2>2. row[t[2]] \in {"none", "sending", "sent"} /\ rowStale[t[2]] = FALSE
    BY <1>t DEF Untaken
  <2>3. CASE row[t[2]] = "none"
    <3>1. /\ row' = [row EXCEPT ![t[2]] = "sending"] /\ rowStale' = [rowStale EXCEPT ![t[2]] = FALSE]
          /\ pc'[t] = "check"
      BY <1>t, <1>n, <1>2, <2>3 DEF ClaimDelivery, SetRow, Claimed, Goto, InFlight, DeliveredOK
    <3>2. \A u \in Sends : u[2] = t[2] => pc[u] \notin Holding
      BY <2>3 DEF KnownInv
    <3>3. \A c \in Channels : ~rowStale'[c] /\ row'[c] \in {"none", "sending", "sent"}
      BY <1>t, <3>1 DEF Untaken
    <3>4. ASSUME NEW c \in Channels, row'[c] = "sending" PROVE \E h \in Handlers : pc'[<<h, c>>] \in Holding
      <4>1. CASE c = t[2]
        <5>1. t = <<t[1], c>> /\ pc'[t] \in Holding
          BY <3>1, <4>1, SendIsPair DEF Holding
        <5>2. pc'[<<t[1], c>>] \in Holding
          BY <5>1
        <5> QED BY <1>t, <5>2
      <4>2. CASE c # t[2]
        <5>1. PICK h \in Handlers : pc[<<h, c>>] \in Holding
          BY <1>t, <3>1, <3>4, <4>2 DEF Untaken
        <5>2. <<h, c>> \in Sends /\ <<h, c>> # t
          BY <4>2, SendsOfHandler
        <5> QED BY <1>m, <5>1, <5>2
      <4> QED BY <4>1, <4>2
    <3>5. \A u \in Sends : pc'[u] # "take" /\ (pc'[u] \in {"record", "write"} => out'[u] = "ok")
      BY <1>m, <3>1 DEF Untaken
    <3>6. \A u, v \in Sends : u[2] = v[2] /\ pc'[u] \in Holding /\ pc'[v] \in Holding => u = v
      BY <1>m, <3>2 DEF Untaken
    <3> QED BY <1>m, <2>1, <3>3, <3>4, <3>5, <3>6 DEF Untaken
  <2>4. CASE row[t[2]] # "none"
    <3>1. UNCHANGED <<row, rowStale>> /\ pc'[t] \in {"mark", "done"}
      BY <1>t, <1>2, <2>2, <2>4 DEF ClaimDelivery, Duplicate, Decide, InFlight, DeliveredOK, rowVars
    <3> QED BY <1>f, <2>1, <3>1 DEF Holding
  <2> QED BY <2>3, <2>4
<1>3. CASE WriteRecord(t)
  <2>1. /\ pc[t] = "write" /\ out[t] = "ok" /\ UNCHANGED <<goal, out>> /\ pc'[t] = "mark"
        /\ row' = [row EXCEPT ![t[2]] = "sent"] /\ rowStale' = [rowStale EXCEPT ![t[2]] = FALSE]
    <3>1. pc[t] = "write" /\ UNCHANGED <<goal, out>> /\ out[t] = "ok"
      BY <1>3 DEF WriteRecord, Goto, handlerVars, Untaken
    <3> QED BY <1>t, <1>3, <3>1 DEF WriteRecord, Goto, SetRow, AfterRecord, RowFor
  <2>2. \A u \in Sends : pc'[u] \in Holding => u # t /\ pc[u] \in Holding
    BY <1>m, <2>1 DEF Holding
  <2>3. \A c \in Channels : ~rowStale'[c] /\ row'[c] \in {"none", "sending", "sent"}
    BY <1>t, <2>1 DEF Untaken
  <2>4. ASSUME NEW c \in Channels, row'[c] = "sending" PROVE \E h \in Handlers : pc'[<<h, c>>] \in Holding
    <3>1. c # t[2] /\ row[c] = "sending"
      BY <1>t, <2>1, <2>4
    <3>2. PICK h \in Handlers : pc[<<h, c>>] \in Holding
      BY <3>1 DEF Untaken
    <3>3. <<h, c>> \in Sends /\ <<h, c>> # t
      BY <3>1, SendsOfHandler
    <3> QED BY <1>m, <3>2, <3>3
  <2>5. \A u \in Sends : pc'[u] # "take" /\ (pc'[u] \in {"record", "write"} => out'[u] = "ok")
    BY <1>m, <2>1 DEF Untaken
  <2>6. \A u, v \in Sends : u[2] = v[2] /\ pc'[u] \in Holding /\ pc'[v] \in Holding => u = v
    BY <2>2 DEF Untaken
  <2> QED BY <1>m, <2>1, <2>3, <2>4, <2>5, <2>6 DEF Untaken
<1>4. ~TakeRow(t) /\ ~SendFails(t) /\ ~DbError(t)
  <2>1. ~Fault("reject") /\ ~Fault("timeout") /\ ~Fault("dbError")
    BY <1>e DEF Disturbances
  <2> QED BY <1>n, <2>1 DEF TakeRow, SendFails, DbError
<1> QED BY <1>1, <1>2, <1>3, <1>4 DEF SendStep

LEMMA UntakenStep ==
  ASSUME Undisturbed, TypeOK, InOrder, KnownInv, Untaken, [Next]_vars
  PROVE  Untaken'
<1>t. pc \in [Sends -> SendPcs] /\ goal \in [Handlers -> {"send", "cancel", "expire"}] /\ slow \in Nat
  BY DEF TypeOK, SendTypeOK, HandlerTypeOK, OtherTypeOK
<1>e. \A kind \in Disturbances \ {"defer", "redisError", "redisLoss", "trim"} : ~Fault(kind)
  BY DEF Undisturbed, Fault
<1>1. ASSUME NEW h \in Handlers, QueueStep(h) PROVE Untaken'
  BY <1>1, QueueKeeps DEF Untaken
<1>2. ASSUME NEW h \in Handlers, GatewayStep(h) PROVE Untaken'
  <2>0. UNCHANGED <<mainStatus, recent, expired, row, rowStale>>
    BY <1>2, GatewayKeeps
  <2>f. ASSUME goal' = goal,
               \A u \in Sends : \/ pc'[u] = pc[u] /\ out'[u] = out[u]
                                \/ pc[u] \notin Holding /\ pc'[u] \notin Holding \cup {"take"}
        PROVE  Untaken'
    <3>1. \A u \in Sends : pc'[u] \in Holding <=> pc[u] \in Holding
      BY <2>f
    <3>2. \A u \in Sends : pc'[u] # "take" /\ (pc'[u] \in {"record", "write"} => out'[u] = "ok")
      BY <2>f DEF Untaken, Holding
    <3> QED BY <2>0, <2>f, <3>1, <3>2, UntakenFrame
  <2>g. \A g \in Handlers : goal[g] = "send"
    BY DEF Untaken
  <2>1. ASSUME NEW what, NEW cs, NEW l \in {"claim", "dedup"}, Begin(h, what, cs, l), what = "send",
               \A c \in Channels : pc[<<h, c>>] = "off"
        PROVE  Untaken'
    <3>1. goal' = goal
      BY <1>t, <2>1, <2>g DEF Begin
    <3>2. /\ out' = out
          /\ \A u \in Sends : u[1] # h => pc'[u] = pc[u]
          /\ \A u \in Sends : u[1] = h => pc[u] = "off" /\ pc'[u] \in {"off", "claim", "dedup"}
      BY <2>1, SendsAre, SendIsPair DEF Begin
    <3>3. \A u \in Sends : \/ pc'[u] = pc[u] /\ out'[u] = out[u]
                           \/ pc[u] \notin Holding /\ pc'[u] \notin Holding \cup {"take"}
      BY <3>2 DEF Holding
    <3> QED BY <2>f, <3>1, <3>3
  <2>2. ASSUME NEW result \in Stages, Returns(h, result), \A c \in Channels : pc[<<h, c>>] \in {"off", "done"}
        PROVE  Untaken'
    <3>1. goal' = goal
      BY <1>t, <2>2, <2>g DEF Returns
    <3>2. /\ \A u \in Sends : u[1] # h => pc'[u] = pc[u] /\ out'[u] = out[u]
          /\ \A u \in Sends : u[1] = h => pc[u] \in {"off", "done"} /\ pc'[u] = "off"
      BY <2>2, SendsAre, SendIsPair DEF Returns
    <3>3. \A u \in Sends : \/ pc'[u] = pc[u] /\ out'[u] = out[u]
                           \/ pc[u] \notin Holding /\ pc'[u] \notin Holding \cup {"take"}
      BY <3>2 DEF Holding
    <3> QED BY <2>f, <3>1, <3>3
  <2>3. ASSUME NEW c \in Channels, NEW l \in {"pregate", "claim"},
               pc' = [pc EXCEPT ![<<h, c + 1>>] = l], UNCHANGED <<goal, out>>,
               \A d \in Channels : pc[<<h, d>>] # "off" => d <= c /\ pc[<<h, d>>] = "done"
        PROVE  Untaken'
    <3>1. \A u \in Sends : u # <<h, c + 1>> => pc'[u] = pc[u]
      BY <1>t, <2>3
    <3>2. <<h, c + 1>> \in Sends => pc[<<h, c + 1>>] \in {"off", "done"} /\ pc'[<<h, c + 1>>] = l
      <4>1. <<h, c + 1>> \in Sends => c + 1 \in Channels
        BY DEF Sends
      <4> QED BY <1>t, <2>3, <4>1
    <3>3. \A u \in Sends : \/ pc'[u] = pc[u] /\ out'[u] = out[u]
                           \/ pc[u] \notin Holding /\ pc'[u] \notin Holding \cup {"take"}
      BY <2>3, <3>1, <3>2 DEF Holding
    <3> QED BY <2>f, <2>3, <3>3
  <2>4. "cancelled" \notin recent \cup {mainStatus} /\ ~expired
    BY DEF Untaken
  <2> QED BY <1>2, <2>1, <2>2, <2>3, <2>4, GatewayIs
<1>3. CASE OutsideStep
  <2>1. ASSUME NEW h \in Handlers PROVE ~Crash(h)
    BY <1>e DEF Crash, Disturbances
  <2>2. ASSUME NEW c \in Channels, NEW status PROVE ~Receipt(c, status)
    BY <1>e DEF Receipt, Disturbances
  <2>3. CASE Around
    <3>1. UNCHANGED <<row, goal, pc, out>>
      BY <2>3, AroundKeeps
    <3>2. ~Pause /\ ~Cancel /\ ~MessageExpires /\ ~Resume /\ ~CacheExpires
      BY <1>e DEF Pause, Cancel, MessageExpires, Resume, CacheExpires, Disturbances, Untaken
    <3>3. ASSUME NEW c \in Channels PROVE ~RowGetsStale(c)
      <4> SUFFICES ASSUME RowGetsStale(c) PROVE FALSE
        OBVIOUS
      <4>1. \E h \in Handlers : pc[<<h, c>>] \in Holding
        BY DEF RowGetsStale, Untaken
      <4>2. slow < MaxSlow
        BY <4>1 DEF RowGetsStale, SpendTime
      <4> QED BY <1>t, <4>2 DEF Undisturbed
    <3>4. UNCHANGED <<mainStatus, recent, expired, rowStale>>
      BY <2>3, <3>2, <3>3 DEF Around, ApiStep, TimeStep, EntryIdles, EntryAges, RedisLoss, Trim, vars, mainVars, rowVars
    <3> QED BY <3>1, <3>4 DEF Untaken
  <2> QED BY <1>3, <2>1, <2>2, <2>3, OutsideIs
<1> QED BY <1>1, <1>2, <1>3, UntakenSendStep, StepIs

(* Copies of a message that are handled at the same time, in any number and  *)
(* by any number of pushers, are not sent twice, whether or not the dedup    *)
(* keys survive: the first row inserted decides, and the others find it.     *)
THEOREM CopiesSentOnce == ASSUME Undisturbed PROVE Spec => []SentOnce
<1>1. Init => Untaken /\ InOrder /\ KnownInv
  BY UntakenInit, InOrderInit, KnownInit
<1>2. TypeOK /\ Untaken /\ InOrder /\ KnownInv /\ [Next]_vars => (Untaken /\ InOrder /\ KnownInv)'
  BY UntakenStep, UntakenHolds, InOrderStep, KnownStep
<1>3. KnownInv => SentOnce
  BY DEF KnownInv
<1> QED BY <1>1, <1>2, <1>3, DeliveryTyping, PTL DEF Spec
-----------------------------------------------------------------------------
(* The promise: what a row shows, or a handler holds, is known.              *)
ShownInv == Shown \subseteq known /\ \A t \in Sends : HasAnswer(t) => t[2] \in known

PromiseStep == [Promise!Next]_(Promise!vars)
Keeps == ShownInv' /\ PromiseStep

LEMMA QuietKeeps ==
  ASSUME ShownInv, Cancelled' = Cancelled, Shown' = Shown, UNCHANGED <<known, reached>>,
         \A t \in Sends : pc'[t] = "send" <=> pc[t] = "send",
         \A t \in Sends : HasAnswer(t)' => HasAnswer(t)
  PROVE  Keeps
<1>1. Asking' = Asking
  BY DEF Asking
<1>2. UNCHANGED Promise!vars
  BY <1>1 DEF Promise!vars
<1>3. ShownInv'
  BY DEF ShownInv
<1> QED BY <1>2, <1>3 DEF Keeps, PromiseStep

LEMMA GatewayKeepsPromise ==
  ASSUME TypeOK, InOrder, ShownInv, NEW h \in Handlers, GatewayStep(h) PROVE Keeps
<1>t. pc \in [Sends -> SendPcs]
  BY DEF TypeOK, SendTypeOK
<1>0. Cancelled' = Cancelled /\ Shown' = Shown /\ UNCHANGED <<known, reached>>
  BY GatewayKeeps DEF Cancelled, Shown
<1>f. ASSUME \A t \in Sends : \/ pc'[t] = pc[t] /\ out'[t] = out[t]
                              \/ pc[t] \in {"off", "done"} /\ pc'[t] \in {"off", "claim", "dedup", "pregate"}
      PROVE  Keeps
  <2>1. \A t \in Sends : pc'[t] = "send" <=> pc[t] = "send"
    BY <1>f
  <2>2. \A t \in Sends : HasAnswer(t)' => HasAnswer(t)
    BY <1>f DEF HasAnswer
  <2> QED BY <1>0, <2>1, <2>2, QuietKeeps
<1>1. ASSUME NEW what, NEW cs, NEW l \in {"claim", "dedup"}, Begin(h, what, cs, l),
             \A c \in Channels : pc[<<h, c>>] = "off"
      PROVE  Keeps
  <2>1. /\ out' = out
        /\ \A t \in Sends : t[1] # h => pc'[t] = pc[t]
        /\ \A t \in Sends : t[1] = h => pc[t] = "off" /\ pc'[t] \in {"off", "claim", "dedup"}
    BY <1>1, SendsAre, SendIsPair DEF Begin
  <2> QED BY <1>f, <2>1
<1>2. ASSUME NEW result \in Stages, Returns(h, result), \A c \in Channels : pc[<<h, c>>] \in {"off", "done"}
      PROVE  Keeps
  <2>1. /\ \A t \in Sends : t[1] # h => pc'[t] = pc[t] /\ out'[t] = out[t]
        /\ \A t \in Sends : t[1] = h => pc[t] \in {"off", "done"} /\ pc'[t] = "off"
    BY <1>2, SendsAre, SendIsPair DEF Returns
  <2> QED BY <1>f, <2>1
<1>3. ASSUME NEW c \in Channels, NEW l \in {"pregate", "claim"},
             pc' = [pc EXCEPT ![<<h, c + 1>>] = l], UNCHANGED out,
             \A d \in Channels : pc[<<h, d>>] # "off" => d <= c /\ pc[<<h, d>>] = "done"
      PROVE  Keeps
  <2>1. \A t \in Sends : t # <<h, c + 1>> => pc'[t] = pc[t]
    BY <1>t, <1>3
  <2>2. <<h, c + 1>> \in Sends => pc[<<h, c + 1>>] \in {"off", "done"} /\ pc'[<<h, c + 1>>] = l
    <3>1. <<h, c + 1>> \in Sends => c + 1 \in Channels
      BY DEF Sends
    <3> QED BY <1>t, <1>3, <3>1
  <2> QED BY <1>f, <1>3, <2>1, <2>2
<1> QED BY <1>1, <1>2, <1>3, GatewayIs

LEMMA SendKeepsPromise ==
  ASSUME TypeOK, KnownInv, OneHolder, ShownInv, NEW t \in Sends, SendStep(t) \/ DbError(t) \/ RedisError(t)
  PROVE  Keeps
<1>t. pc \in [Sends -> SendPcs] /\ out \in [Sends -> Outcomes] /\ row \in [Channels -> RowStatus]
      /\ t[1] \in Handlers /\ t[2] \in Channels /\ t = <<t[1], t[2]>>
  BY SendsAre, SendIsPair DEF TypeOK, SendTypeOK, RowTypeOK
<1>m. mainStatus' = mainStatus /\ Cancelled' = Cancelled
  BY SendKeeps DEF Cancelled
<1>u. \A u \in Sends : u # t => pc'[u] = pc[u] /\ out'[u] = out[u]
  BY SendKeeps
<1>h. \A u \in Sends : u # t => (HasAnswer(u)' <=> HasAnswer(u))
  BY <1>u DEF HasAnswer
<1>s. UNCHANGED row => Shown' = Shown
  BY DEF Shown
<1>q. ASSUME Shown' = Shown, UNCHANGED <<known, reached>>, pc[t] # "send", pc'[t] # "send", HasAnswer(t)' => HasAnswer(t)
      PROVE  Keeps
  <2>1. \A u \in Sends : (pc'[u] = "send" <=> pc[u] = "send") /\ (HasAnswer(u)' => HasAnswer(u))
    BY <1>u, <1>h, <1>q
  <2> QED BY <1>m, <1>q, <2>1, QuietKeeps
<1>n. pc[t] \in Holding => row[t[2]] = "sending" /\ t[2] \notin Shown
  BY DEF KnownInv, Shown, DeliveredOK
<1>1. CASE Pregate(t) \/ Dedup(t) \/ Check(t) \/ MarkDelivered(t) \/ RedisError(t) \/ ReadRecord(t)
  <2>1. UNCHANGED <<row, known, reached>>
    BY <1>1 DEF Pregate, Dedup, Check, MarkDelivered, RedisError, ReadRecord, rowVars, vendorVars
  <2>2. pc[t] # "send" /\ pc'[t] # "send" /\ (HasAnswer(t)' => HasAnswer(t))
    BY <1>t, <1>1 DEF Pregate, Dedup, Check, MarkDelivered, RedisError, ReadRecord, Goto, Decide, AfterRecord, HasAnswer
  <2> QED BY <1>q, <1>s, <2>1, <2>2
<1>2. CASE ClaimDelivery(t) \/ TakeRow(t)
  <2>1. UNCHANGED <<known, reached>> /\ pc[t] \in {"claim", "take"}
    BY <1>2 DEF ClaimDelivery, TakeRow, vendorVars
  <2>2. Shown' = Shown
    <3>1. UNCHANGED row \/ (row' = [row EXCEPT ![t[2]] = "sending"] /\ row[t[2]] \notin DeliveredOK)
      BY <1>2 DEF ClaimDelivery, TakeRow, SetRow, rowVars, DeliveredOK
    <3>2. ASSUME row' = [row EXCEPT ![t[2]] = "sending"], row[t[2]] \notin DeliveredOK
          PROVE  \A c \in Channels : row'[c] \in DeliveredOK <=> row[c] \in DeliveredOK
      BY <1>t, <3>2 DEF DeliveredOK
    <3> QED BY <1>s, <3>1, <3>2 DEF Shown
  <2>3. pc'[t] # "send" /\ ~HasAnswer(t)'
    BY <1>t, <1>2 DEF ClaimDelivery, TakeRow, Claimed, Duplicate, Goto, Decide, HasAnswer
  <2> QED BY <1>q, <2>1, <2>2, <2>3
<1>3. CASE Gate(t)
  <2>1. UNCHANGED <<row, known, reached>> /\ pc[t] = "gate" /\ Shown' = Shown
    BY <1>3, <1>s DEF Gate, rowVars, vendorVars
  <2>2. CASE mainStatus = "running"
    <3>1. pc'[t] = "send" /\ out' = out /\ ~Cancelled
      BY <1>t, <1>3, <2>2 DEF Gate, Goto, Cancelled
    <3>2. t[2] \notin known
      BY <1>n, <2>1, HolderKnows DEF Holding, HasAnswer, DeliveredOK
    <3>3. \A g \in Handlers : <<g, t[2]>> \notin Asking
      <4> SUFFICES ASSUME NEW g \in Handlers, <<g, t[2]>> \in Asking PROVE FALSE
        OBVIOUS
      <4>1. <<g, t[2]>> \in Sends /\ <<g, t[2]>>[2] = t[2] /\ pc[<<g, t[2]>>] = "send"
        BY DEF Asking
      <4>2. <<g, t[2]>> = t
        BY <2>1, <4>1 DEF OneHolder, Holding
      <4> QED BY <2>1, <4>1, <4>2
    <3>4. Asking' = Asking \cup {<<t[1], t[2]>>}
      BY <1>t, <1>u, <3>1 DEF Asking
    <3>5. Promise!Ask(t[1], t[2])
      BY <1>m, <2>1, <3>1, <3>2, <3>3, <3>4 DEF Promise!Ask
    <3>6. ShownInv'
      <4>1. ~HasAnswer(t)'
        BY <3>1 DEF HasAnswer
      <4> QED BY <1>h, <2>1, <4>1 DEF ShownInv
    <3> QED BY <1>t, <3>5, <3>6 DEF Keeps, PromiseStep, Promise!Next
  <2>3. CASE mainStatus # "running"
    <3>1. pc'[t] = "record" /\ out'[t] # "ok"
      BY <1>t, <1>3, <2>3 DEF Gate, Decide
    <3> QED BY <1>q, <2>1, <3>1 DEF HasAnswer
  <2> QED BY <2>2, <2>3
<1>4. CASE Send(t)
  <2>1. /\ UNCHANGED row /\ Shown' = Shown /\ pc[t] = "send" /\ pc'[t] = "record"
        /\ reached' = reached \cup {t[2]} /\ known' = known \cup {t[2]}
    BY <1>t, <1>4, <1>s DEF Send, Accepted, Decide, rowVars
  <2>2. <<t[1], t[2]>> \in Asking /\ Asking' = Asking \ {<<t[1], t[2]>>}
    BY <1>t, <1>u, <2>1 DEF Asking
  <2>3. Promise!Answer(t[1], t[2])
    BY <1>m, <2>1, <2>2 DEF Promise!Answer
  <2>4. ShownInv'
    BY <1>h, <2>1 DEF ShownInv
  <2> QED BY <1>t, <2>3, <2>4 DEF Keeps, PromiseStep, Promise!Next
<1>5. CASE SendFails(t)
  <2>1. /\ UNCHANGED <<row, known>> /\ Shown' = Shown /\ pc[t] = "send" /\ pc'[t] \in {"record", "gate"}
        /\ reached' \in {reached, reached \cup {t[2]}} /\ ~HasAnswer(t)'
    BY <1>t, <1>5, <1>s DEF SendFails, Accepted, Decide, rowVars, vendorVars, HasAnswer
  <2>2. <<t[1], t[2]>> \in Asking /\ Asking' = Asking \ {<<t[1], t[2]>>}
    BY <1>t, <1>u, <2>1 DEF Asking
  <2>3. Promise!NoAnswer(t[1], t[2])
    BY <1>m, <2>1, <2>2 DEF Promise!NoAnswer
  <2>4. ShownInv'
    BY <1>h, <2>1 DEF ShownInv
  <2> QED BY <1>t, <2>3, <2>4 DEF Keeps, PromiseStep, Promise!Next
<1>6. CASE WriteRecord(t)
  <2>1. /\ row' = [row EXCEPT ![t[2]] = RowFor(out[t])] /\ UNCHANGED <<known, reached, out>>
        /\ pc[t] = "write" /\ pc'[t] \in {"mark", "done"}
    BY <1>t, <1>6 DEF WriteRecord, SetRow, Goto, AfterRecord, vendorVars
  <2>2. t[2] \notin Shown /\ row[t[2]] = "sending" /\ ~HasAnswer(t)'
    BY <1>n, <2>1 DEF Holding, HasAnswer
  <2>3. CASE out[t] = "ok"
    <3>1. t[2] \in known
      BY <2>1, <2>3 DEF ShownInv, HasAnswer
    <3>2. Shown' = Shown \cup {t[2]}
      <4>1. row'[t[2]] = "sent" /\ \A c \in Channels : c # t[2] => row'[c] = row[c]
        BY <1>t, <2>1, <2>3 DEF RowFor
      <4> QED BY <1>t, <4>1 DEF Shown, DeliveredOK
    <3>3. Asking' = Asking
      BY <1>u, <2>1 DEF Asking
    <3>4. Promise!Show(t[2])
      BY <1>m, <2>1, <2>2, <3>1, <3>2, <3>3 DEF Promise!Show
    <3>5. ShownInv'
      BY <1>h, <2>1, <2>2, <3>1, <3>2 DEF ShownInv
    <3> QED BY <1>t, <3>4, <3>5 DEF Keeps, PromiseStep, Promise!Next
  <2>4. CASE out[t] # "ok"
    <3>1. RowFor(out[t]) \notin DeliveredOK
      BY <2>4 DEF RowFor, DeliveredOK
    <3>2. \A c \in Channels : row'[c] \in DeliveredOK <=> row[c] \in DeliveredOK
      BY <1>t, <2>1, <2>2, <3>1 DEF DeliveredOK
    <3>3. Shown' = Shown
      BY <3>2 DEF Shown
    <3> QED BY <1>q, <2>1, <2>2, <3>3
  <2> QED BY <2>3, <2>4
<1>7. CASE DbError(t)
  <2>1. /\ UNCHANGED <<row, reached>> /\ Shown' = Shown /\ pc[t] # "send" /\ pc'[t] # "send" /\ ~HasAnswer(t)'
        /\ known' = IF HasAnswer(t) THEN known \ {t[2]} ELSE known
    <3>1. UNCHANGED <<row, reached>> /\ pc[t] # "send" /\ known' = IF HasAnswer(t) THEN known \ {t[2]} ELSE known
      BY <1>7 DEF DbError, rowVars, HasAnswer
    <3>2. pc'[t] = "done" \/ (pc'[t] = "record" /\ out'[t] = "deferred")
      BY <1>t, <1>7 DEF DbError, Decide
    <3> QED BY <1>s, <3>1, <3>2 DEF HasAnswer
  <2>2. CASE HasAnswer(t)
    <3>1. t[2] \in known \ Shown
      BY <1>n, <2>2 DEF ShownInv, HasAnswer, Holding
    <3>2. Asking' = Asking
      BY <1>u, <2>1 DEF Asking
    <3>3. Promise!Lose(t[2])
      BY <1>m, <2>1, <2>2, <3>1, <3>2 DEF Promise!Lose
    <3>4. ASSUME NEW u \in Sends, HasAnswer(u)' PROVE u[2] \in known'
      <4>1. u # t /\ HasAnswer(u)
        BY <1>h, <2>1, <3>4
      <4>2. u[2] # t[2]
        BY <2>2, <4>1 DEF OneHolder, HasAnswer, Holding
      <4> QED BY <2>1, <4>1, <4>2 DEF ShownInv
    <3>5. Shown' \subseteq known'
      BY <2>1, <3>1 DEF ShownInv
    <3> QED BY <1>t, <3>3, <3>4, <3>5 DEF Keeps, ShownInv, PromiseStep, Promise!Next
  <2>3. CASE ~HasAnswer(t)
    BY <1>q, <2>1, <2>3
  <2> QED BY <2>2, <2>3
<1> QED BY <1>1, <1>2, <1>3, <1>4, <1>5, <1>6, <1>7 DEF SendStep

LEMMA OutsideKeepsPromise ==
  ASSUME TypeOK, KnownInv, OneHolder, ShownInv, OutsideStep PROVE Keeps
<1>t. pc \in [Sends -> SendPcs] /\ row \in [Channels -> RowStatus]
  BY DEF TypeOK, SendTypeOK, RowTypeOK
<1>1. CASE Around
  <2>1. UNCHANGED <<row, pc, out, known, reached>>
    BY <1>1, AroundKeeps
  <2>2. Shown' = Shown /\ Asking' = Asking /\ \A t \in Sends : HasAnswer(t)' <=> HasAnswer(t)
    BY <2>1 DEF Shown, Asking, HasAnswer
  <2>3. CASE Cancelled' = Cancelled
    BY <2>1, <2>2, <2>3, QuietKeeps
  <2>4. CASE Cancelled' # Cancelled
    <3>1. Cancelled => Cancelled'
      BY <1>1 DEF Around, ApiStep, Pause, Resume, Cancel, SetMain, TimeStep, CacheExpires, MessageExpires, EntryIdles,
         EntryAges, RowGetsStale, RedisLoss, Trim, vars, mainVars, Cancelled
    <3>2. Cancelled' = TRUE
      BY <2>4, <3>1 DEF Cancelled
    <3>3. Promise!Cancel
      BY <2>1, <2>2, <3>2 DEF Promise!Cancel
    <3>4. ShownInv'
      BY <2>1, <2>2 DEF ShownInv
    <3> QED BY <3>3, <3>4 DEF Keeps, PromiseStep, Promise!Next
  <2> QED BY <2>3, <2>4
<1>2. ASSUME NEW h \in Handlers, Crash(h) PROVE Keeps
  <2>1. /\ UNCHANGED <<row, reached, mainStatus>> /\ Shown' = Shown /\ Cancelled' = Cancelled
        /\ \A t \in Sends : t[1] # h => pc'[t] = pc[t] /\ out'[t] = out[t]
        /\ \A t \in Sends : t[1] = h => pc'[t] = "off"
    BY <1>2 DEF Crash, rowVars, mainVars, Shown, Cancelled
  <2> DEFINE lost == {c \in Channels : HasAnswer(<<h, c>>)}
  <2>2. known' = known \ lost
    BY <1>2 DEF Crash, HasAnswer
  <2>3. lost \subseteq known \ Shown
    <3> SUFFICES ASSUME NEW c \in lost PROVE c \in known \ Shown
      OBVIOUS
    <3>1. <<h, c>> \in Sends /\ <<h, c>>[2] = c /\ HasAnswer(<<h, c>>)
      BY SendsOfHandler
    <3>2. c \in known
      BY <3>1 DEF ShownInv
    <3>3. row[c] = "sending"
      BY <3>1 DEF KnownInv, HasAnswer, Holding
    <3> QED BY <3>2, <3>3 DEF Shown, DeliveredOK
  <2>4. Asking' = Asking \ ({h} \X Channels)
    <3>1. ASSUME NEW t \in Sends PROVE t \in {h} \X Channels <=> t[1] = h
      BY SendsAre, SendIsPair
    <3> QED BY <2>1, <3>1 DEF Asking
  <2>5. Promise!Stop(h)
    <3> HIDE DEF lost
    <3> QED BY <2>1, <2>2, <2>3, <2>4 DEF Promise!Stop
  <2>6. ASSUME NEW t \in Sends, HasAnswer(t)' PROVE t[2] \in known'
    <3>1. t[1] # h /\ HasAnswer(t)
      BY <2>1, <2>6 DEF HasAnswer
    <3>2. t[2] \notin lost
      <4> SUFFICES ASSUME t[2] \in lost PROVE FALSE
        OBVIOUS
      <4>1. <<h, t[2]>> \in Sends /\ <<h, t[2]>>[2] = t[2] /\ <<h, t[2]>>[1] = h /\ HasAnswer(<<h, t[2]>>)
        BY SendsOfHandler
      <4>2. <<h, t[2]>> = t
        BY <3>1, <4>1 DEF OneHolder, HasAnswer, Holding
      <4> QED BY <3>1, <4>1, <4>2
    <3> QED BY <2>2, <3>1, <3>2 DEF ShownInv
  <2>7. Shown' \subseteq known'
    BY <2>1, <2>2, <2>3 DEF ShownInv
  <2> QED BY <2>5, <2>6, <2>7 DEF Keeps, ShownInv, PromiseStep, Promise!Next
<1>3. ASSUME NEW c \in Channels, NEW status \in DeliveredOK \cup {"failed"}, Receipt(c, status) PROVE Keeps
  <2>1. /\ UNCHANGED <<pc, out, reached, mainStatus>> /\ row[c] \in DeliveredOK /\ row' = [row EXCEPT ![c] = status]
        /\ known' = IF status = "failed" THEN known \ {c} ELSE known
    BY <1>3 DEF Receipt, sendVars, SetRow, mainVars
  <2>2. /\ Cancelled' = Cancelled /\ Asking' = Asking /\ c \in Shown
        /\ \A t \in Sends : (pc'[t] = "send" <=> pc[t] = "send") /\ (HasAnswer(t)' <=> HasAnswer(t))
    BY <2>1 DEF Cancelled, Asking, Shown, HasAnswer
  <2>3. row'[c] = status /\ \A d \in Channels : d # c => row'[d] = row[d]
    BY <1>t, <2>1
  <2>4. CASE status = "failed"
    <3>1. Shown' = Shown \ {c}
      BY <2>3, <2>4 DEF Shown, DeliveredOK
    <3>2. Promise!Withdraw(c)
      BY <2>1, <2>2, <2>4, <3>1 DEF Promise!Withdraw
    <3>3. \A t \in Sends : HasAnswer(t) => t[2] # c
      BY <2>1 DEF KnownInv, HasAnswer, Holding, DeliveredOK
    <3>4. ShownInv'
      BY <2>1, <2>2, <2>4, <3>1, <3>3 DEF ShownInv
    <3> QED BY <3>2, <3>4 DEF Keeps, PromiseStep, Promise!Next
  <2>5. CASE status # "failed"
    <3>1. Shown' = Shown
      BY <2>1, <2>3, <2>5 DEF Shown
    <3> QED BY <2>1, <2>2, <2>5, <3>1, QuietKeeps
  <2> QED BY <2>4, <2>5
<1> QED BY <1>1, <1>2, <1>3, OutsideIs

LEMMA StepKeepsPromise ==
  ASSUME TypeOK, InOrder, KnownInv, OneHolder, ShownInv, [Next]_vars PROVE Keeps
<1>1. ASSUME NEW h \in Handlers, QueueStep(h) PROVE Keeps
  BY <1>1, QueueKeeps, QuietKeeps DEF Cancelled, Shown, HasAnswer
<1> QED BY <1>1, GatewayKeepsPromise, SendKeepsPromise, OutsideKeepsPromise, StepIs

LEMMA PromiseInit == Init => ShownInv /\ Promise!Init
<1> SUFFICES ASSUME Init PROVE ShownInv /\ Promise!Init
  OBVIOUS
<1>1. Shown = {} /\ Asking = {} /\ ~Cancelled /\ reached = {} /\ known = {}
  BY DEF Init, Shown, Asking, Cancelled, DeliveredOK
<1>2. \A t \in Sends : ~HasAnswer(t)
  BY DEF Init, HasAnswer
<1> QED BY <1>1, <1>2 DEF ShownInv, Promise!Init, Cancelled

Alone == (OneCopy => OneWorker) /\ (Undisturbed => Untaken)

(* The gateway keeps the promise of DeliveryPromise, for one copy under every *)
(* disturbance short of a time limit that passes, and for any number of       *)
(* copies and handlers under deferrals, a Redis that fails and trimming: no   *)
(* channel's vendor has two calls at a time, a call after a cancellation or a *)
(* call while an acceptance is known, and a delivered row is taken back by    *)
(* the vendor only.                                                           *)
THEOREM KeepsPromise == ASSUME OneCopy \/ Undisturbed PROVE Spec => ImplementsPromise
<1>1. Init => Promise!Init /\ ShownInv /\ InOrder /\ KnownInv /\ Alone
  BY PromiseInit, InOrderInit, KnownInit, OneWorkerInit, UntakenInit DEF Alone
<1>2. TypeOK /\ ShownInv /\ InOrder /\ KnownInv /\ Alone /\ [Next]_vars
        => ShownInv' /\ InOrder' /\ KnownInv' /\ Alone' /\ [Promise!Next]_(Promise!vars)
  <2> SUFFICES ASSUME TypeOK, ShownInv, InOrder, KnownInv, Alone, [Next]_vars
               PROVE  ShownInv' /\ InOrder' /\ KnownInv' /\ Alone' /\ [Promise!Next]_(Promise!vars)
    OBVIOUS
  <2>1. OneHolder
    BY OneWorkerHolds, UntakenHolds DEF Alone
  <2>2. Keeps
    BY <2>1, StepKeepsPromise
  <2>3. InOrder' /\ KnownInv'
    BY <2>1, InOrderStep, KnownStep
  <2>4. Alone'
    BY OneWorkerStep, UntakenStep DEF Alone
  <2> QED BY <2>2, <2>3, <2>4 DEF Keeps, PromiseStep
<1> QED BY <1>1, <1>2, DeliveryTyping, PTL DEF Spec, ImplementsPromise, Promise!Spec
=============================================================================
