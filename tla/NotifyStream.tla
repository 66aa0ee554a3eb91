----------------------------- MODULE NotifyStream -----------------------------
(***************************************************************************)
(* The unread count of the console (internal/app/notify): a change of the  *)
(* notifications table is followed by a count, the count is published over *)
(* Redis, the API process broadcasts what it hears to the channels of its  *)
(* connected clients, and each client shows the last count it was sent.    *)
(***************************************************************************)
EXTENDS Integers, Sequences

CONSTANTS
  NtfCallers,   \* requests and scheduler calls in flight at one time
  NtfClients,   \* open streams
  NtfBuffer,    \* the capacity of a client's channel
  MaxNtfRows, MaxNtfFaults, MaxNtfReads  \* bounds: notifications, failing calls, changes to "read"

VARIABLES
  ntfUnread,   \* rows with read_at IS NULL
  ntfCall,     \* each call: its step, the count it read, has it been alone?
  ntfWire,     \* published and not yet broadcast by the listener
  ntfClient,   \* each stream: its step, its channel, what it shows
  ntfDoubt,    \* history: streams that may show something older (see Sure)
  ntfRows, ntfReads, ntfFaults  \* counters for the bounds

ntfApiVars == <<ntfUnread, ntfRows, ntfReads>>
notifyVars == <<ntfApiVars, ntfCall, ntfWire, ntfClient, ntfDoubt, ntfFaults>>

NtfIdle == [step |-> "idle", count |-> 0, alone |-> FALSE]
NtfOff  == [step |-> "off", chan |-> <<>>, shown |-> 0]

NotifyInit ==
  /\ ntfUnread = 0 /\ ntfWire = <<>> /\ ntfDoubt = {}
  /\ ntfCall = [c \in NtfCallers |-> NtfIdle]
  /\ ntfClient = [s \in NtfClients |-> NtfOff]
  /\ ntfRows = 0 /\ ntfReads = 0 /\ ntfFaults = 0

Others(c) == {d \in NtfCallers \ {c} : ntfCall[d] # NtfIdle}

(* The table is written; a call that overlaps another is not alone, and a  *)
(* stream that has counted and not subscribed yet will miss the event.     *)
NtfChange(c, unread) ==
  /\ ntfCall[c] = NtfIdle /\ ntfUnread' = unread
  /\ ntfCall' = [d \in NtfCallers |->
       IF d = c THEN [step |-> "count", count |-> 0, alone |-> Others(c) = {}]
       ELSE IF d \in Others(c) THEN [ntfCall[d] EXCEPT !.alone = FALSE] ELSE NtfIdle]
  /\ ntfDoubt' = ntfDoubt \cup {s \in NtfClients : ntfClient[s].step = "counted"}
  /\ UNCHANGED <<ntfWire, ntfClient, ntfFaults>>

NtfCreate(c) ==
  /\ ntfRows < MaxNtfRows /\ ntfRows' = ntfRows + 1
  /\ NtfChange(c, ntfUnread + 1)
  /\ UNCHANGED ntfReads

(* MarkRead and MarkAllRead publish when a row was changed.                *)
NtfMarkRead(c, n) ==
  /\ ntfReads < MaxNtfReads /\ ntfReads' = ntfReads + 1
  /\ n \in {1, ntfUnread} /\ n \in 1..ntfUnread
  /\ NtfChange(c, ntfUnread - n)
  /\ UNCHANGED ntfRows

(* Mutant: the count without WHERE read_at IS NULL.                        *)
AllRows(c) == ntfRows

(* publish: CountUnread, after the change.                                 *)
UnreadNow(c) == ntfUnread

NtfCount(c) ==
  /\ ntfCall[c].step = "count"
  /\ ntfCall' = [ntfCall EXCEPT ![c].step = "publish", ![c].count = UnreadNow(c)]
  /\ UNCHANGED <<ntfApiVars, ntfWire, ntfClient, ntfDoubt, ntfFaults>>

(* A failing count is logged, and 0 is published.                          *)
NtfCountFails(c) ==
  /\ ntfFaults < MaxNtfFaults /\ ntfFaults' = ntfFaults + 1
  /\ ntfCall[c].step = "count"
  /\ ntfCall' = [ntfCall EXCEPT ![c] = [step |-> "publish", count |-> 0, alone |-> FALSE]]
  /\ UNCHANGED <<ntfApiVars, ntfWire, ntfClient, ntfDoubt>>

Event(call) == [count |-> call.count, sure |-> call.alone]

NtfPublish(c) ==
  /\ ntfCall[c].step = "publish"
  /\ ntfWire' = Append(ntfWire, Event(ntfCall[c]))
  /\ ntfCall' = [ntfCall EXCEPT ![c] = NtfIdle]
  /\ UNCHANGED <<ntfApiVars, ntfClient, ntfDoubt, ntfFaults>>

(* Broadcast: to every subscribed channel that has room; a slow client     *)
(* misses the event.  An event of a call that was alone, and that overtook *)
(* no other, tells the client the truth again.                             *)
Open(s) == ntfClient[s].step = "on"
Room(s) == Len(ntfClient[s].chan) < NtfBuffer

Broadcast(evt, sure) ==
  LET told == {s \in NtfClients : Open(s) /\ Room(s)} IN
  /\ ntfClient' = [s \in NtfClients |->
       IF s \in told THEN [ntfClient[s] EXCEPT !.chan = Append(@, evt.count)] ELSE ntfClient[s]]
  /\ ntfDoubt' = IF sure THEN (ntfDoubt \ told) \cup {s \in NtfClients \ told : Open(s)}
                 ELSE ntfDoubt \cup {s \in NtfClients : ntfClient[s].step # "off"}

NtfListen ==
  /\ ntfWire # <<>>
  /\ Broadcast(Head(ntfWire), Head(ntfWire).sure)
  /\ ntfWire' = Tail(ntfWire)
  /\ UNCHANGED <<ntfApiVars, ntfCall, ntfFaults>>

(* Redis fails: the API broadcasts to its own streams, ahead of what is    *)
(* still on the wire; the scheduler has no hub and the event is lost.      *)
NtfPublishFails(c, local) ==
  LET call == ntfCall[c] IN
  /\ ntfFaults < MaxNtfFaults /\ ntfFaults' = ntfFaults + 1
  /\ call.step = "publish"
  /\ IF local THEN Broadcast(Event(call), call.alone /\ ntfWire = <<>>)
     ELSE ntfDoubt' = {s \in NtfClients : ntfClient[s].step # "off"} /\ UNCHANGED ntfClient
  /\ ntfWire' = [i \in DOMAIN ntfWire |-> [ntfWire[i] EXCEPT !.sure = FALSE]]
  /\ ntfCall' = [ntfCall EXCEPT ![c] = NtfIdle]
  /\ UNCHANGED ntfApiVars

Quiet == ntfWire = <<>> /\ \A c \in NtfCallers : ntfCall[c] = NtfIdle

(* Stream: the count is sent first, then the channel is subscribed; calls  *)
(* and events under way then were counted by nobody.                       *)
NtfConnect(s) ==
  /\ ntfClient[s].step = "off"
  /\ ntfClient' = [ntfClient EXCEPT ![s] = [step |-> "counted", chan |-> <<>>, shown |-> ntfUnread]]
  /\ ntfDoubt' = IF Quiet THEN ntfDoubt \ {s} ELSE ntfDoubt \cup {s}
  /\ UNCHANGED <<ntfApiVars, ntfCall, ntfWire, ntfFaults>>

(* A failing count writes nothing, and the stream is subscribed all the same. *)
NtfConnectUncounted(s) ==
  /\ ntfFaults < MaxNtfFaults /\ ntfFaults' = ntfFaults + 1
  /\ ntfClient[s].step = "off"
  /\ ntfClient' = [ntfClient EXCEPT ![s].step = "counted"]
  /\ ntfDoubt' = ntfDoubt \cup {s}
  /\ UNCHANGED <<ntfApiVars, ntfCall, ntfWire>>

NtfSubscribe(s) ==
  /\ ntfClient[s].step = "counted"
  /\ ntfClient' = [ntfClient EXCEPT ![s].step = "on"]
  /\ UNCHANGED <<ntfApiVars, ntfCall, ntfWire, ntfDoubt, ntfFaults>>

NtfShow(s) ==
  /\ Open(s) /\ ntfClient[s].chan # <<>>
  /\ ntfClient' = [ntfClient EXCEPT ![s].shown = Head(ntfClient[s].chan), ![s].chan = Tail(@)]
  /\ UNCHANGED <<ntfApiVars, ntfCall, ntfWire, ntfDoubt, ntfFaults>>

(* cancel takes the channel out of the map before it closes it.            *)
NtfDisconnect(s) ==
  /\ ntfClient[s].step # "off"
  /\ ntfClient' = [ntfClient EXCEPT ![s] = NtfOff]
  /\ ntfDoubt' = ntfDoubt \ {s}
  /\ UNCHANGED <<ntfApiVars, ntfCall, ntfWire, ntfFaults>>

NotifyNext ==
  \/ \E c \in NtfCallers :
       \/ NtfCreate(c) \/ NtfCount(c) \/ NtfCountFails(c) \/ NtfPublish(c)
       \/ \E n \in 1..MaxNtfRows : NtfMarkRead(c, n)
       \/ \E local \in BOOLEAN : NtfPublishFails(c, local)
  \/ \E s \in NtfClients :
       \/ NtfConnect(s) \/ NtfConnectUncounted(s) \/ NtfSubscribe(s) \/ NtfShow(s) \/ NtfDisconnect(s)
  \/ NtfListen

NotifySpec == NotifyInit /\ [][NotifyNext]_notifyVars

-----------------------------------------------------------------------------
(* Once everything published has arrived, a stream that read its channel   *)
(* shows the number of unread rows: unless changes overlapped, Redis or    *)
(* the count failed, it was too slow, or it connected during a change; the *)
(* next change alone puts that right.                                      *)
UnreadShown ==
  Quiet => \A s \in NtfClients \ ntfDoubt :
             Open(s) /\ ntfClient[s].chan = <<>> => ntfClient[s].shown = ntfUnread
=============================================================================
