-------------------------- MODULE DeliveryPromise --------------------------
(***************************************************************************)
(* What the push gateway promises about one message and each channel it    *)
(* may go to (internal/push/gateway.go; README: sends are deduplicated by  *)
(* campaign, user and channel): one handler at a time asks a vendor, not   *)
(* after a cancellation and not while the vendor is known to have accepted *)
(* the message; the row says delivered only on such knowledge, and then it *)
(* is not lost any more: only the vendor takes its acceptance back.        *)
(***************************************************************************)
CONSTANTS Handlers, Channels

VARIABLES
  cancelled,  \* is the campaign cancelled?
  calls,      \* vendor calls under way: handler and channel
  accepted,   \* channels whose vendor has accepted the message
  known,      \* ... and whose acceptance a handler holds or a row shows
  shown       \* channels whose row says delivered

vars == <<cancelled, calls, accepted, known, shown>>

Init == cancelled = FALSE /\ calls = {} /\ accepted = {} /\ known = {} /\ shown = {}

Ask(h, c) ==
  /\ ~cancelled /\ c \notin known /\ \A g \in Handlers : <<g, c>> \notin calls
  /\ calls' = calls \cup {<<h, c>>}
  /\ UNCHANGED <<cancelled, accepted, known, shown>>

Answer(h, c) ==
  /\ <<h, c>> \in calls /\ calls' = calls \ {<<h, c>>}
  /\ accepted' = accepted \cup {c} /\ known' = known \cup {c}
  /\ UNCHANGED <<cancelled, shown>>

(* A refusal, or a time limit: accepted or not, nobody knows *)
NoAnswer(h, c) ==
  /\ <<h, c>> \in calls /\ calls' = calls \ {<<h, c>>}
  /\ accepted' \in {accepted, accepted \cup {c}}
  /\ UNCHANGED <<cancelled, known, shown>>

Show(c) ==
  /\ c \in known \ shown /\ shown' = shown \cup {c}
  /\ UNCHANGED <<cancelled, calls, accepted, known>>

(* The row could not be written. *)
Lose(c) ==
  /\ c \in known \ shown /\ known' = known \ {c}
  /\ UNCHANGED <<cancelled, calls, accepted, shown>>

(* A handler stops, in calls and with answers it has not written. *)
Stop(h) ==
  /\ calls' = calls \ ({h} \X Channels)
  /\ \E lost \in SUBSET (known \ shown) : known' = known \ lost
  /\ UNCHANGED <<cancelled, accepted, shown>>

(* The vendor reports a failure after all. *)
Withdraw(c) ==
  /\ c \in shown /\ shown' = shown \ {c} /\ known' = known \ {c}
  /\ UNCHANGED <<cancelled, calls, accepted>>

Cancel == cancelled' = TRUE /\ UNCHANGED <<calls, accepted, known, shown>>

Next ==
  \/ \E h \in Handlers, c \in Channels : Ask(h, c) \/ Answer(h, c) \/ NoAnswer(h, c)
  \/ \E c \in Channels : Show(c) \/ Lose(c) \/ Withdraw(c)
  \/ \E h \in Handlers : Stop(h)
  \/ Cancel

Spec == Init /\ [][Next]_vars
=============================================================================
