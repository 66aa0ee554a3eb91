---- MODULE MCRetry ----
EXTENDS CampaignRetry, TLC
CONSTANTS s1, s2, r1, q1, q2

(* Two calls; a call with a reaper; database errors; a cancellation. *)
TwoCalls  == [rows |-> {s1}, present |-> {q1, q2}, calls |-> 2]
WithReaper == [rows |-> {s1, s2}, present |-> {q1, r1}, calls |-> 1]
WithErrors == [rows |-> {s1}, present |-> {q1, r1, "dbError"}, calls |-> 1]
WithCancel == [rows |-> {s1}, present |-> {q1, q2, "cancel"}, calls |-> 1]
AllSettings == {TwoCalls, WithReaper, WithErrors, WithCancel}
====
