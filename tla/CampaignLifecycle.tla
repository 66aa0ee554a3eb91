------------------------- MODULE CampaignLifecycle -------------------------
(***************************************************************************)
(* What the scheduler, the reaper and the API promise together about one   *)
(* campaign that is split (README, status semantics): shards report their  *)
(* results one by one, the campaign is paused, resumed and cancelled as a  *)
(* whole, and it is closed once, when every shard has reported.            *)
(***************************************************************************)
CONSTANT Subs

VARIABLES
  status,   \* main_tasks.status
  results   \* the shards that have a result

vars == <<status, results>>

Verdicts == {"success", "partial", "failed"}

Init == status = "running" /\ results = {}

Report(s) == results' = results \cup {s} /\ UNCHANGED status

Pause  == status = "running" /\ status' = "paused" /\ UNCHANGED results
Resume == status = "paused" /\ status' = "running" /\ UNCHANGED results
Cancel == status \in {"running", "paused"} /\ status' = "cancelled" /\ UNCHANGED results

Close == /\ status = "running" /\ results = Subs
         /\ status' \in Verdicts
         /\ UNCHANGED results

Next == (\E s \in Subs : Report(s)) \/ Pause \/ Resume \/ Cancel \/ Close

Spec == Init /\ [][Next]_vars
=============================================================================
