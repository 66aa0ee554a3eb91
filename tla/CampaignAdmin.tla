---------------------------- MODULE CampaignAdmin ----------------------------
(***************************************************************************)
(* How one biz_id gets its campaign, and a draft its last form: Create,    *)
(* Copy, UpdateDraft and Publish of internal/app/campaign, each a read or  *)
(* two and then one unguarded write, while templates are disabled, quota   *)
(* comes and goes, and the published campaign runs.  What Create compares  *)
(* of a request (scene, title, template, audience, channels, mode) is one  *)
(* member of AdmDigests; its segments are already resolved into it.        *)
(***************************************************************************)
EXTENDS Naturals

CONSTANTS
  AdmDigests,   \* what a request asks for, as far as Create compares it
  AdmCallers,   \* requests in flight at one time
  AdmNone,      \* no row, no request
  AdmHint,      \* audience size hint of a request; 0: none
  AdmAvailable, \* values of Limiter.AvailableQPS, as users within the target time
  MaxAdmCalls   \* bound: requests that begin

VARIABLES
  admTask,     \* the row of main_tasks with the biz_id: status, digest
  admCall,     \* each request: its step, what it asks, what it knows
  admUsable,   \* is the template approved?
  admAvail,    \* the quota left on an enforced channel
  admAnswers,  \* history: the answers of Create
  admEdited,   \* history: has the row come to differ from the request that made it?
  admRaced,    \* history: was the draft published with a request in flight that had read it?
  admCalls     \* counter for the bound

adminVars ==
  <<admTask, admCall, admUsable, admAvail, admAnswers, admEdited, admRaced, admCalls>>

AdmTerminal == {"success", "cancelled"}
AdmRows == [status : {"draft", "pending", "running"} \cup AdmTerminal, digest : AdmDigests]

ASSUME AdmAssumption == AdmNone \notin AdmRows

AdmIdle == [step |-> "idle", digest |-> AdmNone, draft |-> FALSE, queue |-> FALSE, after |-> FALSE]

AdminInit ==
  /\ admTask = AdmNone /\ admUsable = TRUE /\ admAvail \in AdmAvailable
  /\ admCall = [c \in AdmCallers |-> AdmIdle]
  /\ admAnswers = {} /\ admEdited = FALSE /\ admRaced = FALSE /\ admCalls = 0

AdmBegin(c, call) ==
  /\ admCall[c] = AdmIdle /\ admCalls < MaxAdmCalls /\ admCalls' = admCalls + 1
  /\ admCall' = [admCall EXCEPT ![c] = call]

AdmGoto(c, step) ==
  /\ admCall' = [admCall EXCEPT ![c].step = step]
  /\ UNCHANGED admAnswers

AdmEnd(c) ==
  /\ admCall' = [admCall EXCEPT ![c] = AdmIdle]
  /\ UNCHANGED admAnswers

(* Create ends with the task or with an error the request has deserved.    *)
Answer(c, ok) ==
  /\ admCall' = [admCall EXCEPT ![c] = AdmIdle]
  /\ admAnswers' = admAnswers \cup
       {[digest |-> admCall[c].digest, after |-> admCall[c].after, ok |-> ok]}

(* Mutant: a known biz_id is answered whatever the request asks.           *)
MatchesAny(call) == TRUE

Matches(call) == admTask.digest = call.digest   \* campaignRequestMatches

AdmCreate(c, digest, draft, queue) ==
  /\ AdmBegin(c, [step |-> "lookup", digest |-> digest, draft |-> draft, queue |-> queue,
        after |-> [digest |-> digest, after |-> FALSE, ok |-> TRUE] \in admAnswers])
  /\ UNCHANGED <<admTask, admUsable, admAvail, admAnswers, admEdited, admRaced>>

(* GetMainTaskByBizID comes before the template and the quota are checked; *)
(* segments and webhook target are checked before it, with the request.    *)
AdmLookup(c) ==
  /\ admCall[c].step = "lookup"
  /\ IF admTask = AdmNone THEN AdmGoto(c, "template") ELSE Answer(c, Matches(admCall[c]))
  /\ UNCHANGED <<admTask, admUsable, admAvail, admEdited, admRaced, admCalls>>

AdmTemplate(c) ==
  /\ admCall[c].step = "template"
  /\ IF ~admUsable THEN Answer(c, FALSE)
     ELSE AdmGoto(c, IF admCall[c].draft THEN "insert" ELSE "quota")
  /\ UNCHANGED <<admTask, admUsable, admAvail, admEdited, admRaced, admCalls>>

(* checkQuotaAdmission; no hint, or a channel without a limit, passes.     *)
QuotaRefuses(call) == ~call.queue /\ AdmHint > 0 /\ admAvail > 0 /\ AdmHint > admAvail

AdmQuota(c) ==
  /\ admCall[c].step = "quota"
  /\ IF QuotaRefuses(admCall[c]) THEN Answer(c, FALSE) ELSE AdmGoto(c, "insert")
  /\ UNCHANGED <<admTask, admUsable, admAvail, admEdited, admRaced, admCalls>>

(* CreateMainTask: the unique biz_id lets one insertion through; the       *)
(* others look the row up again.                                           *)
AdmInsert(c) ==
  LET call == admCall[c] IN
  /\ call.step = "insert"
  /\ \/ /\ admTask = AdmNone
        /\ admTask' = [status |-> IF call.draft THEN "draft" ELSE "pending",
                       digest |-> call.digest]
        /\ Answer(c, TRUE)
     \/ admTask # AdmNone /\ AdmGoto(c, "again") /\ UNCHANGED admTask
  /\ UNCHANGED <<admUsable, admAvail, admEdited, admRaced, admCalls>>

AdmAgain(c) ==
  /\ admCall[c].step = "again"
  /\ Answer(c, Matches(admCall[c]))
  /\ UNCHANGED <<admTask, admUsable, admAvail, admEdited, admRaced, admCalls>>

(* Copy of another campaign under this biz_id: no look-up, no template, no *)
(* quota; a taken biz_id is a conflict and changes nothing.                *)
AdmCopy(digest, draft) ==
  /\ admTask = AdmNone /\ admCalls < MaxAdmCalls /\ admCalls' = admCalls + 1
  /\ admTask' = [status |-> IF draft THEN "draft" ELSE "pending", digest |-> digest]
  /\ admEdited' = TRUE
  /\ UNCHANGED <<admCall, admUsable, admAvail, admAnswers, admRaced>>

(* Mutant: the row is found, its status not looked at.                     *)
AnyTask == admTask # AdmNone

Draft == admTask # AdmNone /\ admTask.status = "draft"

(* UpdateDraft and Publish read a draft, check, and write by id alone; an  *)
(* edit that names no template keeps the one the draft has.                *)
AdmUpdateDraft(c, digest, template) ==
  /\ Draft
  /\ template => admUsable
  /\ AdmBegin(c, [AdmIdle EXCEPT !.step = "edit", !.digest = digest])
  /\ UNCHANGED <<admTask, admUsable, admAvail, admAnswers, admEdited, admRaced>>

AdmPublish(c) ==
  /\ Draft
  /\ AdmBegin(c, [AdmIdle EXCEPT !.step = "publish"])
  /\ UNCHANGED <<admTask, admUsable, admAvail, admAnswers, admEdited, admRaced>>

AdmWriteDraft(c) ==
  /\ admCall[c].step = "edit"
  /\ admTask' = [admTask EXCEPT !.digest = admCall[c].digest]
  /\ admEdited' = TRUE
  /\ AdmEnd(c)
  /\ UNCHANGED <<admUsable, admAvail, admRaced, admCalls>>

AdmWritePublished(c) ==
  /\ admCall[c].step = "publish"
  /\ admTask' = [admTask EXCEPT !.status = "pending"]
  /\ admRaced' = (admRaced \/ \E d \in AdmCallers \ {c} : admCall[d].step \in {"edit", "publish"})
  /\ AdmEnd(c)
  /\ UNCHANGED <<admUsable, admAvail, admEdited, admCalls>>

(* What goes on around the requests: review, traffic, the scheduler and    *)
(* Cancel.                                                                 *)
AdmTemplateReviewed ==
  /\ admUsable' = ~admUsable
  /\ UNCHANGED <<admTask, admCall, admAvail, admAnswers, admEdited, admRaced, admCalls>>

AdmQuotaChanges ==
  /\ admAvail' \in AdmAvailable \ {admAvail}
  /\ UNCHANGED <<admTask, admCall, admUsable, admAnswers, admEdited, admRaced, admCalls>>

AdmProceeds ==
  /\ admTask # AdmNone
  /\ \E status \in CASE admTask.status = "pending" -> {"running", "cancelled"}
                     [] admTask.status = "running" -> {"success", "cancelled"}
                     [] OTHER -> {} :
       admTask' = [admTask EXCEPT !.status = status]
  /\ UNCHANGED <<admCall, admUsable, admAvail, admAnswers, admEdited, admRaced, admCalls>>

AdminNext ==
  \/ \E c \in AdmCallers :
       \/ \E digest \in AdmDigests, draft, queue \in BOOLEAN : AdmCreate(c, digest, draft, queue)
       \/ \E digest \in AdmDigests, template \in BOOLEAN : AdmUpdateDraft(c, digest, template)
       \/ AdmPublish(c)
       \/ AdmLookup(c) \/ AdmTemplate(c) \/ AdmQuota(c) \/ AdmInsert(c) \/ AdmAgain(c)
       \/ AdmWriteDraft(c) \/ AdmWritePublished(c)
  \/ \E digest \in AdmDigests, draft \in BOOLEAN : AdmCopy(digest, draft)
  \/ AdmTemplateReviewed \/ AdmQuotaChanges \/ AdmProceeds

-----------------------------------------------------------------------------
AdminSpec == AdminInit /\ [][AdminNext]_adminVars

(* Create is idempotent: of several requests with one biz_id, in whatever  *)
(* order their look-ups and insertions fall, only those that ask for the   *)
(* same campaign get it, the others a conflict; and a request repeated     *)
(* after it succeeded succeeds again, though the template has been         *)
(* disabled or the quota used up since.  Editing the draft ends both.      *)
CreateIdempotent ==
  ~admEdited => \A a \in admAnswers :
    /\ a.ok => admTask # AdmNone /\ a.digest = admTask.digest
    /\ a.after => a.ok

(* Once published, a campaign keeps its form, does not become a draft or   *)
(* pending again, and its end stays, unless a request that had read the    *)
(* draft was still in flight when it was published.                        *)
PublishedIsSettled ==
  [][admTask # AdmNone /\ admTask.status # "draft" /\ ~admRaced =>
       /\ admTask'.digest = admTask.digest
       /\ admTask.status \in AdmTerminal => admTask'.status = admTask.status
       /\ admTask'.status \in {"draft", "pending"} => admTask.status = "pending"]_adminVars
=============================================================================
