--------------------------- MODULE TemplateCenter ---------------------------
(***************************************************************************)
(* The template centre (internal/app/template/service.go over              *)
(* adapter/repo/template.go) and its use by the campaign service.  One     *)
(* template row goes through review; every handler reads the row, checks   *)
(* its status, and writes all columns back with UPDATE .. WHERE version =  *)
(* expected, so several requests interleave between a read and a write.    *)
(* Update, Approve and Rollback then save a snapshot of the revision they  *)
(* wrote, in a statement of its own whose error is dropped.  A campaign    *)
(* copies the body of a usable template when it is created.  Title, body   *)
(* and channel contents together are one member of TplContents.            *)
(***************************************************************************)
EXTENDS Naturals

CONSTANTS
  TplCallers,    \* requests in flight at one time
  TplContents,   \* what a template may say
  TplNone,       \* no row, no request, no expected version
  MaxTplVersion, \* bound: successful writes of the row
  MaxTplRevision \* bound: writes that make a new revision

ASSUME TemplateAssumption == TplNone \notin Nat \cup TplContents

TplStatus == {"draft", "pending_review", "approved", "rejected", "disabled"}

VARIABLES
  tplRow,       \* the row of push_templates, or TplNone
  tplVersions,  \* template_versions: the snapshots
  tplCall,      \* what each request in flight has read and is about to write
  tplBorn,      \* history: has the row been inserted?
  tplReviewed   \* history: the contents a reviewer approved after seeing them

templateVars == <<tplRow, tplVersions, tplCall, tplBorn, tplReviewed>>

Editable(s)  == s \in {"draft", "rejected"}
CanSubmit(s) == s \in {"draft", "rejected"}
CanReview(s) == s = "pending_review"
Usable(s)    == s = "approved"

(* The statuses each handler accepts, and the one it writes.               *)
TplAllowed ==
  [update  |-> {s \in TplStatus : Editable(s)},
   delete  |-> {"draft", "rejected"},
   submit  |-> {s \in TplStatus : CanSubmit(s)},
   approve |-> {s \in TplStatus : CanReview(s)},
   reject  |-> {s \in TplStatus : CanReview(s)},
   disable |-> {"approved"},
   enable  |-> {"disabled"},
   rollback |-> TplStatus,
   code    |-> TplStatus]

TplOps == DOMAIN TplAllowed

TplWrites(op, row) ==
  CASE op = "submit"   -> "pending_review"
    [] op = "enable"   -> "pending_review"
    [] op = "approve"  -> "approved"
    [] op = "reject"   -> "rejected"
    [] op = "disable"  -> "disabled"
    [] op = "rollback" -> "draft"
    [] OTHER           -> row.status

Snapshots == {"update", "approve", "rollback"}  \* the handlers that call saveSnapshot

TplIdle == [op |-> TplNone, row |-> TplNone, expected |-> TplNone, saw |-> TplNone,
            step |-> "idle"]

TemplateInit ==
  /\ tplRow = TplNone /\ tplVersions = {} /\ tplBorn = FALSE
  /\ tplCall = [c \in TplCallers |-> TplIdle]
  /\ tplReviewed = {}

(* Create inserts a draft; without a code the row gets a temporary one and *)
(* the same request goes on to write tpl_<id> with the version it inserted.*)
TplCreate(c, content, given) ==
  LET row == [status |-> "draft", version |-> 0, revision |-> 0,
              content |-> content, code |-> IF given THEN "given" ELSE "tmp"]
  IN /\ tplRow = TplNone /\ ~tplBorn /\ tplCall[c] = TplIdle
     /\ tplRow' = row /\ tplBorn' = TRUE
     /\ tplCall' = IF given THEN tplCall ELSE
          [tplCall EXCEPT ![c] = [op |-> "code", row |-> [row EXCEPT !.code = "final"],
                                  expected |-> TplNone, step |-> "write",
                                  saw |-> TplNone]]
     /\ UNCHANGED <<tplVersions, tplReviewed>>

(* Get: the page an editor or a reviewer looks at before he decides.       *)
TplShow(c) ==
  /\ tplRow # TplNone /\ tplCall[c] = TplIdle
  /\ tplCall' = [tplCall EXCEPT ![c] = [TplIdle EXCEPT !.row = tplRow, !.step = "shown"]]
  /\ UNCHANGED <<tplRow, tplVersions, tplBorn, tplReviewed>>

(* The handler reads the row again, checks its status and changes fields;  *)
(* the request may carry the version its sender looked at.                 *)
TplBegin(c, op, content, named) ==
  LET row == tplRow  shown == tplCall[c].row IN
  /\ row # TplNone /\ tplCall[c].step = "shown"
  /\ op # "code" /\ row.status \in TplAllowed[op]
  /\ named => op \in {"update", "approve", "reject", "rollback"}
  /\ op = "rollback" => \E v \in tplVersions : v.content = content  \* GetVersion
  /\ op \notin {"update", "rollback"} => content = row.content
  /\ tplCall' = [tplCall EXCEPT ![c] =
       [op |-> op, expected |-> IF named THEN shown.version ELSE TplNone, step |-> "write",
        saw |-> IF op = "approve" /\ named THEN shown.content ELSE TplNone,
        row |-> [row EXCEPT !.status = TplWrites(op, row), !.content = content,
                   !.revision = IF op \in Snapshots THEN @ + 1 ELSE @]]]
  /\ UNCHANGED <<tplRow, tplVersions, tplBorn, tplReviewed>>

(* Mutant: the version the request names is not looked at.                 *)
ExpectedVersionRead(call) == call.row.version

(* Service.updateCAS: the expected version is the request's, when it has   *)
(* one, else the version the handler read.                                 *)
ExpectedVersion(call) ==
  IF call.expected # TplNone THEN call.expected ELSE call.row.version

(* Mutant: UPDATE without its WHERE version = expected.                    *)
UpdateByCode(call) == tplRow # TplNone

UpdateCAS(call) == tplRow # TplNone /\ tplRow.version = ExpectedVersion(call)

TplWrite(c) ==
  LET call == tplCall[c]
      row  == [call.row EXCEPT !.version = ExpectedVersion(call) + 1]
  IN /\ call.step = "write" /\ call.op # "delete" /\ UpdateCAS(call)
     /\ row.version <= MaxTplVersion /\ row.revision <= MaxTplRevision
     /\ tplRow' = row
     /\ tplCall' = [tplCall EXCEPT ![c] =
          IF call.op \in Snapshots THEN [call EXCEPT !.row = row, !.step = "snapshot"]
          ELSE TplIdle]
     /\ tplReviewed' = IF call.op = "approve"
          THEN tplReviewed \cup {IF call.saw = TplNone THEN row.content ELSE call.saw}
          ELSE tplReviewed
     /\ UNCHANGED <<tplVersions, tplBorn>>

(* Another write came first: the request ends with a conflict.             *)
TplConflict(c) ==
  /\ tplCall[c].step = "write" /\ tplCall[c].op # "delete" /\ ~UpdateCAS(tplCall[c])
  /\ tplCall' = [tplCall EXCEPT ![c] = TplIdle]
  /\ UNCHANGED <<tplRow, tplVersions, tplBorn, tplReviewed>>

(* Service.saveSnapshot; the request succeeds when it fails as well.       *)
TplSnapshot(c) ==
  LET call == tplCall[c] IN
  /\ call.step = "snapshot"
  /\ \/ tplVersions' = tplVersions \cup
          {[revision |-> call.row.revision, content |-> call.row.content]}
     \/ UNCHANGED tplVersions
  /\ tplCall' = [tplCall EXCEPT ![c] = TplIdle]
  /\ UNCHANGED <<tplRow, tplBorn, tplReviewed>>

(* Delete removes the row by id alone, whatever happened since the check.  *)
TplDelete(c) ==
  /\ tplCall[c].step = "write" /\ tplCall[c].op = "delete"
  /\ tplRow' = TplNone
  /\ tplCall' = [tplCall EXCEPT ![c] = TplIdle]
  /\ UNCHANGED <<tplVersions, tplBorn, tplReviewed>>

TemplateNext ==
  \/ \E c \in TplCallers, content \in TplContents :
       \/ \E given \in BOOLEAN : TplCreate(c, content, given)
       \/ \E op \in TplOps, named \in BOOLEAN : TplBegin(c, op, content, named)
  \/ \E c \in TplCallers :
       TplShow(c) \/ TplWrite(c) \/ TplConflict(c) \/ TplSnapshot(c) \/ TplDelete(c)

TemplateSpec == TemplateInit /\ [][TemplateNext]_templateVars

-----------------------------------------------------------------------------
(* A revision names one content for ever: the row at that revision, its    *)
(* snapshot, and every snapshot with its number say the same, whatever     *)
(* edits, approvals and rollbacks interleave, so a rollback restores what  *)
(* the revision was.                                                       *)
SnapshotsMatch ==
  \A v \in tplVersions :
    /\ tplRow # TplNone /\ tplRow.revision = v.revision => tplRow.content = v.content
    /\ \A w \in tplVersions : w.revision = v.revision => w.content = v.content

(* What a campaign may copy was approved, and where the reviewer names the *)
(* version he looked at, it is what that version said: no rejection, edit  *)
(* and second submission can slip between the look and the approval, and   *)
(* no way back to approved skips the review.                               *)
ContentWasReviewed ==
  tplRow # TplNone /\ Usable(tplRow.status) => tplRow.content \in tplReviewed
=============================================================================
