----------------------------- MODULE MCServices -----------------------------
(***************************************************************************)
(* The services beside the pipeline, each on a small instance.  They share *)
(* no state, so they are not interleaved: the initial state chooses the    *)
(* service that runs, the others stay as they begin.                       *)
(***************************************************************************)
EXTENDS TemplateCenter, SegmentAssets, SuppressionList, PreferenceCenter, CampaignAdmin,
        AccessControl, UserSessions, ChannelLimits, FrequencyWindows, NotifyStream,
        AuthSeed, ExportJobs, TraceRecorder, TLC

CONSTANTS c1, c2, v1, v2  \* requests or processes, and values

VARIABLE service  \* the service that runs

AllVars == <<service, templateVars, segmentVars, suppressionVars, preferenceVars, adminVars,
             accessVars, sessionVars, limitVars, frequencyVars, notifyVars,
             seedVars, exportVars, traceVars>>

MCInit ==
  /\ service \in {"template", "segment", "suppression", "preference", "admin", "access",
                  "sessions", "limits", "frequency", "notify", "seed", "exports", "trace"}
  /\ TemplateInit /\ SegmentInit /\ SuppressionInit /\ PreferenceInit /\ AdminInit
  /\ AccessInit /\ SessionsInit /\ LimitsInit /\ FrequencyInit /\ NotifyInit
  /\ SeedInit /\ ExportInit /\ TraceInit
  /\ admAvail = AdmHint
  /\ service # "seed" => sedPerm = {}

Rest(runs) ==
  /\ service = runs /\ UNCHANGED service
  /\ runs # "template"    => UNCHANGED templateVars
  /\ runs # "segment"     => UNCHANGED segmentVars
  /\ runs # "suppression" => UNCHANGED suppressionVars
  /\ runs # "preference"  => UNCHANGED preferenceVars
  /\ runs # "admin"       => UNCHANGED adminVars
  /\ runs # "access"      => UNCHANGED accessVars
  /\ runs # "sessions"    => UNCHANGED sessionVars
  /\ runs # "limits"      => UNCHANGED limitVars
  /\ runs # "frequency"   => UNCHANGED frequencyVars
  /\ runs # "notify"      => UNCHANGED notifyVars
  /\ runs # "seed"        => UNCHANGED seedVars
  /\ runs # "exports"     => UNCHANGED exportVars
  /\ runs # "trace"       => UNCHANGED traceVars

MCNext ==
  \/ Rest("template")    /\ TemplateNext
  \/ Rest("segment")     /\ SegmentNext
  \/ Rest("suppression") /\ SuppressionNext
  \/ Rest("preference")  /\ PreferenceNext
  \/ Rest("admin")       /\ AdminNext
  \/ Rest("access")      /\ AccessNext
  \/ Rest("sessions")    /\ SessionsNext
  \/ Rest("limits")      /\ LimitsNext
  \/ Rest("frequency")   /\ FrequencyNext
  \/ Rest("notify")      /\ NotifyNext
  \/ Rest("seed")        /\ SeedNext
  \/ Rest("exports")     /\ ExportNext
  \/ Rest("trace")       /\ TraceNext

MCSpec == MCInit /\ [][MCNext]_AllVars

(* Values that are records or functions.                                   *)
MCPages  == [exclude |-> 2, count |-> 1]
MCUsers  == [exclude |-> 1, count |-> 2]
MCRates  == [global |-> 2, high |-> 4]
MCBursts == [global |-> 2, high |-> 4]
MCFrqLimit  == [topic |-> 1, channel |-> 2, total |-> 0]
MCFrqWindow == [topic |-> 2, channel |-> 3, total |-> 1]
MCSedCatalog  == <<"menu.overview", "segment.manage">>
MCSedDefs     == [admin |-> {"menu.overview", "segment.manage"}, viewer |-> {"menu.overview"}]
MCSedAccounts == [root |-> "admin", guest |-> "viewer"]

Symm == Permutations({c1, c2}) \cup Permutations({v1, v2})
=============================================================================
