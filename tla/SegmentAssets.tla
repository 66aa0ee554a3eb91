---------------------------- MODULE SegmentAssets ----------------------------
(***************************************************************************)
(* An audience segment (internal/app/segment, adapter/repo/segment and     *)
(* segment_member, adapter/audience/static): its row with a cached member  *)
(* count, its member table in id order, the requests that create, import,  *)
(* clear, refresh, update and delete it statement by statement, the        *)
(* campaigns that come to refer to it, and the walk over its pages by      *)
(* which a splitter expands an exclusion list and a refresh counts.        *)
(***************************************************************************)
EXTENDS Naturals, SequencesExt

CONSTANTS
  SegUsers,     \* users a list can name
  SegCallers,   \* requests in flight at one time
  SegPageSize,  \* resolvePageSize
  SegMaxPages,  \* per kind of walk: maxExcludePages, maxRefreshPages
  SegMaxUsers,  \* per kind of walk: maxExcludeUsers, maxRefreshUsers
  MaxSegCalls   \* bound: requests that begin

ASSUME SegmentAssumption == IsFiniteSet(SegUsers) /\ SegPageSize \in Nat \ {0}

VARIABLES
  segRow,      \* the row of audience_segments: there?, active?, member_count
  segMembers,  \* audience_segment_members of this code, by id
  segRefs,     \* the columns of main_tasks that name this code
  segCall,     \* each request: its step and what it read
  segDoubt,    \* history: requests overlapped or died, and none alone has counted since
  segWalk,     \* the walk: page, offset, total, users found; at the end, users missed
  segCalls     \* counter for the bound

segmentVars ==
  <<segRow, segMembers, segRefs, segCall, segDoubt, segWalk, segCalls>>

SegIdle == [op |-> "idle", step |-> "idle", users |-> {}, count |-> 0, alone |-> FALSE]
NoWalk  == [step |-> "idle", kind |-> "exclude", pageNo |-> 0, offset |-> 0, total |-> 0,
            out |-> {}, missed |-> {}, partial |-> FALSE, disturbed |-> FALSE]

SegmentInit ==
  /\ segRow = [exists |-> FALSE, active |-> FALSE, count |-> 0]
  /\ segMembers = <<>> /\ segRefs = {} /\ segDoubt = FALSE
  /\ segCall = [c \in SegCallers |-> SegIdle] /\ segWalk = NoWalk /\ segCalls = 0

(* A request has passed mustGet and its checks; from now on it overlaps    *)
(* the others in flight.                                                   *)
SegBegin(c, op, step, users) ==
  LET others == {d \in SegCallers \ {c} : segCall[d] # SegIdle} IN
  /\ segCall[c] = SegIdle
  /\ segCalls < MaxSegCalls /\ segCalls' = segCalls + 1
  /\ segCall' = [d \in SegCallers |->
       IF d = c THEN [op |-> op, step |-> step, users |-> users, count |-> 0,
                      alone |-> others = {}]
       ELSE IF d \in others THEN [segCall[d] EXCEPT !.alone = FALSE] ELSE SegIdle]
  /\ segDoubt' = (segDoubt \/ others # {})
  /\ UNCHANGED <<segRow, segMembers, segRefs, segWalk>>

(* CreateSegment: looked up, then inserted; a second insertion of the code *)
(* fails on the unique key, like the look-up, and changes nothing.         *)
SegCreate ==
  /\ ~segRow.exists
  /\ segRow' = [exists |-> TRUE, active |-> TRUE, count |-> 0]
  /\ UNCHANGED <<segMembers, segRefs, segCall, segDoubt, segWalk, segCalls>>

SegUpdate ==
  /\ segRow.exists
  /\ segRow' = [segRow EXCEPT !.active = ~@]
  /\ UNCHANGED <<segMembers, segRefs, segCall, segDoubt, segWalk, segCalls>>

(* CountCampaignRefs: as target or as exclusion list.                      *)
CampaignRefs == segRefs \cap {"segment_code", "exclude_segment_code"}

SegStart(c) ==
  /\ segRow.exists
  /\ \/ \E users \in SUBSET SegUsers \ {{}}, step \in {"wipe", "upsert"} :  \* replace, append
          SegBegin(c, "import", step, users)
     \/ SegBegin(c, "clear", "wipe", {})
     \/ SegBegin(c, "refresh", "count", {})
     \/ CampaignRefs = {} /\ SegBegin(c, "delete", "wipe", {})
     \/ segRow.active /\ SegBegin(c, "refer", "insert", {})  \* applySegments

SetMembers(members) ==
  /\ segMembers' = members
  /\ segWalk' = [segWalk EXCEPT !.disturbed = @ \/ members # segMembers]

(* DeleteBySegment, of an import that replaces, a clearing or a deletion.  *)
SegWipe(c) ==
  /\ segCall[c].step = "wipe"
  /\ SetMembers(<<>>)
  /\ segCall' = [segCall EXCEPT ![c].step =
       CASE segCall[c].op = "import" -> "upsert"
         [] segCall[c].op = "clear"  -> "count"
         [] segCall[c].op = "delete" -> "drop"]
  /\ UNCHANGED <<segRow, segRefs, segDoubt, segCalls>>

(* BulkUpsert: known users keep their place, new ones get the next ids.    *)
SegUpsert(c) ==
  /\ segCall[c].step = "upsert"
  /\ \E new \in SetToSeqs(segCall[c].users \ ToSet(segMembers)) : SetMembers(segMembers \o new)
  /\ segCall' = [segCall EXCEPT ![c].step = "count"]
  /\ UNCHANGED <<segRow, segRefs, segDoubt, segCalls>>

(* Mutant: the rows an import wrote instead of a count of the table.       *)
CountedRows(call) == IF call.op = "import" THEN Cardinality(call.users) ELSE Len(segMembers)

(* syncStaticMemberCount and the static branch of RefreshSegment: Count,   *)
(* then the UPDATE of the row, which fails when the row is gone.           *)
CountedBy(call) == Len(segMembers)

SegCount(c) ==
  /\ segCall[c].step = "count"
  /\ segCall' = [segCall EXCEPT ![c].step = "update", ![c].count = CountedBy(segCall[c])]
  /\ UNCHANGED <<segRow, segMembers, segRefs, segDoubt, segWalk, segCalls>>

SegEnd(c, doubt) ==
  /\ segCall' = [segCall EXCEPT ![c] = SegIdle]
  /\ segDoubt' = doubt
  /\ UNCHANGED <<segMembers, segWalk, segCalls>>

SegUpdateCount(c) ==
  /\ segCall[c].step = "update"
  /\ segRow' = IF segRow.exists THEN [segRow EXCEPT !.count = segCall[c].count] ELSE segRow
  /\ SegEnd(c, segDoubt /\ ~segCall[c].alone)
  /\ UNCHANGED segRefs

SegDrop(c) ==
  /\ segCall[c].step = "drop"
  /\ segRow' = [exists |-> FALSE, active |-> FALSE, count |-> 0]
  /\ SegEnd(c, segDoubt /\ ~segCall[c].alone)
  /\ UNCHANGED segRefs

(* The campaign that names the segment is inserted.                        *)
SegReferred(c, column) ==
  /\ segCall[c].step = "insert"
  /\ segRefs' = segRefs \cup {column}
  /\ SegEnd(c, segDoubt)
  /\ UNCHANGED segRow

(* A statement fails, or the process dies between two of them.             *)
SegFails(c) ==
  /\ segCall[c] # SegIdle
  /\ SegEnd(c, TRUE)
  /\ UNCHANGED <<segRow, segRefs>>

(* ResolveExcludeUserIDs of an active segment; countMembers.               *)
SegWalkStart(kind) ==
  /\ segWalk.step = "idle" /\ segRow.exists
  /\ kind = "exclude" => segRow.active
  /\ segWalk' = [NoWalk EXCEPT !.step = "count", !.kind = kind]
  /\ UNCHANGED <<segRow, segMembers, segRefs, segCall, segDoubt, segCalls>>

(* partial: the expansion returns an error, the count is called estimated. *)
Finished(walk, partial) ==
  [NoWalk EXCEPT !.step = "done", !.partial = partial, !.disturbed = walk.disturbed,
     !.missed = ToSet(segMembers) \ walk.out]

(* Mutant: the walk stops at its last page as if there were no more.       *)
CutAtLastPage(walk) == Finished(walk, FALSE)

TooManyPages(walk) == Finished(walk, TRUE)
TooManyUsers(walk) ==
  IF walk.kind = "exclude" THEN Cardinality(walk.out) > SegMaxUsers[walk.kind]
  ELSE Cardinality(walk.out) >= SegMaxUsers[walk.kind]

(* StaticProvider.Resolve counts the members, then lists one page.         *)
SegWalkCount ==
  /\ segWalk.step = "count"
  /\ segWalk' = IF segWalk.pageNo >= SegMaxPages[segWalk.kind] THEN TooManyPages(segWalk)
                ELSE IF segWalk.offset >= Len(segMembers) THEN Finished(segWalk, FALSE)
                ELSE [segWalk EXCEPT !.step = "list", !.total = Len(segMembers)]
  /\ UNCHANGED <<segRow, segMembers, segRefs, segCall, segDoubt, segCalls>>

SegWalkList ==
  LET last == Min({segWalk.offset + SegPageSize, Len(segMembers)})
      rows == SubSeq(segMembers, segWalk.offset + 1, last)
      next == [segWalk EXCEPT !.step = "count", !.pageNo = @ + 1,
                 !.offset = @ + Len(rows), !.out = @ \cup ToSet(rows)]
  IN /\ segWalk.step = "list"
     /\ segWalk' = IF TooManyUsers(next) THEN Finished(next, TRUE)
                   ELSE IF next.offset >= segWalk.total THEN Finished(next, FALSE) ELSE next
     /\ UNCHANGED <<segRow, segMembers, segRefs, segCall, segDoubt, segCalls>>

SegmentNext ==
  \/ SegCreate \/ SegUpdate
  \/ \E c \in SegCallers :
       \/ SegStart(c) \/ SegWipe(c) \/ SegUpsert(c) \/ SegCount(c) \/ SegUpdateCount(c)
       \/ SegDrop(c) \/ SegFails(c)
       \/ \E column \in {"segment_code", "exclude_segment_code"} : SegReferred(c, column)
  \/ \E kind \in {"exclude", "count"} : SegWalkStart(kind)
  \/ SegWalkCount \/ SegWalkList

SegmentSpec == SegmentInit /\ [][SegmentNext]_segmentVars

-----------------------------------------------------------------------------
(* Between requests the cached count is the number of members, and a       *)
(* deleted segment leaves no member behind for the next one of its code,   *)
(* unless requests overlapped or died; one that then runs alone to its end *)
(* puts it right.  The count is what the quota admission of a campaign     *)
(* goes by.                                                                *)
MembersCounted ==
  ~segDoubt /\ (\A c \in SegCallers : segCall[c].op \in {"idle", "refer"})
    => segRow.count = Len(segMembers)

(* An expansion that returns a list leaves nobody out, and a count that is *)
(* not called estimated is exact, however the pages fall and wherever the  *)
(* limits cut, as long as the members do not change under the walk.        *)
ExcludeComplete ==
  segWalk.step = "done" /\ ~segWalk.partial /\ ~segWalk.disturbed => segWalk.missed = {}
=============================================================================
