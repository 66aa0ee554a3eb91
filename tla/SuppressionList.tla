--------------------------- MODULE SuppressionList ---------------------------
(***************************************************************************)
(* The suppression lists (internal/app/segment/suppression.go): the table  *)
(* is the authority, the Redis sets are what the send path asks.  A change *)
(* writes the table, then the set; an error of Redis is reported and not   *)
(* rolled back.  A rebuild walks the table in batches and adds what it     *)
(* read to the sets; it removes nothing.  An entry stands for one (kind,   *)
(* user, channel): the blacklist uses the channel that means all channels. *)
(***************************************************************************)
EXTENDS Naturals, FiniteSets

CONSTANTS
  SupEntries,   \* (kind, user_id, channel) triples
  SupCallers,   \* requests in flight at one time
  SupBatch,     \* suppressionIterBatch: rows a rebuild loads at once
  MaxSupFaults  \* bound: failing Redis calls, crashes, losses of the sets

VARIABLES
  supDb,      \* the rows of the table
  supRedis,   \* the members of the sets
  supCall,    \* each request: what it does, with which entries, what is still to do
  supDoubt,   \* history: entries whose set may differ from the table (see SupBegun)
  supFaults   \* counter for the bound

suppressionVars == <<supDb, supRedis, supCall, supDoubt, supFaults>>

SupIdle == [op |-> "idle", entries |-> {}, todo |-> {}, seen |-> {}, batch |-> {}, clean |-> {}]

SuppressionInit ==
  /\ supDb = {} /\ supRedis = {} /\ supDoubt = {} /\ supFaults = 0
  /\ supCall = [c \in SupCallers |-> SupIdle]

Busy(d) == supCall[d].entries

(* A request begins: entries another request is working on are in doubt    *)
(* from then on, whoever finishes last.  A row inserted again gets a new   *)
(* id, which a rebuild has not seen.                                       *)
SupBegun(c, op, entries, todo) ==
  LET shared == entries \cap UNION {Busy(d) : d \in SupCallers \ {c}} IN
  /\ supDoubt' = supDoubt \cup shared
  /\ supCall' = [d \in SupCallers |->
       IF d = c THEN [SupIdle EXCEPT !.op = op, !.entries = entries, !.todo = todo,
                                     !.clean = entries \ shared]
       ELSE [supCall[d] EXCEPT !.clean = @ \ shared, !.seen = @ \ (todo \ supDb)]]

(* AddSuppressions: BulkAdd skips the rows that exist.                     *)
SupAdd(c, entries) ==
  /\ supCall[c] = SupIdle /\ entries # {}
  /\ supDb' = supDb \cup entries
  /\ SupBegun(c, "add", entries, entries)
  /\ UNCHANGED <<supRedis, supFaults>>

(* Mutant: the set is written only when a row was removed.                 *)
SyncIfRemoved(entry) == IF entry \in supDb THEN {entry} ELSE {}

(* The set is written even when the row was not there: a second request    *)
(* repairs a set whose first update failed.                                *)
NeedsSync(entry) == {entry}

SupRemove(c, entry) ==
  /\ supCall[c] = SupIdle
  /\ supDb' = supDb \ {entry}
  /\ SupBegun(c, "remove", {entry}, NeedsSync(entry))
  /\ UNCHANGED <<supRedis, supFaults>>

(* RebuildSuppressionCache: from now on every row is being worked on.      *)
SupRebuild(c) ==
  /\ supCall[c] = SupIdle
  /\ SupBegun(c, "rebuild", SupEntries, supDb)
  /\ UNCHANGED <<supDb, supRedis, supFaults>>

(* IterAll loads the next batch, and adds it to the sets; a row deleted in *)
(* between is added all the same.                                          *)
SupLoad(c, batch) ==
  /\ supCall[c].op = "rebuild"
  /\ batch # {} /\ batch \subseteq supDb \ supCall[c].seen /\ Cardinality(batch) <= SupBatch
  /\ supCall' = [supCall EXCEPT ![c].op = "batch", ![c].batch = batch, ![c].seen = @ \cup batch]
  /\ UNCHANGED <<supDb, supRedis, supDoubt, supFaults>>

SupBatchAdded(c) ==
  /\ supCall[c].op = "batch"
  /\ supRedis' = supRedis \cup supCall[c].batch
  /\ supCall' = [supCall EXCEPT ![c].op = "rebuild", ![c].batch = {}]
  /\ UNCHANGED <<supDb, supDoubt, supFaults>>

Synced(c) ==
  /\ supCall' = [supCall EXCEPT ![c] = SupIdle]
  /\ supDoubt' = supDoubt \ supCall[c].clean

(* store.AddBlacklist .. RemoveUnsubscribe: one pipeline, one command.     *)
SupSync(c) ==
  /\ supCall[c].op \in {"add", "remove"}
  /\ supRedis' = IF supCall[c].op = "add" THEN supRedis \cup supCall[c].todo
                 ELSE supRedis \ supCall[c].todo
  /\ Synced(c)
  /\ UNCHANGED <<supDb, supFaults>>

(* A rebuild that went through vouches for the rows it found, and for      *)
(* nothing that is in a set alone.                                         *)
SupRebuilt(c) ==
  /\ supCall[c].op = "rebuild" /\ supCall[c].todo \cap supDb \subseteq supCall[c].seen
  /\ supCall' = [supCall EXCEPT ![c] = SupIdle]
  /\ supDoubt' = supDoubt \ (supCall[c].clean \cap supDb)
  /\ UNCHANGED <<supDb, supRedis, supFaults>>

(* Redis fails or the process dies: the request ends, the table keeps what *)
(* it wrote, and part of the pipeline may have been executed.              *)
SupFails(c, executed) ==
  /\ supFaults < MaxSupFaults /\ supFaults' = supFaults + 1
  /\ supCall[c] # SupIdle
  /\ LET call == supCall[c] IN
     /\ executed \subseteq CASE call.op = "batch" -> call.batch
                             [] call.op = "rebuild" -> {}
                             [] OTHER -> call.todo
     /\ supRedis' = IF call.op = "remove" THEN supRedis \ executed ELSE supRedis \cup executed
  /\ supDoubt' = supDoubt \cup supCall[c].entries
  /\ supCall' = [supCall EXCEPT ![c] = SupIdle]
  /\ UNCHANGED supDb

SupRedisLoss ==
  /\ supFaults < MaxSupFaults /\ supFaults' = supFaults + 1
  /\ supRedis' = {} /\ supDoubt' = SupEntries
  /\ supCall' = [c \in SupCallers |-> [supCall[c] EXCEPT !.clean = {}]]
  /\ UNCHANGED supDb

SuppressionNext ==
  \/ \E c \in SupCallers :
       \/ \E entries \in SUBSET SupEntries : SupAdd(c, entries) \/ SupLoad(c, entries)
       \/ \E entry \in SupEntries : SupRemove(c, entry)
       \/ SupRebuild(c) \/ SupBatchAdded(c) \/ SupSync(c) \/ SupRebuilt(c)
       \/ \E executed \in SUBSET SupEntries : SupFails(c, executed)
  \/ SupRedisLoss

-----------------------------------------------------------------------------
SuppressionSpec == SuppressionInit /\ [][SuppressionNext]_suppressionVars

(* The send path asks what the table says, for every entry nobody is       *)
(* working on, unless Redis failed or two requests overlapped on it and no *)
(* later request went through alone: AddSuppressions and RemoveSuppression *)
(* repair by being repeated, a rebuild repairs the rows that are there.    *)
SuppressionSynced ==
  \A e \in SupEntries \ (supDoubt \cup UNION {Busy(c) : c \in SupCallers}) :
    e \in supRedis <=> e \in supDb
=============================================================================
