-------------------------- MODULE PreferenceCenter --------------------------
(***************************************************************************)
(* The preferences of one user (internal/app/preference): the service      *)
(* reads the row, changes the fields the request names, writes the whole   *)
(* row back, appends to the consent log what changed, and drops the row    *)
(* from the cache of its own process.  The send path asks Resolver, which  *)
(* keeps an answer, also "no row", until its ttl has passed.  A field is a *)
(* channel, a topic, marketing as a whole or the quiet hours: opted out or *)
(* not.  The cache is that of one process, and a request may run elsewhere.*)
(***************************************************************************)
EXTENDS Naturals

CONSTANTS
  PrefFields,    \* what a user can opt out of
  PrefCallers,   \* requests in flight at one time
  PrefReaders,   \* calls of Resolve in flight at one time
  PrefTTL,       \* Resolver.ttl, in ticks of the clock
  PrefNone,      \* no cache entry, nobody reading
  MaxPrefClock,  \* bound: ticks
  MaxPrefCalls,  \* bound: requests that begin
  MaxPrefFaults  \* bound: failing appends to the log

ASSUME PreferenceAssumption == PrefTTL \in Nat

VARIABLES
  prefRow,      \* user_preferences: the fields opted out of; no row opts out of nothing
  prefExists,   \* is there a row?
  prefConsent,  \* consent_logs: the fields whose latest entry says opt_out
  prefCall,     \* each request: its step, the row it will write, what it will log
  prefDoubt,    \* history: fields two requests overlapped on, or whose log entry failed
  prefCache,    \* the entry of the process, or PrefNone
  prefReader,   \* each Resolve: when it began and what it read
  prefClock,    \* time.Now
  prefLast,     \* history: when each set of fields was last what the row said
  prefCalls, prefFaults  \* counters for the bounds

prefApiVars == <<prefRow, prefExists, prefConsent, prefCall, prefDoubt, prefLast, prefCalls,
                 prefFaults>>
prefReadVars == <<prefCache, prefReader, prefClock>>
preferenceVars == <<prefApiVars, prefReadVars>>

PrefIdle == [step |-> "idle", next |-> {}, logs |-> {}, delete |-> FALSE, alone |-> FALSE]
Never == 0

PreferenceInit ==
  /\ prefRow = {} /\ prefExists = FALSE /\ prefConsent = {} /\ prefDoubt = {}
  /\ prefCall = [c \in PrefCallers |-> PrefIdle]
  /\ prefCache = PrefNone /\ prefReader = [r \in PrefReaders |-> PrefNone]
  /\ prefClock = 1 /\ prefCalls = 0 /\ prefFaults = 0
  /\ prefLast = [row \in SUBSET PrefFields |-> IF row = {} THEN 1 ELSE Never]

(* Mutant: the old row is the struct the request was applied to.           *)
diffAliased(old, new) == {}

(* diffConsent: the fields on which the old and the new row differ.        *)
diffConsent(old, new) == (old \ new) \cup (new \ old)

(* A request begins; while others are in flight, nobody is alone.          *)
PrefBegin(c, call) ==
  LET others == {d \in PrefCallers \ {c} : prefCall[d] # PrefIdle} IN
  /\ prefCall' = [d \in PrefCallers |->
       IF d = c THEN [call EXCEPT !.alone = (others = {})]
       ELSE IF d \in others THEN [prefCall[d] EXCEPT !.alone = FALSE] ELSE PrefIdle]
  /\ prefDoubt' = IF others = {} THEN prefDoubt ELSE PrefFields
  /\ prefCalls < MaxPrefCalls /\ prefCalls' = prefCalls + 1

(* Upsert up to its write: Get, applyInput on the fields that are not nil, *)
(* and the difference.                                                     *)
PrefUpsert(c, named, out) ==
  LET next == (prefRow \ named) \cup out IN
  /\ prefCall[c] = PrefIdle /\ named # {} /\ out \subseteq named
  /\ PrefBegin(c, [PrefIdle EXCEPT !.step = "write", !.next = next,
                                  !.logs = diffConsent(prefRow, next)])
  /\ UNCHANGED <<prefRow, prefExists, prefConsent, prefLast, prefFaults, prefReadVars>>

(* Delete up to its write: the row must be there; opting back into all.    *)
PrefDelete(c) ==
  /\ prefCall[c] = PrefIdle /\ prefExists
  /\ PrefBegin(c, [PrefIdle EXCEPT !.step = "write", !.delete = TRUE,
                                  !.logs = diffConsent(prefRow, {})])
  /\ UNCHANGED <<prefRow, prefExists, prefConsent, prefLast, prefFaults, prefReadVars>>

(* PreferenceRepo.Upsert assigns every column; Delete removes the row.     *)
Written(call) == call.next

PrefWrite(c) ==
  LET call == prefCall[c] IN
  /\ call.step = "write"
  /\ prefRow' = Written(call) /\ prefExists' = ~call.delete
  /\ prefLast' = [prefLast EXCEPT ![prefRow] = prefClock, ![prefRow'] = prefClock]
  /\ prefCall' = [prefCall EXCEPT ![c].step = "append"]
  /\ UNCHANGED <<prefConsent, prefDoubt, prefCalls, prefFaults, prefReadVars>>

PrefAppend(c) ==
  LET call == prefCall[c] IN
  /\ call.step = "append"
  /\ prefConsent' = (prefConsent \ call.logs) \cup (call.logs \cap call.next)
  /\ prefCall' = [prefCall EXCEPT ![c] = [PrefIdle EXCEPT !.step = "invalidate"]]
  /\ prefDoubt' = IF call.alone THEN prefDoubt \ call.logs ELSE prefDoubt
  /\ UNCHANGED <<prefRow, prefExists, prefLast, prefCalls, prefFaults, prefReadVars>>

(* The row is written and its log entry is not: the request returns the    *)
(* error without invalidating.                                             *)
PrefAppendFails(c) ==
  /\ prefCall[c].step = "append" /\ (prefCall[c].logs # {} \/ prefCall[c].delete)
  /\ prefFaults < MaxPrefFaults /\ prefFaults' = prefFaults + 1
  /\ prefDoubt' = prefDoubt \cup prefCall[c].logs
  /\ prefCall' = [prefCall EXCEPT ![c] = PrefIdle]
  /\ UNCHANGED <<prefRow, prefExists, prefConsent, prefLast, prefCalls, prefReadVars>>

(* Resolver.Invalidate, in this process or in the one that served the call.*)
PrefInvalidate(c) ==
  /\ prefCall[c].step = "invalidate"
  /\ prefCache' \in {prefCache, PrefNone}
  /\ prefCall' = [prefCall EXCEPT ![c] = PrefIdle]
  /\ UNCHANGED <<prefRow, prefExists, prefConsent, prefDoubt, prefLast, prefCalls,
                 prefFaults, prefReader, prefClock>>

Valid(entry) == entry # PrefNone /\ prefClock < entry.expiresAt

(* Resolve takes the time, misses the cache, reads the row, and stores it. *)
PrefMiss(r) ==
  /\ prefReader[r] = PrefNone /\ ~Valid(prefCache)
  /\ prefReader' = [prefReader EXCEPT ![r] = [now |-> prefClock, read |-> FALSE, pref |-> {}]]
  /\ UNCHANGED <<prefApiVars, prefCache, prefClock>>

PrefGet(r) ==
  /\ prefReader[r] # PrefNone /\ ~prefReader[r].read
  /\ prefReader' = [prefReader EXCEPT ![r].read = TRUE, ![r].pref = prefRow]
  /\ UNCHANGED <<prefApiVars, prefCache, prefClock>>

(* Mutant: the entry's age begins when it is stored.                       *)
ExpiresAfterFill(reader) == prefClock + PrefTTL

ExpiresAt(reader) == reader.now + PrefTTL

PrefFill(r) ==
  LET reader == prefReader[r] IN
  /\ reader # PrefNone /\ reader.read
  /\ prefCache' = [pref |-> reader.pref, expiresAt |-> ExpiresAt(reader)]
  /\ prefReader' = [prefReader EXCEPT ![r] = PrefNone]
  /\ UNCHANGED <<prefApiVars, prefClock>>

(* evictLocked: too many users, and this one is expired or drawn.          *)
PrefEvict ==
  /\ prefCache # PrefNone /\ prefCache' = PrefNone
  /\ UNCHANGED <<prefApiVars, prefReader, prefClock>>

PrefTick ==
  /\ prefClock < MaxPrefClock /\ prefClock' = prefClock + 1
  /\ prefLast' = [prefLast EXCEPT ![prefRow] = prefClock']
  /\ UNCHANGED <<prefRow, prefExists, prefConsent, prefCall, prefDoubt, prefCalls,
                 prefFaults, prefCache, prefReader>>

PreferenceNext ==
  \/ \E c \in PrefCallers :
       \/ \E named, out \in SUBSET PrefFields : PrefUpsert(c, named, out)
       \/ PrefDelete(c) \/ PrefWrite(c) \/ PrefAppend(c) \/ PrefAppendFails(c)
       \/ PrefInvalidate(c)
  \/ \E r \in PrefReaders : PrefMiss(r) \/ PrefGet(r) \/ PrefFill(r)
  \/ PrefEvict \/ PrefTick

PreferenceSpec == PreferenceInit /\ [][PreferenceNext]_preferenceVars

-----------------------------------------------------------------------------
(* A preference the send path takes from the cache was what the row said   *)
(* less than a ttl ago, whichever process changed it and however a slow    *)
(* read crosses the change and its invalidation.                           *)
PreferenceFresh ==
  Valid(prefCache) => prefLast[prefCache.pref] + PrefTTL > prefClock

(* The consent log explains the row: for each field the latest entry says  *)
(* what the row says, also after a deletion, unless requests overlapped or *)
(* an append failed; the field's next change alone puts that right.        *)
ConsentExplains ==
  \A f \in PrefFields \ prefDoubt :
    (\A c \in PrefCallers : f \notin prefCall[c].logs)
      => (f \in prefConsent <=> f \in prefRow)
=============================================================================
