--------------------------- MODULE FrequencyWindows ---------------------------
(***************************************************************************)
(* The frequency limits of a user (AllowAll in adapter/redis/client.go): a *)
(* send names several keys (per topic, per channel, over all), each with   *)
(* its limit and window, and one script tests them all before it counts on *)
(* any.  A window starts with the first send counted in it and is not      *)
(* extended by the next ones.                                              *)
(***************************************************************************)
EXTENDS Integers, FiniteSets

CONSTANTS
  FrqKeys,      \* the keys of one user
  FrqLimit,     \* per key: sends in a window; 0: this limit is not configured
  FrqWindow,    \* per key: PEXPIRE, in ticks; 0: not configured
  MaxFrqClock   \* bound: ticks

ASSUME FrqAssumption == /\ FrqLimit \in [FrqKeys -> Nat] /\ FrqWindow \in [FrqKeys -> Nat]
                        /\ MaxFrqClock \in Nat

VARIABLES
  frqClock,   \* the clock of Redis
  frqCount,   \* each key: its counter and when it expires
  frqSends    \* history: per key the sends let through, each a tick and a number of its own

frequencyVars == <<frqClock, frqCount, frqSends>>

FrequencyInit ==
  /\ frqClock = 1
  /\ frqCount = [k \in FrqKeys |-> [value |-> 0, until |-> 0]]
  /\ frqSends = [k \in FrqKeys |-> {}]

Value(k) == IF frqClock < frqCount[k].until THEN frqCount[k].value ELSE 0

(* AllowAll leaves out the limits that are not configured.                 *)
Limited(keys) == {k \in keys : FrqLimit[k] > 0 /\ FrqWindow[k] > 0}
Allowed(keys) == \A k \in Limited(keys) : Value(k) < FrqLimit[k]

(* Mutant: each key is counted on as soon as it has passed its own test.   *)
IncrementedEach(keys) == {k \in Limited(keys) : Value(k) < FrqLimit[k]}

(* The keys the script counts on.                                          *)
Incremented(keys) == IF Allowed(keys) THEN Limited(keys) ELSE {}

FrqAllowAll(keys) ==
  /\ frqCount' = [k \in FrqKeys |->
       IF k \notin Incremented(keys) THEN frqCount[k]
       ELSE [value |-> Value(k) + 1,
             until |-> IF Value(k) = 0 THEN frqClock + FrqWindow[k] ELSE frqCount[k].until]]
  /\ frqSends' = [k \in FrqKeys |->
       IF k \in Limited(keys) /\ Allowed(keys)
       THEN frqSends[k] \cup {<<frqClock, Cardinality(frqSends[k])>>} ELSE frqSends[k]]
  /\ UNCHANGED frqClock

FrqTick ==
  /\ frqClock < MaxFrqClock /\ frqClock' = frqClock + 1
  /\ UNCHANGED <<frqCount, frqSends>>

FrequencyNext == (\E keys \in SUBSET FrqKeys : FrqAllowAll(keys)) \/ FrqTick

FrequencySpec == FrequencyInit /\ [][FrequencyNext]_frequencyVars

-----------------------------------------------------------------------------
SendsSince(k, t0) == {send \in frqSends[k] : send[1] >= t0}

(* A counter is the number of sends let through since its window began and *)
(* never above the limit: a send that one key refuses counts on no other,  *)
(* and a send after the window's end does not prolong it.                  *)
WindowsHold ==
  \A k \in FrqKeys :
    /\ Value(k) <= FrqLimit[k]
    /\ frqClock < frqCount[k].until =>
         Value(k) = Cardinality(SendsSince(k, frqCount[k].until - FrqWindow[k]))
=============================================================================
