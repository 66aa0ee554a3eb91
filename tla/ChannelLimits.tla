---------------------------- MODULE ChannelLimits ----------------------------
(***************************************************************************)
(* What a send must be granted before it leaves: a token of the global     *)
(* bucket and one of the channel's bucket for its priority                 *)
(* (adapter/redis/quota.go).  The buckets are in Redis and shared by the   *)
(* processes; a process that gets an error from Redis falls back on a      *)
(* bucket of its own at half the rate.  Tokens are counted in units,       *)
(* LimToken to a token, so that halves are whole numbers.  The processes'  *)
(* clocks agree.                                                           *)
(***************************************************************************)
EXTENDS Naturals, FiniteSetsExt

CONSTANTS
  LimProcs,      \* processes that send
  LimPrios,      \* priorities with a bucket of their own in the channel
  LimToken,      \* units in a token
  LimRates,      \* units per tick: of the global bucket, and of the channel's as split by ratesFor
  LimBursts,     \* units a bucket holds, each at least LimToken
  LimKeyTTL,     \* EXPIRE of a bucket, in ticks
  LimShrinkTTL,  \* RecoverIntervalSec, in ticks
  MaxLimClock,   \* bound: ticks
  MaxLimFaults   \* bound: failing calls of Redis

LimKeys == {"global"} \cup LimPrios

(* The last is about the configuration: EXPIRE of 120 s lasts longer than  *)
(* it takes to fill a bucket, whose burst is qps where none is given.      *)
ASSUME LimAssumption ==
  /\ LimToken \in Nat \ {0}
  /\ LimRates \in [LimKeys -> Nat] /\ LimBursts \in [LimKeys -> Nat]
  /\ LimKeyTTL \in Nat /\ LimShrinkTTL \in Nat
  /\ \A k \in LimKeys : LimBursts[k] <= LimKeyTTL * LimRates[k]

VARIABLES
  limClock,   \* time.Now
  limBucket,  \* per store ("redis" or a process) and key: what is stored, or LimNew
  limCall,    \* each process: the Wait it is in
  limShrunk,  \* when the shrinking of the channel's rate ends
  limDebt,    \* reference: units granted and not yet earned back at the full rate
  limFaults   \* counter for the bound

limitVars == <<limClock, limBucket, limCall, limShrunk, limDebt, limFaults>>

LimStores == {"redis"} \cup LimProcs
LimNew    == [tokens |-> 0, ts |-> 0]  \* the clock starts at 1
LimIdle   == [step |-> "idle", prio |-> "global", rate |-> 0, store |-> "redis"]

LimitsInit ==
  /\ limClock = 1 /\ limShrunk = 0 /\ limFaults = 0
  /\ limBucket = [s \in LimStores |-> [k \in LimKeys |-> LimNew]]
  /\ limDebt = [s \in LimStores |-> [k \in LimKeys |-> 0]]
  /\ limCall = [p \in LimProcs |-> LimIdle]

Degraded(v) == Max({LimToken, v \div 2})
StoreRate(store, rate) == IF store = "redis" THEN rate ELSE Degraded(rate)
StoreBurst(store, key) == IF store = "redis" THEN LimBursts[key] ELSE Degraded(LimBursts[key])

(* Mutant: what was earned is not cut at the burst.                        *)
RefilledUncapped(b, rate, burst) == b.tokens + (limClock - b.ts) * rate

(* tokenBucketLua and takeLocal: what has been earned since the last       *)
(* attempt is added, up to the burst; an expired or missing key is full.   *)
Refilled(b, rate, burst) == Min({burst, b.tokens + (limClock - b.ts) * rate})
Missing(store, b) == b = LimNew \/ (store = "redis" /\ limClock >= b.ts + LimKeyTTL)

Take(p, key, rate) ==
  LET store == limCall[p].store
      b == limBucket[store][key]
      burst == StoreBurst(store, key)
      tokens == IF Missing(store, b) THEN burst ELSE Refilled(b, StoreRate(store, rate), burst)
      allowed == tokens >= LimToken IN
  /\ limBucket' = [limBucket EXCEPT ![store][key] =
       [tokens |-> IF allowed THEN tokens - LimToken ELSE tokens, ts |-> limClock]]
  /\ limDebt' = IF allowed THEN [limDebt EXCEPT ![store][key] = @ + LimToken] ELSE limDebt
  /\ limCall' = IF ~allowed THEN limCall
                ELSE [limCall EXCEPT ![p] = IF key = "global"
                       THEN [@ EXCEPT !.step = "rates", !.store = "redis"] ELSE LimIdle]

LimWait(p, prio) ==
  /\ limCall[p].step = "idle"
  /\ limCall' = [limCall EXCEPT ![p] = [LimIdle EXCEPT !.step = "global", !.prio = prio]]
  /\ UNCHANGED <<limClock, limBucket, limShrunk, limDebt, limFaults>>

LimTakeGlobal(p) ==
  /\ limCall[p].step = "global"
  /\ Take(p, "global", LimRates["global"])
  /\ UNCHANGED <<limClock, limShrunk, limFaults>>

(* ratesFor and adaptMult, read once; an error reads as "not shrunk".      *)
LimReadRates(p, failed) ==
  LET full == LimRates[limCall[p].prio] IN
  /\ limCall[p].step = "rates"
  /\ failed => limFaults < MaxLimFaults /\ limClock < limShrunk
  /\ limFaults' = limFaults + (IF failed THEN 1 ELSE 0)
  /\ limCall' = [limCall EXCEPT ![p].step = "channel",
       ![p].rate = IF limClock < limShrunk /\ ~failed THEN full \div 2 ELSE full]
  /\ UNCHANGED <<limClock, limBucket, limShrunk, limDebt>>

LimTakeChannel(p) ==
  /\ limCall[p].step = "channel"
  /\ Take(p, limCall[p].prio, limCall[p].rate)
  /\ UNCHANGED <<limClock, limShrunk, limFaults>>

(* Redis fails: this wait goes on with the bucket of the process.          *)
LimDegrade(p) ==
  /\ limCall[p].step \in {"global", "channel"} /\ limCall[p].store = "redis"
  /\ limFaults < MaxLimFaults /\ limFaults' = limFaults + 1
  /\ limCall' = [limCall EXCEPT ![p].store = p]
  /\ UNCHANGED <<limClock, limBucket, limShrunk, limDebt>>

(* The deadline of the Wait: the token of the global bucket is not given   *)
(* back.                                                                   *)
LimTimeout(p) ==
  /\ limCall[p].step \in {"global", "channel"}
  /\ limCall' = [limCall EXCEPT ![p] = LimIdle]
  /\ UNCHANGED <<limClock, limBucket, limShrunk, limDebt, limFaults>>

LimObserveThrottle ==
  /\ limShrunk' = limClock + LimShrinkTTL
  /\ UNCHANGED <<limClock, limBucket, limCall, limDebt, limFaults>>

LimTick ==
  /\ limClock < MaxLimClock /\ limClock' = limClock + 1
  /\ limDebt' = [s \in LimStores |-> [k \in LimKeys |->
       Max({limDebt[s][k], StoreRate(s, LimRates[k])}) - StoreRate(s, LimRates[k])]]
  /\ UNCHANGED <<limBucket, limCall, limShrunk, limFaults>>

LimitsNext ==
  \/ \E p \in LimProcs :
       \/ \E prio \in LimPrios : LimWait(p, prio)
       \/ \E failed \in BOOLEAN : LimReadRates(p, failed)
       \/ LimTakeGlobal(p) \/ LimTakeChannel(p) \/ LimDegrade(p) \/ LimTimeout(p)
  \/ LimObserveThrottle
  \/ LimTick

LimitsSpec == LimitsInit /\ [][LimitsNext]_limitVars

-----------------------------------------------------------------------------
(* Over every stretch of time a bucket grants at most its burst and what   *)
(* its full rate earns, whoever asks and at whatever rate each of them     *)
(* read: with limDebt, the grants less what was earned since.              *)
BucketsHold ==
  \A s \in LimStores, k \in LimKeys : limDebt[s][k] <= StoreBurst(s, k)
=============================================================================
