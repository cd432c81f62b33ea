------------------------------ MODULE TTLCache ------------------------------
(***************************************************************************)
(* The TTL cache of pkg/common/ttl_cache.go.  The intent controller uses   *)
(* it as its plan cache: an intent whose plan was started recently is in   *)
(* it and is not queued for another plan.                                  *)
(*                                                                         *)
(* The code stores the wall-clock time of the last Put of a key; the model *)
(* stores the AGE of that entry, so that the state is finite: an entry     *)
(* ages by one with every unit of time, up to MaxAge, above which the code *)
(* cannot tell ages apart.  The evicting goroutine compares the entries    *)
(* with the time CARRIED BY THE TICK, not with the time at which it gets   *)
(* hold of mLock; a tick waits in the ticker's one-place channel while it  *)
(* is not received.  That waiting time is the variable tick.               *)
(***************************************************************************)
EXTENDS Integers

CONSTANTS
    Keys,         \* the keys that may be put into the cache
    TTL,          \* ttl argument of NewCache, in units of model time
    TickPeriod,   \* tick argument of NewCache
    MaxLag        \* bound: how long a tick may wait for the evicting goroutine

ASSUME TTLAssumption == TTL \in Int
ASSUME TickPeriodAssumption == TickPeriod \in Int
ASSUME MaxLagAssumption == MaxLag \in Nat

VARIABLES
    entries,      \* [Keys -> Age]: age of the entry of a key, or Absent
    tick          \* age of the tick waiting in ticker.C, or NoTick

cacheVars == <<entries, tick>>

Absent == -1
NoTick == -1

MaxPlanCacheTimeout == 50000
MaxPlanCacheTTL == 500000

\* NewCache starts the evicting goroutine only for sensible timing values.
EvictorRuns ==
    /\ TickPeriod \in 1 .. MaxPlanCacheTimeout
    /\ TTL \in 1 .. MaxPlanCacheTTL

\* No tick is older than MaxLag, so every age from here on is "expired".
MaxAge == (IF TTL > 0 THEN TTL ELSE 0) + MaxLag + 1

Age == Absent .. MaxAge

CacheTypeOK ==
    /\ entries \in [Keys -> Age]
    /\ tick \in NoTick .. MaxLag

CacheInit ==
    /\ entries = [k \in Keys |-> Absent]
    /\ tick = NoTick

-----------------------------------------------------------------------------
\* IsIn looks at the presence of the key only: an expired entry that was not
\* evicted yet still counts.
IsIn(k) == entries[k] # Absent

\* Put (re)starts the life of an entry.
PutEffect(k) == entries' = [entries EXCEPT ![k] = 0]

Put(k) == PutEffect(k) /\ UNCHANGED tick

\* One unit of time passes for the entries and for a tick that waits.
Elapse ==
    /\ tick < MaxLag
    /\ entries' = [k \in Keys |->
                     IF entries[k] \in 0 .. MaxAge - 1 THEN entries[k] + 1
                                                       ELSE entries[k]]
    /\ tick' = IF tick = NoTick THEN NoTick ELSE tick + 1

\* The ticker fires; a tick that finds the channel full is dropped.
TickerFires ==
    /\ EvictorRuns
    /\ tick = NoTick
    /\ tick' = 0
    /\ UNCHANGED entries

\* Mutant: an entry exactly as old as its TTL is evicted too.
ExpiredInclusive(k) == entries[k] - tick >= TTL

\* Mutant: the operands are swapped, v - now.
ExpiredSwapped(k) == tick - entries[k] > TTL

\* now.UnixMilli() - v > ttl, with now the time of the tick.
Expired(k) == entries[k] - tick > TTL

\* The evicting goroutine handles a tick: one pass over the map under mLock.
Evict ==
    /\ EvictorRuns
    /\ tick # NoTick
    /\ entries' = [k \in Keys |-> IF IsIn(k) /\ Expired(k) THEN Absent
                                                           ELSE entries[k]]
    /\ tick' = NoTick

CacheNext == Elapse \/ TickerFires \/ Evict \/ \E k \in Keys : Put(k)

CacheSpec == CacheInit /\ [][CacheNext]_cacheVars

\* Time passes whatever the evicting goroutine does (strong fairness, because
\* the bound MaxLag disables Elapse now and then), the ticker fires and the
\* goroutine is scheduled.
CacheFairness ==
    /\ SF_cacheVars(Elapse)
    /\ WF_cacheVars(TickerFires)
    /\ WF_cacheVars(Evict)

CacheFairSpec == CacheSpec /\ CacheFairness

-----------------------------------------------------------------------------
\* An entry lives for its TTL at least: whatever a late tick and a
\* concurrent Put do, eviction only removes an entry whose last Put is more
\* than TTL units in the past.  In particular a refreshed entry survives a
\* tick that was sent before the refresh.
NeverEvictedEarly ==
    [][\A k \in Keys : IsIn(k) /\ ~IsIn(k)' => entries[k] > TTL]_cacheVars

\* ... and it does not live for ever: an entry is evicted or refreshed
\* eventually, so that the intent becomes eligible for planning again.
EntriesExpire ==
    \A k \in Keys : entries[k] = MaxAge ~> entries[k] < MaxAge
=============================================================================
