----------------------- MODULE IntentController_proofs -----------------------
(***************************************************************************)
(* Proofs about IntentController, for every set of keys, workers, planners *)
(* and profiles and every channel length, and about its plan cache,        *)
(* TTLCache, for every TTL and every delay of the ticks.                   *)
(***************************************************************************)
EXTENDS IntentController, FiniteSetTheorems, TLAPS

\* The channel has room for one key at least, as NewController checks.
LEMMA ChanLenPositive == ChanLen \in Nat /\ ChanLen >= 1
BY ChanLenAssumption DEF MaxTaskChannelLen

USE TTLAssumption, MaxLagAssumption, ChanLenPositive, MaxErrorsAssumption,
    NamesAssumption

-----------------------------------------------------------------------------
(* The plan cache. *)

\* Every action keeps the types; the plan cache's steps, on their own.
LEMMA CacheStepType ==
  ASSUME CacheTypeOK, Elapse \/ TickerFires \/ Evict
  PROVE  CacheTypeOK'
<1>1. MaxAge \in Nat
  BY DEF MaxAge
<1>2. CASE Elapse
  BY <1>1, <1>2 DEF CacheTypeOK, Elapse, Age, Absent, NoTick
<1>3. CASE TickerFires
  BY <1>1, <1>3 DEF CacheTypeOK, TickerFires, Age, Absent, NoTick
<1>4. CASE Evict
  BY <1>1, <1>4 DEF CacheTypeOK, Evict, Age, Absent, NoTick
<1> QED
  BY <1>2, <1>3, <1>4

LEMMA PutType ==
  ASSUME CacheTypeOK, NEW k \in Keys, Put(k)
  PROVE  CacheTypeOK'
<1>1. MaxAge \in Nat /\ 0 \in Age
  BY DEF MaxAge, Age, Absent
<1> QED
  BY <1>1 DEF CacheTypeOK, Put, PutEffect, Age, Absent, NoTick

\* The types hold in every reachable state of the cache.
THEOREM CacheTypes == CacheSpec => []CacheTypeOK
<1>1. CacheInit => CacheTypeOK
  BY DEF CacheInit, CacheTypeOK, Age, MaxAge, Absent, NoTick
<1>2. CacheTypeOK /\ [CacheNext]_cacheVars => CacheTypeOK'
  <2>1. CacheTypeOK /\ UNCHANGED cacheVars => CacheTypeOK'
    BY DEF CacheTypeOK, cacheVars
  <2> QED
    BY <2>1, CacheStepType, PutType DEF CacheNext
<1> QED
  BY <1>1, <1>2, PTL DEF CacheSpec

\* No entry is evicted before its time, however late the tick is handled.
THEOREM CacheKeepsEntries == CacheSpec => NeverEvictedEarly
<1>1. CacheTypeOK /\ [CacheNext]_cacheVars
        => [\A k \in Keys : IsIn(k) /\ ~IsIn(k)' => entries[k] > TTL]_cacheVars
  <2> SUFFICES ASSUME CacheTypeOK, CacheNext, NEW k \in Keys, IsIn(k), ~IsIn(k)'
               PROVE  entries[k] > TTL
    OBVIOUS
  \* Only an eviction makes an entry disappear,
  <2>1. Evict
    BY DEF CacheNext, Elapse, TickerFires, Put, PutEffect, CacheTypeOK, Age, IsIn,
           Absent, MaxAge
  \* and then the entry was too old already when the tick was sent.
  <2>2. Expired(k) /\ tick >= 0
    BY <2>1 DEF Evict, IsIn, CacheTypeOK, NoTick
  <2> QED
    BY <2>2 DEF Expired, CacheTypeOK, Age, Absent, MaxAge, NoTick
<1> QED
  BY <1>1, CacheTypes, PTL DEF CacheSpec, NeverEvictedEarly

-----------------------------------------------------------------------------
(* The controller. *)

\* The initial state satisfies the inductive invariant.
LEMMA InitIInv == Init => IInv
<1> SUFFICES ASSUME Init PROVE IInv
  OBVIOUS
<1>1. MaxAge \in Nat
  BY DEF MaxAge
<1>2. CacheTypeOK
  BY <1>1 DEF Init, CacheInit, CacheTypeOK, Age, Absent, NoTick
<1>3. wjob \in [Workers -> Jobs]
  BY DEF Init, Jobs, NoJob, PlannerOrNil, IntentStates
<1>4. tasks \in Seq(Keys) /\ Len(tasks) <= ChanLen
  BY DEF Init
<1>5. TypeOK
  <2>1. warmupDone \in BOOLEAN
    BY DEF Init
  <2>2. intents \in [Keys -> IntentStates] /\ podErrors \in [Pods -> 0 .. MaxErrors]
    BY DEF Init, IntentStates
  <2>3. /\ ppc \in [Producers -> {"idle", "write", "trigger", "iter", "send"}]
        /\ ptodo \in [Producers -> SUBSET Keys]
        /\ pcur \in [Producers -> Keys \cup {NoKey}]
        /\ wpc \in [Workers -> {"recv", "lock", "read", "plan", "put", "effect"}]
    BY DEF Init
  <2> QED
    BY <1>2, <1>3, <1>4, <2>1, <2>2, <2>3 DEF Init, TypeOK, PlannerOrNil
<1>6. JobInv
  BY DEF Init, JobInv, Producers
<1>7. LockInv
  BY DEF Init, LockInv, Producers
<1> QED
  BY <1>5, <1>6, <1>7 DEF IInv

LEMMA NextIInv == IInv /\ [Next]_vars => IInv'
<1> SUFFICES ASSUME IInv, [Next]_vars PROVE IInv'
  OBVIOUS
<1> USE DEF IInv, GoTo, WorkerGoTo, LockFree, WarmedUp, HasRoom
<1>1. ASSUME NEW a \in Planners, SetPlanner(a) PROVE IInv'
  BY <1>1 DEF SetPlanner, TypeOK, JobInv, LockInv, CacheTypeOK, cacheVars, PlannerOrNil
<1>2. ASSUME NEW k \in Keys, NEW i \in IntentStates, UpdateIntent(k, i) PROVE IInv'
  BY <1>2 DEF UpdateIntent, TypeOK, JobInv, LockInv, CacheTypeOK, cacheVars, Producers
<1>3. ASSUME NEW p \in Producers, BeginWrite(p) PROVE IInv'
  BY <1>3 DEF BeginWrite, TypeOK, JobInv, LockInv, CacheTypeOK, cacheVars
<1>4. ASSUME NEW f \in Profiles, NEW keep \in BOOLEAN, UpdateProfile(f, keep) PROVE IInv'
  BY <1>4 DEF UpdateProfile, TypeOK, JobInv, LockInv, CacheTypeOK, cacheVars, Producers
<1>5. ASSUME NEW q \in Pods, NEW keep \in BOOLEAN, UpdatePodError(q, keep) PROVE IInv'
  BY <1>5 DEF UpdatePodError, TypeOK, JobInv, LockInv, CacheTypeOK, cacheVars, Producers
<1>6. ASSUME Tick PROVE IInv'
  BY <1>6 DEF Tick, TypeOK, JobInv, LockInv, CacheTypeOK, cacheVars, Producers
<1>7. ASSUME NEW p \in Producers, Skip(p) PROVE IInv'
  BY <1>7 DEF Skip, TypeOK, JobInv, LockInv, CacheTypeOK, cacheVars
<1>8. ASSUME NEW p \in Producers, LockIntents(p) PROVE IInv'
  BY <1>8 DEF LockIntents, TypeOK, JobInv, LockInv, CacheTypeOK, cacheVars
<1>9. ASSUME NEW p \in Producers, NEW k \in Keys, Iterate(p, k) PROVE IInv'
  <2>1. CASE Throttled(k)
    BY <1>9, <2>1 DEF Iterate, TypeOK, JobInv, LockInv, CacheTypeOK, cacheVars
  <2>2. CASE ~Throttled(k)
    <3>1. TypeOK'
      BY <1>9, <2>2, ZenonT(30) DEF Iterate, TypeOK, CacheTypeOK, cacheVars
    <3>2. JobInv' /\ LockInv'
      BY <1>9, <2>2 DEF Iterate, TypeOK, JobInv, LockInv
    <3> QED
      BY <3>1, <3>2
  <2> QED
    BY <2>1, <2>2
<1>10. ASSUME NEW p \in Producers, Send(p) PROVE IInv'
  BY <1>10 DEF Send, TypeOK, JobInv, LockInv, CacheTypeOK, cacheVars
<1>11. ASSUME NEW p \in Producers, FinishLoop(p) PROVE IInv'
  BY <1>11 DEF FinishLoop, TypeOK, JobInv, LockInv, CacheTypeOK, cacheVars
<1>12. ASSUME NEW w \in Workers, WorkerRecv(w) PROVE IInv'
  <2>1. Head(tasks) \in Keys /\ tasks' \in Seq(Keys) /\ Len(tasks') <= ChanLen
    BY <1>12 DEF WorkerRecv, TypeOK
  <2>2. CASE planner = NoPlanner
    BY <1>12, <2>1, <2>2
    DEF WorkerRecv, TypeOK, JobInv, LockInv, CacheTypeOK, cacheVars
  <2>3. CASE planner # NoPlanner
    <3>1. planner \in Planners
      BY <2>3 DEF TypeOK, PlannerOrNil
    <3>2. [key |-> Head(tasks), planner |-> planner, intent |-> "none"] \in Jobs
      BY <2>1, <3>1 DEF Jobs, PlannerOrNil, IntentStates
    <3>3. TypeOK'
      <4>1. wjob' \in [Workers -> Jobs]
        BY <1>12, <2>3, <3>2 DEF WorkerRecv, TypeOK
      <4>2. wpc' \in [Workers -> {"recv", "lock", "read", "plan", "put", "effect"}]
        BY <1>12, <2>3 DEF WorkerRecv, TypeOK
      <4> QED
        BY <1>12, <2>1, <4>1, <4>2 DEF WorkerRecv, TypeOK, CacheTypeOK, cacheVars
    <3>4. JobInv' /\ LockInv'
      BY <1>12, <2>1, <2>3, <3>1 DEF WorkerRecv, TypeOK, JobInv, LockInv
    <3> QED
      BY <3>3, <3>4
  <2> QED
    BY <2>2, <2>3
<1>13. ASSUME NEW w \in Workers, WorkerLock(w) PROVE IInv'
  BY <1>13 DEF WorkerLock, TypeOK, JobInv, LockInv, CacheTypeOK, cacheVars
<1>14. ASSUME NEW w \in Workers, WorkerRead(w) PROVE IInv'
  <2>1. wjob' \in [Workers -> Jobs]
    BY <1>14, SMTT(30) DEF WorkerRead, TypeOK, JobInv, Jobs
  <2>2. TypeOK'
    BY <1>14, <2>1 DEF WorkerRead, TypeOK, CacheTypeOK, cacheVars
  <2>3. JobInv'
    BY <1>14 DEF WorkerRead, TypeOK, JobInv, Jobs
  <2>4. LockInv'
    BY <1>14 DEF WorkerRead, TypeOK, LockInv
  <2> QED
    BY <2>2, <2>3, <2>4
<1>15. ASSUME NEW w \in Workers, NEW nonEmpty \in BOOLEAN, WorkerPlan(w, nonEmpty) PROVE IInv'
  <2>1. <<wjob[w].key, wjob[w].planner>> \in Keys \X Planners
    BY <1>15 DEF WorkerPlan, JobInv
  <2>2. executing' \subseteq Keys \X Planners
    BY <1>15, <2>1 DEF WorkerPlan, TypeOK
  <2>3. wpc' = [wpc EXCEPT ![w] = "put"] \/ wpc' = [wpc EXCEPT ![w] = "effect"]
    BY <1>15 DEF WorkerPlan
  <2>4. UNCHANGED <<intents, profiles, podErrors, tasks, intentsLock, warmupDone,
                    planner, ppc, ptodo, pcur, wjob, effects, cacheVars>>
    BY <1>15 DEF WorkerPlan
  <2> QED
    BY <1>15, <2>2, <2>3, <2>4, SMTT(30)
    DEF WorkerPlan, TypeOK, JobInv, LockInv, CacheTypeOK, cacheVars
<1>16. ASSUME NEW w \in Workers, WorkerPut(w) PROVE IInv'
  BY <1>16, PutType DEF WorkerPut, TypeOK, JobInv, LockInv
<1>17. ASSUME NEW w \in Workers, WorkerFinish(w) PROVE IInv'
  BY <1>17 DEF WorkerFinish, TypeOK, JobInv, LockInv, CacheTypeOK, cacheVars, Jobs, NoJob, PlannerOrNil, IntentStates
<1>18. ASSUME NEW e \in executing, ExecutePlanReturns(e) PROVE IInv'
  BY <1>18 DEF ExecutePlanReturns, TypeOK, JobInv, LockInv, CacheTypeOK, cacheVars
<1>19. ASSUME NEW a \in effects, TriggerEffectReturns(a) PROVE IInv'
  BY <1>19 DEF TriggerEffectReturns, TypeOK, JobInv, LockInv, CacheTypeOK, cacheVars
<1>20. ASSUME PlanCacheStep PROVE IInv'
  BY <1>20, CacheStepType DEF PlanCacheStep, controllerVars, TypeOK, JobInv, LockInv
<1>21. ASSUME NEW p \in Producers, CrashAndRestart(p) PROVE IInv'
  <2>1. Init'
    BY <1>21 DEF CrashAndRestart, Init, CacheInit
  <2> QED
    BY <2>1, InitIInv, PTL
<1>22. ASSUME UNCHANGED vars PROVE IInv'
  BY <1>22 DEF vars, controllerVars, TypeOK, JobInv, LockInv, CacheTypeOK, cacheVars
<1> QED
  BY <1>1, <1>2, <1>3, <1>4, <1>5, <1>6, <1>7, <1>8, <1>9, <1>10, <1>11, <1>12,
     <1>13, <1>14, <1>15, <1>16, <1>17, <1>18, <1>19, <1>20, <1>21, <1>22
  DEF Next, ProducerStep, WorkerStep, WriteStep, Writers

\* The types hold in every reachable state; the channel is never overfull.
THEOREM ControllerTypeOK == Spec => []TypeOK
<1>1. IInv => TypeOK
  BY DEF IInv
<1> QED
  BY <1>1, InitIInv, NextIInv, PTL DEF Spec

\* intentsLock gives mutual exclusion, for any number of workers.
THEOREM ControllerLockInv == Spec => []LockInv
<1>1. IInv => LockInv
  BY DEF IInv
<1> QED
  BY <1>1, InitIInv, NextIInv, PTL DEF Spec

\* The deadlock Wedged is the only way for the controller to get stuck, for
\* any number of workers and intents and any channel length.
THEOREM ControllerStuck == Spec => []StuckOnlyIfWedged
<1>1. IInv => StuckOnlyIfWedged
  <2> SUFFICES ASSUME IInv,
                      \A p \in Producers : ProducerBlocked(p),
                      \A w \in Workers : WorkerBlocked(w),
                      ~Quiescent
               PROVE  Wedged
    BY DEF StuckOnlyIfWedged
  <2> USE DEF IInv
  \* A worker that holds the lock is in "read", which never blocks.
  <2>1. intentsLock \notin Workers
    BY DEF LockInv, WorkerBlocked
  \* With a free lock everybody who is not done can move.
  <2>2. intentsLock # NoOne
    BY DEF LockInv, ProducerBlocked, WorkerBlocked, Quiescent, TypeOK
  <2>3. PICK p \in Producers : intentsLock = p
    BY <2>1, <2>2 DEF TypeOK
  \* So the producer that holds it waits for room in a full channel,
  <2>4. ppc[p] = "send" /\ ~HasRoom
    BY <2>3 DEF LockInv, ProducerBlocked
  <2>5. tasks # <<>>
    BY <2>4 DEF HasRoom
  \* and every worker waits for the lock.
  <2>6. \A w \in Workers : wpc[w] = "lock"
    BY <2>5 DEF WorkerBlocked
  <2> QED
    BY <2>4, <2>6 DEF Wedged
<1> QED
  BY <1>1, InitIInv, NextIInv, PTL DEF Spec

\* Nothing happens before the first tick.
THEOREM ControllerQuiet == Spec => []QuietUntilWarm
<1>1. Init => QuietUntilWarm
  BY DEF Init, QuietUntilWarm, Producers
<1>2. IInv /\ QuietUntilWarm /\ [Next]_vars => QuietUntilWarm'
  <2> SUFFICES ASSUME IInv, QuietUntilWarm, [Next]_vars, ~warmupDone'
               PROVE  QuietUntilWarm'
    BY DEF QuietUntilWarm
  <2>1. CASE \E p \in Writers : CrashAndRestart(p)
    BY <2>1 DEF CrashAndRestart, QuietUntilWarm, Producers
  <2>2. CASE ~(\E p \in Writers : CrashAndRestart(p))
    <3> USE DEF IInv, TypeOK
    \* No step but a crash resets the flag.
    <3>1. ~warmupDone
      BY <2>2 DEF Next, Writers, SetPlanner, UpdateIntent, BeginWrite, ProducerStep, Skip,
         LockIntents, Iterate, Send, FinishLoop, WriteStep, UpdateProfile,
         UpdatePodError, Tick, WorkerStep, WorkerRecv, WorkerLock, WorkerRead,
         WorkerPlan, WorkerPut, WorkerFinish, ExecutePlanReturns,
         TriggerEffectReturns, PlanCacheStep, controllerVars, vars
    <3>2. /\ tasks = <<>> /\ executing = {}
          /\ \A p \in Producers : ppc[p] \notin {"iter", "send"}
          /\ \A w \in Workers : wpc[w] = "recv"
      BY <3>1 DEF QuietUntilWarm
    <3>3. ~(\E w \in Workers : WorkerStep(w))
      BY <3>2 DEF WorkerStep, WorkerRecv, WorkerLock, WorkerRead, WorkerPlan,
                  WorkerPut, WorkerFinish
    \* The producers only come back from processIntents or go to it.
    <3>4. ASSUME NEW p \in Producers, BeginWrite(p) \/ ProducerStep(p)
          PROVE  QuietUntilWarm'
      BY <3>1, <3>2, <3>4 DEF BeginWrite, ProducerStep, Skip, LockIntents, Iterate,
         Send, FinishLoop, WarmedUp, GoTo, QuietUntilWarm
    <3>5. ASSUME (\E k \in Keys, i \in IntentStates : UpdateIntent(k, i)) \/ WriteStep
          PROVE  QuietUntilWarm'
      BY <3>2, <3>5 DEF UpdateIntent, WriteStep, UpdateProfile, UpdatePodError,
         GoTo, QuietUntilWarm
    <3>6. ASSUME \/ \E a \in Planners : SetPlanner(a)
                 \/ \E e \in executing : ExecutePlanReturns(e)
                 \/ \E a \in effects : TriggerEffectReturns(a)
                 \/ PlanCacheStep
                 \/ UNCHANGED vars
          PROVE  QuietUntilWarm'
      BY <3>2, <3>6 DEF SetPlanner, ExecutePlanReturns, TriggerEffectReturns,
         PlanCacheStep, controllerVars, vars, QuietUntilWarm
    <3> QED
      BY <2>2, <3>3, <3>4, <3>5, <3>6 DEF Next, Writers, Tick
  <2> QED
    BY <2>1, <2>2
<1> QED
  BY <1>1, <1>2, InitIInv, NextIInv, PTL DEF Spec

\* Nothing short of a crash ends the deadlock.
THEOREM ControllerWedge == Spec => WedgeIsPermanent
<1>1. IInv /\ Wedged /\ [Next]_vars => Wedged' \/ Init'
  <2> SUFFICES ASSUME IInv, Wedged, [Next]_vars,
                      ~(\E p \in Writers : CrashAndRestart(p))
               PROVE  Wedged'
    BY DEF CrashAndRestart, Init, CacheInit
  <2> USE DEF IInv
  <2>1. PICK p \in Producers : ppc[p] = "send" /\ intentsLock = p
    BY DEF Wedged, LockInv
  <2>2. intentsLock # NoOne /\ \A q \in Producers : ppc[q] \in {"iter", "send"} => q = p
    BY <2>1, NamesAssumption DEF LockInv
  \* No worker moves, and no producer that could change the channel.
  <2>3. ~(\E w \in Workers : WorkerStep(w))
    BY <2>2 DEF Wedged, WorkerStep, WorkerRecv, WorkerLock, WorkerRead, WorkerPlan,
                WorkerPut, WorkerFinish, LockFree
  <2>4. ASSUME NEW q \in Producers, ProducerStep(q)
        PROVE  Wedged'
    BY <2>1, <2>2, <2>4 DEF Wedged, ProducerStep, Skip, LockIntents, Send, FinishLoop,
                            Iterate, LockFree, HasRoom, GoTo, TypeOK
  \* An event may be received by an idle goroutine; p is not idle.
  <2>5. ASSUME \/ \E k \in Keys, i \in IntentStates : UpdateIntent(k, i)
               \/ \E q \in Producers : BeginWrite(q)
               \/ WriteStep
               \/ Tick
        PROVE  Wedged'
    <3>1. /\ UNCHANGED <<tasks, wpc>>
          /\ \E q \in Producers, pc \in {"write", "trigger"} :
               q # p /\ ppc' = [ppc EXCEPT ![q] = pc]
      BY <2>1, <2>5 DEF UpdateIntent, BeginWrite, WriteStep, UpdateProfile,
                        UpdatePodError, Tick, GoTo, Producers
    <3> QED
      BY <2>1, <3>1 DEF Wedged, HasRoom, TypeOK
  <2>6. ASSUME \/ \E a \in Planners : SetPlanner(a)
               \/ \E e \in executing : ExecutePlanReturns(e)
               \/ \E a \in effects : TriggerEffectReturns(a)
               \/ PlanCacheStep
               \/ UNCHANGED vars
        PROVE  Wedged'
    <3>1. UNCHANGED <<tasks, ppc, wpc>>
      BY <2>6 DEF SetPlanner, ExecutePlanReturns, TriggerEffectReturns,
                  PlanCacheStep, controllerVars, vars
    <3> QED
      BY <3>1 DEF Wedged, HasRoom
  <2> QED
    BY <2>3, <2>4, <2>5, <2>6 DEF Next, Writers
<1> QED
  BY <1>1, InitIInv, NextIInv, PTL DEF Spec, WedgeIsPermanent

-----------------------------------------------------------------------------
(* The work there is for an intent. *)

Places(s, k) == {n \in 1 .. Len(s) : s[n] = k}
Senders(k) == {p \in Producers : pcur[p] = k}
Receivers(k) == {w \in Workers : /\ wjob[w].key = k
                                 /\ wpc[w] \in {"lock", "read", "plan"}}

LEMMA PlacesFinite ==
  ASSUME NEW s \in Seq(Keys), NEW k \in Keys
  PROVE  IsFiniteSet(Places(s, k)) /\ Cardinality(Places(s, k)) \in Nat
<1>1. IsFiniteSet(1 .. Len(s))
  <2>1. 1 \in Int /\ Len(s) \in Int
    OBVIOUS
  <2> QED
    BY <2>1, FS_Interval, ZenonT(30)
<1>2. Places(s, k) \in SUBSET (1 .. Len(s))
  BY DEF Places
<1>3. IsFiniteSet(Places(s, k))
  BY <1>1, <1>2, FS_Subset
<1> QED
  BY <1>3, FS_CardinalityType

\* An element that is appended adds a place for its own key only.
LEMMA PlacesAppend ==
  ASSUME NEW s \in Seq(Keys), NEW e \in Keys, NEW k \in Keys
  PROVE  Cardinality(Places(Append(s, e), k))
           = Cardinality(Places(s, k)) + (IF e = k THEN 1 ELSE 0)
<1>1. Len(s) + 1 \notin Places(s, k)
  BY DEF Places
<1>2. CASE e = k
  <2>1. Places(Append(s, e), k) = Places(s, k) \cup {Len(s) + 1}
    BY <1>2 DEF Places
  <2> QED
    BY <1>1, <1>2, <2>1, PlacesFinite, FS_AddElement
<1>3. CASE e # k
  <2>1. Places(Append(s, e), k) = Places(s, k)
    BY <1>3 DEF Places
  <2> QED
    BY <1>3, <2>1, PlacesFinite
<1> QED
  BY <1>2, <1>3

\* Taking the head off takes its place away, and the others move down by one.
LEMMA PlacesTail ==
  ASSUME NEW s \in Seq(Keys), s # <<>>, NEW k \in Keys
  PROVE  Cardinality(Places(Tail(s), k)) + (IF Head(s) = k THEN 1 ELSE 0)
           <= Cardinality(Places(s, k))
<1> DEFINE S == Places(Tail(s), k)
           T == Places(s, k) \ {1}
           f == [n \in S |-> n + 1]
<1>1. Tail(s) \in Seq(Keys) /\ Len(s) \in Nat /\ Len(s) >= 1 /\ Len(Tail(s)) = Len(s) - 1
  OBVIOUS
<1>2. \A n \in S : n \in Nat /\ n + 1 \in T
  BY <1>1 DEF Places
<1>3. f \in Injection(S, T)
  <2>1. f \in [S -> T]
    BY <1>2
  <2>2. \A m, n \in S : f[m] = f[n] => m = n
    BY <1>2
  <2> QED
    BY <2>1, <2>2 DEF Injection, IsInjective
<1>4. /\ IsFiniteSet(T)
      /\ Cardinality(T) = IF 1 \in Places(s, k) THEN Cardinality(Places(s, k)) - 1
                                                ELSE Cardinality(Places(s, k))
  <2>1. IsFiniteSet(Places(s, k))
    BY PlacesFinite
  <2> QED
    BY <2>1, FS_RemoveElement
<1>5. Cardinality(S) <= Cardinality(T)
  <2> HIDE DEF S, T, f
  <2> QED
    BY <1>3, <1>4, FS_Injection
<1>6. 1 \in Places(s, k) <=> Head(s) = k
  BY <1>1 DEF Places
<1>7. Cardinality(S) \in Nat /\ Cardinality(Places(s, k)) \in Nat
  BY <1>1, PlacesFinite
<1> HIDE DEF S, T, f
<1>8. Cardinality(S) + (IF Head(s) = k THEN 1 ELSE 0) <= Cardinality(Places(s, k))
  BY <1>4, <1>5, <1>6, <1>7
<1> QED
  BY <1>8 DEF S

LEMMA ActorsFinite ==
  /\ IsFiniteSet(Producers)
  /\ \A S \in SUBSET Producers : IsFiniteSet(S) /\ Cardinality(S) \in Nat
  /\ \A S \in SUBSET Workers : IsFiniteSet(S) /\ Cardinality(S) \in Nat
<1>1. IsFiniteSet(Producers)
  <2>1. IsFiniteSet({})
    BY FS_EmptySet
  <2>2. IsFiniteSet({} \cup {"intent"})
    BY <2>1, FS_AddElement
  <2>3. IsFiniteSet({} \cup {"intent"} \cup {"profile"})
    BY <2>2, FS_AddElement
  <2>4. IsFiniteSet({} \cup {"intent"} \cup {"profile"} \cup {"podError"})
    BY <2>3, FS_AddElement
  <2>5. IsFiniteSet({} \cup {"intent"} \cup {"profile"} \cup {"podError"} \cup {"tick"})
    BY <2>4, FS_AddElement
  <2>6. Producers = {} \cup {"intent"} \cup {"profile"} \cup {"podError"} \cup {"tick"}
    BY DEF Producers
  <2> QED
    BY <2>5, <2>6
<1>2. ASSUME NEW U, IsFiniteSet(U), NEW S \in SUBSET U
      PROVE  IsFiniteSet(S) /\ Cardinality(S) \in Nat
  BY <1>2, FS_Subset, FS_CardinalityType
<1> QED
  BY <1>1, <1>2, WorkersAssumption

\* While an intent is in the plan cache, no step adds to its work: the loop of
\* processIntents passes it over, and the rest of the way of a key, from the
\* sender to the channel to a worker, only moves it.
LEMMA PendingStep ==
  ASSUME IInv, [Next]_vars, NEW k \in Keys, IsIn(k), IsIn(k)'
  PROVE  Pending(k)' <= Pending(k)
<1> DEFINE a == Cardinality(Places(tasks, k))
           b == Cardinality(Senders(k))
           c == Cardinality(Receivers(k))
<1>1. Pending(k) = a + b + c /\ (Pending(k))' = a' + b' + c'
  BY DEF Pending, Places, Senders, Receivers
<1>2. IInv'
  BY NextIInv
<1>3. a \in Nat /\ b \in Nat /\ c \in Nat /\ a' \in Nat /\ b' \in Nat /\ c' \in Nat
  <2>1. tasks \in Seq(Keys) /\ tasks' \in Seq(Keys)
    BY <1>2 DEF IInv, TypeOK
  <2>2. /\ Senders(k) \in SUBSET Producers /\ Senders(k)' \in SUBSET Producers
        /\ Receivers(k) \in SUBSET Workers /\ Receivers(k)' \in SUBSET Workers
    BY DEF Senders, Receivers
  <2>3. Places(tasks, k)' = Places(tasks', k)
    BY DEF Places
  <2>4. a \in Nat /\ a' \in Nat
    BY <2>1, <2>3, PlacesFinite
  <2>5. b \in Nat /\ b' \in Nat
    BY <2>2, ActorsFinite
  <2>6. c \in Nat /\ c' \in Nat
    BY <2>2, ActorsFinite
  <2> QED
    BY <2>4, <2>5, <2>6
\* The numbers after the step.
<1>0. PICK a1 \in Nat, b1 \in Nat, c1 \in Nat : a1 = a' /\ b1 = b' /\ c1 = c'
  BY <1>3
<1>4. tasks' = tasks => a1 = a
  BY <1>0 DEF Places
<1>5. pcur' = pcur => b1 = b
  BY <1>0 DEF Senders
<1>6. Receivers(k)' \subseteq Receivers(k) => c1 <= c
  <2>1. Receivers(k) \in SUBSET Workers
    BY DEF Receivers
  <2> QED
    BY <1>0, <2>1, ActorsFinite, FS_Subset
<1>7. wjob' = wjob /\ wpc' = wpc => c1 = c
  BY <1>0 DEF Receivers
<1> USE DEF IInv
<1> HIDE DEF a, b, c
<1>8. ASSUME UNCHANGED <<tasks, pcur, wjob, wpc>> PROVE a1 + b1 + c1 <= a + b + c
  BY <1>3, <1>4, <1>5, <1>7, <1>8
<1>9. ASSUME NEW p \in Producers, NEW j \in Keys, Iterate(p, j)
      PROVE  a1 + b1 + c1 <= a + b + c
  <2>1. tasks' = tasks /\ wjob' = wjob /\ wpc' = wpc
    BY <1>9 DEF Iterate
  \* A key that is sent is not in the cache, so that it is not k.
  <2>2. Senders(k)' \subseteq Senders(k)
    BY <1>9 DEF Iterate, Throttled, Senders, TypeOK
  <2>3. b1 <= b
    <3>1. Senders(k)' \in SUBSET Senders(k) /\ Senders(k) \in SUBSET Producers
      BY <2>2 DEF Senders
    <3> QED
      BY <1>0, <3>1, ActorsFinite, FS_Subset DEF b
  <2>4. a1 = a /\ c1 = c
    BY <1>4, <1>7, <2>1
  <2> QED
    BY <1>3, <2>3, <2>4
<1>10. ASSUME NEW p \in Producers, Send(p)
       PROVE  a1 + b1 + c1 <= a + b + c
  <2>1. /\ wjob' = wjob /\ wpc' = wpc
        /\ pcur[p] \in Keys
        /\ tasks' = Append(tasks, pcur[p]) /\ tasks \in Seq(Keys)
    BY <1>10 DEF Send, JobInv, TypeOK
  <2>2. a1 = a + (IF pcur[p] = k THEN 1 ELSE 0)
    <3>1. a1 = Cardinality(Places(Append(tasks, pcur[p]), k))
      BY <1>0, <2>1 DEF a, Places
    <3> QED
      BY <2>1, <3>1, PlacesAppend DEF a
  <2>3. Senders(k)' = Senders(k) \ {p}
    BY <1>10 DEF Send, Senders, TypeOK
  <2>4. p \in Senders(k) <=> pcur[p] = k
    BY DEF Senders
  <2>5. b1 = IF pcur[p] = k THEN b - 1 ELSE b
    <3>1. Senders(k) \in SUBSET Producers
      BY DEF Senders
    <3>2. IsFiniteSet(Senders(k))
      BY <3>1, ActorsFinite
    <3> QED
      BY <1>0, <2>3, <2>4, <3>2, FS_RemoveElement DEF b
  <2> QED
    BY <1>3, <1>7, <2>1, <2>2, <2>5
<1>11. ASSUME NEW w \in Workers, WorkerRecv(w)
       PROVE  a1 + b1 + c1 <= a + b + c
  <2>1. /\ pcur' = pcur
        /\ tasks' = Tail(tasks) /\ tasks \in Seq(Keys) /\ tasks # <<>>
    BY <1>11 DEF WorkerRecv, TypeOK
  <2>2. a1 + (IF Head(tasks) = k THEN 1 ELSE 0) <= a
    <3>1. a1 = Cardinality(Places(Tail(tasks), k))
      BY <1>0, <2>1 DEF a, Places
    <3> QED
      BY <2>1, <3>1, PlacesTail DEF a
  <2>3. CASE Head(tasks) = k
    <3>1. Receivers(k)' \subseteq Receivers(k) \cup {w}
      BY <1>11 DEF WorkerRecv, Receivers, TypeOK, WorkerGoTo
    <3>2. c1 <= c + 1
      <4>1. Receivers(k) \in SUBSET Workers
        BY DEF Receivers
      <4>2. IsFiniteSet(Receivers(k))
        BY <4>1, ActorsFinite
      <4>3. /\ IsFiniteSet(Receivers(k) \cup {w})
            /\ Cardinality(Receivers(k) \cup {w}) <= c + 1
            /\ Cardinality(Receivers(k) \cup {w}) \in Nat
        <5>1. /\ IsFiniteSet(Receivers(k) \cup {w})
              /\ Cardinality(Receivers(k) \cup {w}) = IF w \in Receivers(k) THEN c ELSE c + 1
          BY <4>2, FS_AddElement DEF c
        <5>2. Cardinality(Receivers(k) \cup {w}) \in Nat
          BY <5>1, FS_CardinalityType, ZenonT(30)
        <5> QED
          BY <1>3, <5>1, <5>2
      <4>4. c1 <= Cardinality(Receivers(k) \cup {w})
        BY <1>0, <3>1, <4>3, FS_Subset DEF c
      <4> QED
        BY <1>3, <4>3, <4>4
    <3> QED
      BY <1>3, <1>5, <2>1, <2>2, <2>3, <3>2
  <2>4. CASE Head(tasks) # k
    <3>1. Receivers(k)' \subseteq Receivers(k)
      BY <1>11, <2>4 DEF WorkerRecv, Receivers, TypeOK, WorkerGoTo
    <3> QED
      BY <1>3, <1>5, <1>6, <2>1, <2>2, <2>4, <3>1
  <2> QED
    BY <2>3, <2>4
<1>12. ASSUME NEW w \in Workers,
              \/ WorkerLock(w) \/ WorkerRead(w)
              \/ \E nonEmpty \in BOOLEAN : WorkerPlan(w, nonEmpty)
              \/ WorkerPut(w) \/ WorkerFinish(w)
       PROVE  a1 + b1 + c1 <= a + b + c
  <2>1. tasks' = tasks /\ pcur' = pcur
    BY <1>12 DEF WorkerLock, WorkerRead, WorkerPlan, WorkerPut, WorkerFinish
  <2>2. /\ \A v \in Workers : v # w => wpc'[v] = wpc[v] /\ wjob'[v] = wjob[v]
        /\ wpc'[w] \in {"lock", "read", "plan"}
             => wpc[w] \in {"lock", "read", "plan"} /\ wjob'[w].key = wjob[w].key
    BY <1>12 DEF WorkerLock, WorkerRead, WorkerPlan, WorkerPut, WorkerFinish,
       WorkerGoTo, TypeOK, Jobs
  <2>3. Receivers(k)' \subseteq Receivers(k)
    BY <2>2 DEF Receivers
  <2> QED
    BY <1>3, <1>4, <1>5, <1>6, <2>1, <2>3
\* A crash empties the cache.
<1>13. ~(\E p \in Writers : CrashAndRestart(p))
  BY DEF CrashAndRestart, IsIn
<1>14. ASSUME \/ \E j \in Keys, i \in IntentStates : UpdateIntent(j, i)
              \/ \E p \in Producers : BeginWrite(p) \/ Skip(p) \/ LockIntents(p) \/ FinishLoop(p)
              \/ WriteStep
              \/ Tick
              \/ \E x \in Planners : SetPlanner(x)
              \/ \E e \in executing : ExecutePlanReturns(e)
              \/ \E x \in effects : TriggerEffectReturns(x)
              \/ PlanCacheStep
              \/ UNCHANGED vars
       PROVE  UNCHANGED <<tasks, pcur, wjob, wpc>>
  BY <1>14 DEF UpdateIntent, BeginWrite, Skip, LockIntents, FinishLoop, WriteStep,
     UpdateProfile, UpdatePodError, Tick, SetPlanner, ExecutePlanReturns,
     TriggerEffectReturns, PlanCacheStep, controllerVars, vars
<1>15. a1 + b1 + c1 <= a + b + c
  BY <1>8, <1>9, <1>10, <1>11, <1>12, <1>13, <1>14
  DEF Next, ProducerStep, WorkerStep, Writers
<1> QED
  BY <1>0, <1>1, <1>15

\* The plan cache bounds the number of plans per intent, for any number of
\* workers and any channel length.
THEOREM ControllerThrottles == Spec => ThrottleBound
<1>1. IInv /\ [Next]_vars
        => [\A k \in Keys : IsIn(k) /\ IsIn(k)' => Pending(k)' <= Pending(k)]_vars
  BY PendingStep
<1> QED
  BY <1>1, InitIInv, NextIInv, PTL DEF Spec, ThrottleBound
=============================================================================
