-------------------------- MODULE IntentController --------------------------
(***************************************************************************)
(* The intent controller of pkg/controller/intent_controller.go: three     *)
(* goroutines that apply the events of the monitors (UpdateIntent,         *)
(* UpdateProfile, UpdatePodError), the ticker goroutine of Run and the     *)
(* workers.  The first four are called producers here: each of them runs   *)
(* processIntents, which queues the known intents on the bounded channel   *)
(* tasks WHILE IT HOLDS intentsLock; a worker takes a key off the channel  *)
(* and needs intentsLock to look at the intent.                            *)
(*                                                                         *)
(* An intent is abstracted to whether it exists and whether it is actively *)
(* managed; what the planner returns is an arbitrary choice between an     *)
(* empty and a non-empty plan.  The plan cache is TTLCache.                *)
(***************************************************************************)
EXTENDS TTLCache, Sequences, FiniteSets

CONSTANTS
    Workers,      \* the worker goroutines started by Run
    ChanLen,      \* TaskChannelLength
    Planners,     \* planners SetPlanner may be called with
    NoPlanner,    \* the nil planner
    Profiles,     \* keys of KPI profiles
    Pods,         \* keys of PODs
    MaxErrors,    \* bound: errors recorded for one POD
    NoOne,        \* holder of a lock that is free
    NoKey         \* the key of a goroutine that has none

MaxTaskChannelLen == 10000

\* NewController refuses any other length; ParseConfig wants a worker and no
\* more of them than a multiple of the machine's cores.
ASSUME ChanLenAssumption == ChanLen \in 1 .. MaxTaskChannelLen
ASSUME WorkersAssumption == Workers # {} /\ IsFiniteSet(Workers)
ASSUME MaxErrorsAssumption == MaxErrors \in Nat

Producers == {"intent", "profile", "podError", "tick"}

ASSUME NamesAssumption ==
    /\ Workers \cap Producers = {}
    /\ NoOne \notin Workers \cup Producers
    /\ NoPlanner \notin Planners
    /\ NoKey \notin Keys

VARIABLES
    intents,      \* [Keys -> {"none", "passive", "active"}]: the map intents
    profiles,     \* the keys of the map profiles
    podErrors,    \* [Pods -> number of recorded errors]
    tasks,        \* the buffered channel of intent keys
    intentsLock,  \* the goroutine that holds intentsLock, or NoOne
    warmupDone,
    planner,
    ppc,          \* where a producer is
    ptodo,        \* the keys its loop over the intents has left
    pcur,         \* the key it is sending
    wpc,          \* where a worker is
    wjob,         \* the worker's key, planner and copy of the intent
    executing,    \* <<key, planner>> of the goroutines running ExecutePlan
    effects       \* the planners a goroutine runs TriggerEffect of

controllerVars ==
    <<intents, profiles, podErrors, tasks, intentsLock, warmupDone, planner,
      ppc, ptodo, pcur, wpc, wjob, executing, effects>>

vars == <<controllerVars, cacheVars>>

IntentStates == {"none", "passive", "active"}
PlannerOrNil == Planners \cup {NoPlanner}
Jobs == [key : Keys \cup {NoKey}, planner : PlannerOrNil, intent : IntentStates]
NoJob == [key |-> NoKey, planner |-> NoPlanner, intent |-> "none"]

Init ==
    /\ CacheInit
    /\ intents = [k \in Keys |-> "none"]
    /\ profiles = {}
    /\ podErrors = [q \in Pods |-> 0]
    /\ tasks = <<>>
    /\ intentsLock = NoOne
    /\ warmupDone = FALSE
    /\ planner = NoPlanner
    /\ ppc = [p \in Producers |-> "idle"]
    /\ ptodo = [p \in Producers |-> {}]
    /\ pcur = [p \in Producers |-> NoKey]
    /\ wpc = [w \in Workers |-> "recv"]
    /\ wjob = [w \in Workers |-> NoJob]
    /\ executing = {}
    /\ effects = {}

-----------------------------------------------------------------------------
(* Producers. *)

\* intentsLock.Lock() returns; RLock is never used.
LockFree == intentsLock = NoOne

\* Mutant: the flag is not looked at.
AlwaysWarm == TRUE

\* processIntents' copy of the flag.
WarmedUp == warmupDone

\* Mutant: the plan cache is not asked.
NeverThrottled(k) == FALSE

\* processIntents passes over an intent that was planned for recently.
Throttled(k) == IsIn(k)

GoTo(p, pc) == ppc' = [ppc EXCEPT ![p] = pc]

SetPlanner(a) ==
    /\ planner' = a
    /\ UNCHANGED <<intents, profiles, podErrors, tasks, intentsLock, warmupDone,
                   ppc, ptodo, pcur, wpc, wjob, executing, effects, cacheVars>>

\* An event of the intent monitor: Priority >= 0 stores the intent, a
\* negative one ("none") removes it; all of it is one critical section.
UpdateIntent(k, i) ==
    /\ ppc["intent"] = "idle"
    /\ LockFree
    /\ intents' = [intents EXCEPT ![k] = i]
    /\ GoTo("intent", "trigger")
    /\ UNCHANGED <<profiles, podErrors, tasks, intentsLock, warmupDone, planner,
                   ptodo, pcur, wpc, wjob, executing, effects, cacheVars>>

\* An event of the profile or POD monitor was received: its goroutine is
\* between Lock and Unlock of profilesLock or podErrorLock, which no other
\* goroutine takes.
BeginWrite(p) ==
    /\ ppc[p] = "idle"
    /\ GoTo(p, "write")
    /\ UNCHANGED <<intents, profiles, podErrors, tasks, intentsLock, warmupDone,
                   planner, ptodo, pcur, wpc, wjob, executing, effects, cacheVars>>

\* ProfileType > Obsolete stores the profile, Obsolete deletes it.
UpdateProfile(f, keep) ==
    /\ ppc["profile"] = "write"
    /\ profiles' = IF keep THEN profiles \cup {f} ELSE profiles \ {f}
    /\ GoTo("profile", "trigger")
    /\ UNCHANGED <<intents, podErrors, tasks, intentsLock, warmupDone, planner,
                   ptodo, pcur, wpc, wjob, executing, effects, cacheVars>>

\* A start time appends the error, none deletes the POD's history.
UpdatePodError(q, keep) ==
    /\ ppc["podError"] = "write"
    /\ keep => podErrors[q] < MaxErrors
    /\ podErrors' = [podErrors EXCEPT ![q] = IF keep THEN @ + 1 ELSE 0]
    /\ GoTo("podError", "trigger")
    /\ UNCHANGED <<intents, profiles, tasks, intentsLock, warmupDone, planner,
                   ptodo, pcur, wpc, wjob, executing, effects, cacheVars>>

\* A tick of the controller's ticker; the first one ends the warm-up.
Tick ==
    /\ ppc["tick"] = "idle"
    /\ warmupDone' = TRUE
    /\ GoTo("tick", "trigger")
    /\ UNCHANGED <<intents, profiles, podErrors, tasks, intentsLock, planner,
                   ptodo, pcur, wpc, wjob, executing, effects, cacheVars>>

\* processIntents during the warm-up.
Skip(p) ==
    /\ ppc[p] = "trigger"
    /\ ~WarmedUp
    /\ GoTo(p, "idle")
    /\ UNCHANGED <<intents, profiles, podErrors, tasks, intentsLock, warmupDone,
                   planner, ptodo, pcur, wpc, wjob, executing, effects, cacheVars>>

\* processIntents takes intentsLock and starts to range over the intents.
LockIntents(p) ==
    /\ ppc[p] = "trigger"
    /\ WarmedUp
    /\ LockFree
    /\ intentsLock' = p
    /\ GoTo(p, "iter")
    /\ ptodo' = [ptodo EXCEPT ![p] = {k \in Keys : intents[k] # "none"}]
    /\ UNCHANGED <<intents, profiles, podErrors, tasks, warmupDone, planner,
                   pcur, wpc, wjob, executing, effects, cacheVars>>

\* The next intent of the range, in any order: one that is in the plan cache
\* is passed over, the others are sent.
Iterate(p, k) ==
    /\ ppc[p] = "iter"
    /\ k \in ptodo[p]
    /\ ptodo' = [ptodo EXCEPT ![p] = @ \ {k}]
    /\ IF Throttled(k)
         THEN UNCHANGED <<ppc, pcur>>
         ELSE GoTo(p, "send") /\ pcur' = [pcur EXCEPT ![p] = k]
    /\ UNCHANGED <<intents, profiles, podErrors, tasks, intentsLock, warmupDone,
                   planner, wpc, wjob, executing, effects, cacheVars>>

\* Mutant: one key too many.
HasRoomForOneMore == Len(tasks) <= ChanLen

HasRoom == Len(tasks) < ChanLen

\* c.tasks <- key, which blocks while the channel is full.
Send(p) ==
    /\ ppc[p] = "send"
    /\ HasRoom
    /\ tasks' = Append(tasks, pcur[p])
    /\ pcur' = [pcur EXCEPT ![p] = NoKey]
    /\ GoTo(p, "iter")
    /\ UNCHANGED <<intents, profiles, podErrors, intentsLock, warmupDone, planner,
                   ptodo, wpc, wjob, executing, effects, cacheVars>>

\* Mutant: an early return that leaves intentsLock taken.
FinishLoopLocked(p) ==
    /\ ppc[p] = "iter"
    /\ ptodo[p] = {}
    /\ GoTo(p, "idle")
    /\ UNCHANGED <<intents, profiles, podErrors, tasks, intentsLock, warmupDone,
                   planner, ptodo, pcur, wpc, wjob, executing, effects, cacheVars>>

\* The range is done: unlock and wait for the next event or tick.
FinishLoop(p) ==
    /\ ppc[p] = "iter"
    /\ ptodo[p] = {}
    /\ intentsLock' = NoOne
    /\ GoTo(p, "idle")
    /\ UNCHANGED <<intents, profiles, podErrors, tasks, warmupDone, planner,
                   ptodo, pcur, wpc, wjob, executing, effects, cacheVars>>

-----------------------------------------------------------------------------
(* Workers. *)

WorkerGoTo(w, pc) == wpc' = [wpc EXCEPT ![w] = pc]

\* The next key of the channel; without a planner it is dropped.
WorkerRecv(w) ==
    /\ wpc[w] = "recv"
    /\ tasks # <<>>
    /\ tasks' = Tail(tasks)
    /\ IF planner = NoPlanner
         THEN UNCHANGED <<wpc, wjob>>
         ELSE /\ WorkerGoTo(w, "lock")
              /\ wjob' = [wjob EXCEPT ![w] = [key |-> Head(tasks),
                                              planner |-> planner,
                                              intent |-> "none"]]
    /\ UNCHANGED <<intents, profiles, podErrors, intentsLock, warmupDone, planner,
                   ppc, ptodo, pcur, executing, effects, cacheVars>>

\* Mutant: the worker looks at the intents without their lock.
WorkerLockMissing(w) ==
    /\ wpc[w] = "lock"
    /\ WorkerGoTo(w, "read")
    /\ UNCHANGED <<intents, profiles, podErrors, tasks, intentsLock, warmupDone, planner,
                   ppc, ptodo, pcur, wjob, executing, effects, cacheVars>>

WorkerLock(w) ==
    /\ wpc[w] = "lock"
    /\ LockFree
    /\ intentsLock' = w
    /\ WorkerGoTo(w, "read")
    /\ UNCHANGED <<intents, profiles, podErrors, tasks, warmupDone, planner,
                   ppc, ptodo, pcur, wjob, executing, effects, cacheVars>>

\* getCurrentState and getDesiredState under intentsLock; they read profiles
\* and podErrors, whose own locks are not taken.  An intent that is gone
\* reads as the zero Intent, which is not actively managed.
WorkerRead(w) ==
    /\ wpc[w] = "read"
    /\ wjob' = [wjob EXCEPT ![w].intent = intents[wjob[w].key]]
    /\ intentsLock' = NoOne
    /\ WorkerGoTo(w, "plan")
    /\ UNCHANGED <<intents, profiles, podErrors, tasks, warmupDone, planner,
                   ppc, ptodo, pcur, executing, effects, cacheVars>>

\* CreatePlan returned: a non-empty plan of an actively managed intent is
\* executed by a goroutine of its own.
WorkerPlan(w, nonEmpty) ==
    /\ wpc[w] = "plan"
    /\ IF nonEmpty /\ wjob[w].intent = "active"
         THEN /\ executing' = executing \cup {<<wjob[w].key, wjob[w].planner>>}
              /\ WorkerGoTo(w, "put")
         ELSE /\ WorkerGoTo(w, "effect")
              /\ UNCHANGED executing
    /\ UNCHANGED <<intents, profiles, podErrors, tasks, intentsLock, warmupDone,
                   planner, ppc, ptodo, pcur, wjob, effects, cacheVars>>

\* planCache.Put, after the execution was started.
WorkerPut(w) ==
    /\ wpc[w] = "put"
    /\ Put(wjob[w].key)
    /\ WorkerGoTo(w, "effect")
    /\ UNCHANGED <<intents, profiles, podErrors, tasks, intentsLock, warmupDone,
                   planner, ppc, ptodo, pcur, wjob, executing, effects>>

\* TriggerEffect starts in a goroutine, the event is traced, next key.
WorkerFinish(w) ==
    /\ wpc[w] = "effect"
    /\ effects' = effects \cup {wjob[w].planner}
    /\ wjob' = [wjob EXCEPT ![w] = NoJob]
    /\ WorkerGoTo(w, "recv")
    /\ UNCHANGED <<intents, profiles, podErrors, tasks, intentsLock, warmupDone,
                   planner, ppc, ptodo, pcur, executing, cacheVars>>

ExecutePlanReturns(e) ==
    /\ e \in executing
    /\ executing' = executing \ {e}
    /\ UNCHANGED <<intents, profiles, podErrors, tasks, intentsLock, warmupDone,
                   planner, ppc, ptodo, pcur, wpc, wjob, effects, cacheVars>>

TriggerEffectReturns(a) ==
    /\ a \in effects
    /\ effects' = effects \ {a}
    /\ UNCHANGED <<intents, profiles, podErrors, tasks, intentsLock, warmupDone,
                   planner, ppc, ptodo, pcur, wpc, wjob, executing, cacheVars>>

-----------------------------------------------------------------------------
\* A goroutine reads the map that p is writing: workers read both maps, plans
\* and the goroutines of TriggerEffect the profiles.
DataRace(p) ==
    /\ ppc[p] = "write"
    /\ \/ \E w \in Workers : wpc[w] = "read"
       \/ p = "profile" /\ (effects # {} \/ \E w \in Workers : wpc[w] = "plan")

\* The Go runtime may notice the race ("concurrent map read and map write")
\* and end the process, which starts from nothing; or it may not notice.
CrashAndRestart(p) ==
    /\ DataRace(p)
    /\ entries' = [k \in Keys |-> Absent] /\ tick' = NoTick
    /\ intents' = [k \in Keys |-> "none"]
    /\ profiles' = {} /\ podErrors' = [q \in Pods |-> 0]
    /\ tasks' = <<>> /\ intentsLock' = NoOne
    /\ warmupDone' = FALSE /\ planner' = NoPlanner
    /\ ppc' = [q \in Producers |-> "idle"]
    /\ ptodo' = [q \in Producers |-> {}]
    /\ pcur' = [q \in Producers |-> NoKey]
    /\ wpc' = [w \in Workers |-> "recv"]
    /\ wjob' = [w \in Workers |-> NoJob]
    /\ executing' = {} /\ effects' = {}

PlanCacheStep ==
    /\ Elapse \/ TickerFires \/ Evict
    /\ UNCHANGED controllerVars

ProducerStep(p) ==
    \/ Skip(p) \/ LockIntents(p) \/ Send(p) \/ FinishLoop(p)
    \/ \E k \in Keys : Iterate(p, k)

WorkerStep(w) ==
    \/ WorkerRecv(w) \/ WorkerLock(w) \/ WorkerRead(w)
    \/ \E nonEmpty \in BOOLEAN : WorkerPlan(w, nonEmpty)
    \/ WorkerPut(w) \/ WorkerFinish(w)

\* The goroutines whose monitor has something to report.
Writers ==
    {p \in Producers : \/ p = "profile" /\ Profiles # {}
                       \/ p = "podError" /\ Pods # {}}

WriteStep ==
    \/ \E f \in Profiles, keep \in BOOLEAN : UpdateProfile(f, keep)
    \/ \E q \in Pods, keep \in BOOLEAN : UpdatePodError(q, keep)

Next ==
    \/ \E a \in Planners : SetPlanner(a)
    \/ \E k \in Keys, i \in IntentStates : UpdateIntent(k, i)
    \/ \E p \in Producers : ProducerStep(p)
    \/ \E p \in Writers : BeginWrite(p) \/ CrashAndRestart(p)
    \/ WriteStep
    \/ Tick
    \/ \E w \in Workers : WorkerStep(w)
    \/ \E e \in executing : ExecutePlanReturns(e)
    \/ \E a \in effects : TriggerEffectReturns(a)
    \/ PlanCacheStep

Spec == Init /\ [][Next]_vars

(***************************************************************************)
(* Fairness.  Go schedules every runnable goroutine, sync.RWMutex hands    *)
(* the lock to a waiter it would starve, and the senders and receivers     *)
(* that wait for a channel are served in the order of their arrival: a     *)
(* goroutine that finds its next step possible again and again takes it,   *)
(* hence strong fairness for producers and workers.  The ticker keeps      *)
(* firing, main sets a planner, and the planner's calls return.  Nothing   *)
(* is assumed about the events of the monitors.                            *)
(***************************************************************************)
Fairness ==
    /\ WF_vars(Tick)
    /\ WF_vars(planner = NoPlanner /\ \E a \in Planners : SetPlanner(a))
    /\ WF_vars(WriteStep)
    /\ \A p \in Producers : SF_vars(ProducerStep(p))
    /\ \A w \in Workers : SF_vars(WorkerStep(w))
    /\ SF_vars(Elapse /\ UNCHANGED controllerVars)
    /\ WF_vars(TickerFires /\ UNCHANGED controllerVars)
    /\ WF_vars(Evict /\ UNCHANGED controllerVars)

FairSpec == Spec /\ Fairness

-----------------------------------------------------------------------------
(* Properties. *)

\* The channel holds keys only and never more than its capacity, and every
\* goroutine is at a known place.
TypeOK ==
    /\ CacheTypeOK
    /\ intents \in [Keys -> IntentStates]
    /\ profiles \subseteq Profiles
    /\ podErrors \in [Pods -> 0 .. MaxErrors]
    /\ tasks \in Seq(Keys) /\ Len(tasks) <= ChanLen
    /\ intentsLock \in Producers \cup Workers \cup {NoOne}
    /\ warmupDone \in BOOLEAN
    /\ planner \in PlannerOrNil
    /\ ppc \in [Producers -> {"idle", "write", "trigger", "iter", "send"}]
    /\ ptodo \in [Producers -> SUBSET Keys]
    /\ pcur \in [Producers -> Keys \cup {NoKey}]
    /\ wpc \in [Workers -> {"recv", "lock", "read", "plan", "put", "effect"}]
    /\ wjob \in [Workers -> Jobs]
    /\ executing \subseteq Keys \X Planners
    /\ effects \subseteq Planners

\* intentsLock excludes: exactly the goroutine that holds it is in a critical
\* section (the loop of processIntents, or a worker's reading of the state),
\* so that no two of them are ever in one.
LockInv ==
    /\ \A p \in Producers : ppc[p] \in {"iter", "send"} <=> intentsLock = p
    /\ \A w \in Workers : wpc[w] = "read" <=> intentsLock = w

\* A goroutine that is past its receive or about to send has what it works on.
JobInv ==
    /\ \A p \in Producers : ppc[p] = "send" => pcur[p] \in Keys
    /\ \A w \in Workers : wpc[w] # "recv" => /\ wjob[w].key \in Keys
                                             /\ wjob[w].planner \in Planners

\* The inductive invariant: JobInv is what keeps the types of executing,
\* effects and tasks, LockInv needs the types of the program counters.
IInv == TypeOK /\ JobInv /\ LockInv

\* No intent is queued, planned or executed before the first tick: the
\* monitors get the time to fill the maps.
QuietUntilWarm ==
    ~warmupDone => /\ tasks = <<>>
                   /\ \A p \in Producers : ppc[p] \notin {"iter", "send"}
                   /\ \A w \in Workers : wpc[w] = "recv"
                   /\ executing = {}

\* The work there is for an intent: its places in the channel, a producer
\* sending it and the workers that have not created its plan yet.
Pending(k) ==
    Cardinality({n \in 1 .. Len(tasks) : tasks[n] = k})
    + Cardinality({p \in Producers : pcur[p] = k})
    + Cardinality({w \in Workers : /\ wjob[w].key = k
                                   /\ wpc[w] \in {"lock", "read", "plan"}})

\* While an intent stays in the plan cache no new work for it is created: of
\* the plans a cached intent still gets, each was pending when it came in.
ThrottleBound ==
    [][\A k \in Keys : IsIn(k) /\ IsIn(k)' => Pending(k)' <= Pending(k)]_vars

(***************************************************************************)
(* The controller's only deadlock.  A producer sends on the full channel   *)
(* while it holds intentsLock, and every worker that could take a key off  *)
(* the channel first wants intentsLock.                                    *)
(***************************************************************************)
Wedged ==
    /\ ~HasRoom
    /\ \E p \in Producers : ppc[p] = "send"
    /\ \A w \in Workers : wpc[w] = "lock"

ProducerBlocked(p) ==
    \/ ppc[p] = "idle"
    \/ ppc[p] = "trigger" /\ warmupDone /\ intentsLock # NoOne
    \/ ppc[p] = "send" /\ ~HasRoom

WorkerBlocked(w) ==
    \/ wpc[w] = "recv" /\ tasks = <<>>
    \/ wpc[w] = "lock" /\ intentsLock # NoOne

Quiescent ==
    /\ intentsLock = NoOne
    /\ \A p \in Producers : ppc[p] = "idle"
    /\ \A w \in Workers : wpc[w] = "recv"

\* Whenever no goroutine of the controller can take a step of its own, all of
\* them have finished their work, or it is the deadlock Wedged: there is no
\* other way to get stuck.
StuckOnlyIfWedged ==
    /\ \A p \in Producers : ProducerBlocked(p)
    /\ \A w \in Workers : WorkerBlocked(w)
    => Wedged \/ Quiescent

\* Nothing the controller does gets it out of that deadlock: no event, no
\* tick, no eviction, no new planner; only a crash of the process does.
WedgeIsPermanent == [][Wedged => Wedged' \/ Init']_vars

Planned(k) == \E w \in Workers : wpc[w] = "plan" /\ wjob[w].key = k

\* Every intent is compared with its workload again and again, the plan cache
\* notwithstanding, unless it is withdrawn or the controller is wedged.
EvaluatedUnlessWedged ==
    \A k \in Keys : []<>(Planned(k) \/ intents[k] = "none" \/ Wedged)

\* docs/framework.md:25, "The Intent Controller will continuously compare the
\* current state of a workload (as defined by its current objectives) to the
\* desired state": as above, and no deadlock is excused.
ContinuouslyCompared ==
    \A k \in Keys : []<>(Planned(k) \/ intents[k] = "none")
=============================================================================
