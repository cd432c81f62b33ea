------------------------------ MODULE Scaling ------------------------------
(***************************************************************************)
(* The scale-out, remove-POD and CPU-scale actuators of                    *)
(* pkg/planner/actuators/scaling: the follow-up states they name in        *)
(* NextState and what their Perform does to the workload.                  *)
(*                                                                         *)
(* The workload (a Deployment or a ReplicaSet: the code is the same twice) *)
(* has a number of replicas and the CPU request of its last container,     *)
(* kept by the API server.  Its PODs follow the replicas with a delay: a   *)
(* plan may start from any number of them.  Several plans are executed at  *)
(* a time, as the controller starts a goroutine per plan, and users scale  *)
(* the workload too.  Whether a state helps an objective is a prediction   *)
(* of a fitted model: any of the states within the limits may be named.    *)
(* BoostFactor is at most 1: the CPU limit is the request or is not set.   *)
(***************************************************************************)
EXTENDS Integers, FiniteSets

CONSTANTS
    Executors,              \* goroutines of the controller: a plan each
    MaxPods,                \* ScaleOutConfig.MaxPods
    MinPods,                \* RmPodConfig.MinPods
    CPURounding,            \* CPUScaleConfig.CPURounding
    MaxProActiveCPU,        \* CPUScaleConfig.MaxProActiveCPU
    Predictions,            \* the CPU values the fitted model can ask for
    Retries,                \* retry.DefaultRetry.Steps
    SeenPods,               \* the numbers of PODs a plan can start from
    UserReplicas,           \* the numbers of replicas users set
    MaxLen, MaxPlans        \* bounds: of the length and the number of plans

ASSUME ScalingAssumption ==
    /\ {MaxPods, MinPods, CPURounding, Retries} \subseteq Nat \ {0}
    /\ {MaxLen, MaxPlans} \subseteq Nat
    \* rand.Int63n panics for an increment below 2.
    /\ MaxProActiveCPU = 0 \/ MaxProActiveCPU \in Nat \ 0 .. 19
    /\ Predictions \subseteq Nat \ {0} /\ SeenPods \subseteq Nat /\ UserReplicas \subseteq Nat

VARIABLES
    replicas, cpu,  \* the workload's specification at the API server
    fresh,          \* the executors whose copy is the newest version of it
    epc,            \* what an executor does: nothing, iterate or Perform
    job,            \* its plan and the state the plan was made from
    copy,           \* its copy of the workload, in Perform
    tries,          \* its attempts to update it
    left,           \* the actuators Iter has not come to yet
    plans,          \* the number of plans so far
    expected, lastCPU   \* history: the replicas a user set last with what plans
                        \* added since then, and the last CPU value accepted

workloadVars == <<replicas, cpu>>
historyVars == <<expected, lastCPU>>
scalingVars == <<workloadVars, fresh, epc, job, copy, tries, left, plans, historyVars>>

Actuators == {"scaleOut", "rmPod", "scaleCPU"}
Updating == {"scaleOut", "scaleCPU"}
NoCopy == [replicas |-> -1, cpu |-> -1]
NoValue == -1
NoJob == [seen |-> 0, factor |-> 0, cpu |-> NoValue, extra |-> FALSE]

CPUIncrement == MaxProActiveCPU \div 10

\* cpuIncrement is subtracted with a random part of up to half of it added.
Increments == {CPUIncrement} \cup {r - CPUIncrement : r \in 0 .. (CPUIncrement \div 2) - 1}

ScalingInit ==
    /\ replicas \in UserReplicas
    /\ cpu = 0
    /\ fresh = {}
    /\ epc = [e \in Executors |-> "idle"]
    /\ job = [e \in Executors |-> NoJob]
    /\ copy = [e \in Executors |-> NoCopy]
    /\ tries = [e \in Executors |-> 0]
    /\ left = [e \in Executors |-> {}]
    /\ plans = 0
    /\ expected = replicas /\ lastCPU = 0

-----------------------------------------------------------------------------
(* Planning: a plan is a path of follow-up states, here the record of what   *)
(* its actions add up to, with the size of the last state's CurrentPods.     *)

\* The loop of findStates runs from len - 1 to MaxPods - 1 and adds a POD each
\* time; the proactive scale-out by one is among its results.  (If a dummy's
\* name is taken no POD is added, and the action changes nothing.)
ScaleOutNextState(j) ==
    {[j EXCEPT !.size = size, !.out = @ + (size - j.size)] : size \in j.size + 1 .. MaxPods + 1}

\* A state with fewer PODs than MinPods is not named; all entries of
\* CurrentPods count, the ones that were only added for the planner too.  A
\* running POD is removed, not one that only the planner knows.
MayRemove(j) == j.size - 1 >= MinPods /\ j.rm < j.seen

RmPodNextState(j) ==
    {r \in {[j EXCEPT !.size = @ - 1, !.rm = @ + 1]} : MayRemove(j)}

roundUpCores(n) == (n \div CPURounding) * CPURounding + CPURounding

\* findStates: once per plan, and only a value that is new.
CPUFindStates(j) ==
    {[j EXCEPT !.cpu = roundUpCores(p)] : p \in {q \in Predictions : roundUpCores(q) # j.seenCPU}}

\* What proactiveScaling asks for: a step up or down within the limits.  An
\* intent without a latency objective has no step, and the value is 0.
ProactiveValues(j) ==
    IF j.latency THEN {j.seenCPU + i : i \in Increments} \cap (CPUIncrement .. MaxProActiveCPU)
    ELSE {0} \ {j.seenCPU}

\* The state is marked by an additional entry of CurrentPods.
CPUProactive(j) ==
    {[j EXCEPT !.cpu = value, !.size = @ + 1, !.extra = TRUE] : value \in ProactiveValues(j)}

CPUNextState(j) ==
    IF j.cpu # NoValue \/ j.size = 0 THEN {}
    ELSE (IF j.latency THEN CPUFindStates(j) ELSE {}) \cup
         (IF MaxProActiveCPU > 0 THEN CPUProactive(j) ELSE {})

\* The plans of up to MaxLen actions from a state with so many PODs and such a
\* CPU request, of an intent with or without a latency objective.
Plans(seen, seenCPU, latency) ==
    LET start == [seen |-> seen, seenCPU |-> seenCPU, latency |-> latency, size |-> seen,
                  out |-> 0, rm |-> 0, cpu |-> NoValue, extra |-> FALSE]
        upTo[k \in 0 .. MaxLen] ==
          IF k = 0 THEN {start}
          ELSE LET shorter == upTo[k-1] IN
               shorter \cup UNION {ScaleOutNextState(j) \cup RmPodNextState(j) \cup
                                     CPUNextState(j) : j \in shorter}
    IN  upTo[MaxLen] \ {start}

\* rmPod and scaleCPU return at once if the plan has no action of theirs,
\* scaleOut never does.
WithWork(j) ==
    {"scaleOut"} \cup {a \in {"rmPod"} : j.rm > 0} \cup {a \in {"scaleCPU"} : j.cpu # NoValue}

\* Mutant: the removals are left to rmPod.
FactorWithoutRemovals(j) == j.out

\* scaleOut's sum over the plan: a removal counts -1.
Factor(j) == j.out - j.rm

\* The larger of request and limit of the last container: see the assumption on
\* BoostFactor.
getResourceValues == cpu

\* A worker reads the current state, finds a plan, and starts its execution.
CreatePlan(e, seen) ==
    /\ epc[e] = "idle" /\ plans < MaxPlans
    /\ plans' = plans + 1
    /\ \E j \in UNION {Plans(seen, getResourceValues, latency) : latency \in BOOLEAN} :
         /\ job' = [job EXCEPT ![e] = [seen |-> seen, factor |-> Factor(j), cpu |-> j.cpu,
                                        extra |-> j.extra]]
         /\ left' = [left EXCEPT ![e] = WithWork(j)]
    /\ epc' = [epc EXCEPT ![e] = "iter"]
    /\ UNCHANGED <<workloadVars, fresh, copy, tries, historyVars>>

-----------------------------------------------------------------------------
(* Perform. *)

\* An actuator is done, and after the last one the plan is.
Return(e, rest) ==
    /\ epc' = [epc EXCEPT ![e] = IF rest = {} THEN "idle" ELSE "iter"]
    /\ job' = [job EXCEPT ![e] = IF rest = {} THEN NoJob ELSE @]
    /\ copy' = [copy EXCEPT ![e] = NoCopy]
    /\ tries' = [tries EXCEPT ![e] = 0]

\* Iter comes to scaleOut or scaleCPU, in any order; or a conflict was met.
GetWorkload(e, a) ==
    /\ \/ epc[e] = "iter" /\ a \in left[e] \ {"rmPod"}
       \/ epc[e] = a /\ copy[e] = NoCopy
    /\ epc' = [epc EXCEPT ![e] = a]
    /\ left' = [left EXCEPT ![e] = @ \ {a}]
    /\ copy' = [copy EXCEPT ![e] = [replicas |-> replicas, cpu |-> cpu]]
    /\ fresh' = fresh \cup {e}
    /\ UNCHANGED <<workloadVars, job, tries, plans, historyVars>>

\* Get or Update fails for another reason than a conflict: logged.
CallFails(e, a) ==
    /\ epc[e] = a \/ (epc[e] = "iter" /\ a \in left[e] \ {"rmPod"})
    /\ Return(e, left[e] \ {a})
    /\ left' = [left EXCEPT ![e] = @ \ {a}]
    /\ fresh' = fresh \ {e}
    /\ UNCHANGED <<workloadVars, plans, historyVars>>

\* rmPod deletes the PODs of the plan, one after the other; the specification
\* of the workload does not change, and what fails is logged.
DeletePods(e) ==
    /\ epc[e] = "iter" /\ "rmPod" \in left[e]
    /\ left' = [left EXCEPT ![e] = @ \ {"rmPod"}]
    /\ Return(e, left[e] \ {"rmPod"})
    /\ UNCHANGED <<workloadVars, fresh, plans, historyVars>>

\* The API server accepts an update of the newest version, and changes the
\* version if the update changes anything.
Write(e, r, c) ==
    /\ replicas' = r /\ cpu' = c
    /\ fresh' = IF r = replicas /\ c = cpu THEN fresh \ {e} ELSE {}

WorthUpdating(r) == r > 0

\* Mutant: the copy is written whatever has happened since.
Overwrites(e) == TRUE

\* Update carries the resource version of the copy Get returned.
Accepted(e) == e \in fresh

\* scaleOut's Update, with the number of replicas that was read.
UpdateReplicas(e) ==
    /\ epc[e] = "scaleOut" /\ copy[e] # NoCopy
    /\ WorthUpdating(copy[e].replicas + job[e].factor)
    /\ Accepted(e)
    /\ Write(e, copy[e].replicas + job[e].factor, copy[e].cpu)
    /\ expected' = expected + job[e].factor
    /\ Return(e, left[e])
    /\ UNCHANGED <<left, plans, lastCPU>>

\* Nothing would be left of the workload: no update, and no error.
NothingLeft(e) ==
    /\ epc[e] = "scaleOut" /\ copy[e] # NoCopy
    /\ ~WorthUpdating(copy[e].replicas + job[e].factor)
    /\ Return(e, left[e])
    /\ fresh' = fresh \ {e}
    /\ UNCHANGED <<workloadVars, left, plans, historyVars>>

UpdateCPU(e) ==
    /\ epc[e] = "scaleCPU" /\ copy[e] # NoCopy
    /\ Accepted(e)
    /\ Write(e, copy[e].replicas, job[e].cpu)
    /\ lastCPU' = job[e].cpu
    /\ Return(e, left[e])
    /\ UNCHANGED <<left, plans, expected>>

\* Mutant: the attempts are not counted.
ConflictForEver(e) ==
    /\ epc[e] \in Updating /\ copy[e] # NoCopy
    /\ epc[e] = "scaleOut" => WorthUpdating(copy[e].replicas + job[e].factor)
    /\ ~Accepted(e)
    /\ copy' = [copy EXCEPT ![e] = NoCopy]
    /\ UNCHANGED <<workloadVars, fresh, epc, job, tries, left, plans, historyVars>>

\* The update is refused: start again with Get, or give up.
Conflict(e) ==
    /\ epc[e] \in Updating /\ copy[e] # NoCopy
    /\ epc[e] = "scaleOut" => WorthUpdating(copy[e].replicas + job[e].factor)
    /\ ~Accepted(e)
    /\ IF tries[e] + 1 < Retries
         THEN /\ tries' = [tries EXCEPT ![e] = @ + 1]
              /\ copy' = [copy EXCEPT ![e] = NoCopy]
              /\ UNCHANGED <<epc, job>>
         ELSE Return(e, left[e])
    /\ UNCHANGED <<workloadVars, fresh, left, plans, historyVars>>

-----------------------------------------------------------------------------
(* The cluster. *)

UserScales(r) ==
    /\ r # replicas
    /\ replicas' = r /\ expected' = r
    /\ fresh' = {}
    /\ UNCHANGED <<cpu, epc, job, copy, tries, left, plans, lastCPU>>

\* A new version without a change of the specification: a status, a label.
Touch ==
    /\ fresh # {}
    /\ fresh' = {}
    /\ UNCHANGED <<workloadVars, epc, job, copy, tries, left, plans, historyVars>>

Performing(e) ==
    \/ \E a \in Updating : GetWorkload(e, a) \/ CallFails(e, a)
    \/ UpdateReplicas(e) \/ NothingLeft(e) \/ UpdateCPU(e) \/ Conflict(e)
    \/ DeletePods(e)

ScalingNext ==
    \/ \E e \in Executors : Performing(e) \/ \E seen \in SeenPods : CreatePlan(e, seen)
    \/ \E r \in UserReplicas : UserScales(r)
    \/ Touch

ScalingSpec == ScalingInit /\ [][ScalingNext]_scalingVars

\* The goroutine of a plan is scheduled and its calls are answered, whatever
\* the users do.
ScalingFairSpec == ScalingSpec /\ \A e \in Executors : WF_scalingVars(Performing(e))

-----------------------------------------------------------------------------
(* Properties. *)

\* No count becomes negative, and a retry loop stays within its attempts.
ScalingTypeOK ==
    /\ replicas \in Nat /\ cpu \in Nat
    /\ fresh \subseteq Executors
    /\ epc \in [Executors -> {"idle", "iter"} \cup Updating]
    /\ job \in [Executors -> [seen : Nat, factor : Int, cpu : Nat \cup {NoValue}, extra : BOOLEAN]]
    /\ copy \in [Executors -> [replicas : Nat, cpu : Nat] \cup {NoCopy}]
    /\ tries \in [Executors -> Nat]
    /\ \A e \in Executors : tries[e] < Retries
    /\ left \in [Executors -> SUBSET Actuators]
    /\ plans \in 0 .. MaxPlans
    /\ expected \in Int /\ lastCPU \in Nat

\* What the optimistic locking rests on: as long as nobody else has written,
\* the copy an update would replace the workload by is the workload itself, and
\* nobody keeps such a copy after its update.
FreshInv ==
    \A e \in fresh : /\ epc[e] \in Updating
                     /\ copy[e] = [replicas |-> replicas, cpu |-> cpu]

\* No update is lost: the replicas are what a user set last plus what every
\* accepted plan added since, and the CPU value is the last one accepted,
\* although the actuators read and write the object as a whole.
NoLostUpdates == replicas = expected /\ cpu = lastCPU

\* The refinement mapping: what a plan asks for and no actuator has decided yet.
Undecided(e) == {a \in Updating : a \in left[e] \/ epc[e] = a}
Request(e, a) == IF a = "scaleOut" THEN [kind |-> "add", n |-> job[e].factor]
                                   ELSE [kind |-> "set", n |-> job[e].cpu]
Asked == [e \in Executors |-> {Request(e, a) : a \in Undecided(e)}]
Work == INSTANCE Workload WITH asked <- Asked

\* Get, Update, conflicts, retries and failures of several plans at a time come
\* down to requests that are carried out once and at one instant, or not at
\* all: a retry never scales twice, and nobody's change is taken back.
ImplementsWorkload == Work!WorkSpec

\* A plan that meets the workload it was made for misses the documented limits by
\* one POD at most: max_pods because findStates adds one more than there is room
\* for (see MaxPodsKept), and min_pods only if the CPU-scale actuator has added
\* an entry for the planner to the PODs that are counted (see MinPodsKept).
MissedByOneAtMost ==
    [][\A e \in Executors :
         /\ epc[e] = "scaleOut" /\ epc'[e] # "scaleOut" /\ replicas' # replicas
         /\ e \in fresh /\ replicas = job[e].seen
         => /\ replicas' > replicas => replicas' <= MaxPods + 1
            /\ replicas' < replicas
                 => replicas' >= MinPods - (IF job[e].extra THEN 1 ELSE 0)]_scalingVars

\* Every plan comes to its end, however many conflicts it meets.
PlansEnd == \A e \in Executors : []<>(epc[e] = "idle")

\* docs/getting_started.md:179, min_pods is the "Minimum number of PODs this
\* actuator will scale to.": a plan that meets the workload it was made for
\* does not take it below.
MinPodsKept ==
    [][\A e \in Executors :
         /\ epc[e] = "scaleOut" /\ epc'[e] # "scaleOut"
         /\ e \in fresh /\ replicas = job[e].seen
         /\ replicas' < replicas
         => replicas' >= MinPods]_scalingVars

\* docs/getting_started.md:165, max_pods is the "Maximum number of PODs this
\* actuator will scale to.": a plan that meets the workload it was made for does
\* not take it above.
MaxPodsKept ==
    [][\A e \in Executors :
         /\ epc[e] = "scaleOut" /\ epc'[e] # "scaleOut"
         /\ e \in fresh /\ replicas = job[e].seen
         /\ replicas' > replicas
         => replicas' <= MaxPods]_scalingVars

=============================================================================
