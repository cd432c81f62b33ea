----------------------------- MODULE MCPlanner -------------------------------
(***************************************************************************)
(* The planner and the monitor of the profiles it compares states by, for  *)
(* TLC.  APlanner says how a plan is found and KPIProfileMonitor which     *)
(* profiles the controller knows; they are looked at one at a time.        *)
(***************************************************************************)
EXTENDS MCAPlanner, KPIProfileMonitor

VARIABLE part     \* the part this behaviour is about

allVars == <<part, plannerVars, profileVars>>

\* Actuators have nothing but their names to tell them apart, and so have the
\* states but the current one: it is enough to look at the plans for which one
\* of them is asked first, and one of them is found first.
FirstActuator == CHOOSE a \in Actuators : TRUE
FirstState == CHOOSE s \in States \ {Start} : TRUE
InOrder ==
    /\ node = Start /\ toAsk = Actuators => asked' \in {Nobody, FirstActuator}
    /\ nodes = {Start, Goal} => nodes' \subseteq {Start, Goal, Mid, FirstState}

\* The planner has returned from a plan for which no actuator named a state.
PlannerAtRest ==
    /\ better = {} /\ dist = [s \in States |-> 300]
    /\ pc = "done"
    /\ nodes = {Start, Goal} /\ edges = <<>>
    /\ queue = <<>> /\ node = Start
    /\ toAsk = {} /\ asked = Nobody /\ count = 0
    /\ hasGoal = FALSE
    /\ plan = <<>>
    /\ SearchInit

MCInit ==
    /\ ProfileInit
    /\ \/ part = "planner" /\ PlannerInit
       \/ part = "profiles" /\ PlannerAtRest

MCNext ==
    /\ UNCHANGED part
    /\ \/ part = "planner" /\ PlannerNext /\ InOrder /\ UNCHANGED profileVars
       \/ part = "profiles" /\ ProfileNext /\ UNCHANGED plannerVars

\* The fairness of PlannerFairSpec and ProfileFairness, each for its part.
MCFairness ==
    /\ WF_plannerVars(part = "planner" /\ PlannerNext /\ InOrder)
    /\ WF_profileVars(part = "profiles" /\ Handlers)
    /\ \A k \in Keys : /\ SF_profileVars(part = "profiles" /\ Watch(k))
                       /\ WF_profileVars(part = "profiles" /\ BackOff(k))
                       /\ SF_profileVars(part = "profiles" /\ \E w \in Workers : Get(w, k))
    /\ \A w \in Workers : WF_profileVars(part = "profiles" /\ WorkerStep(w))

MCSpec == MCInit /\ [][MCNext]_allVars /\ MCFairness
=============================================================================
