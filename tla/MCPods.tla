------------------------------- MODULE MCPods --------------------------------
(***************************************************************************)
(* The two parts that deal with the PODs of a workload, for TLC: PodMonitor *)
(* watches them and the actuators of Scaling change their number.  They    *)
(* are looked at one at a time, and the other part rests in an initial     *)
(* state.                                                                  *)
(***************************************************************************)
EXTENDS PodMonitor, Scaling

VARIABLE part     \* the part this behaviour is about

allVars == <<part, vars, scalingVars>>

MCInit ==
    /\ part \in {"monitor", "scaling"}
    /\ Init /\ ScalingInit

MCNext ==
    /\ UNCHANGED part
    /\ \/ part = "monitor" /\ Next /\ UNCHANGED scalingVars
       \/ part = "scaling" /\ ScalingNext /\ UNCHANGED vars

\* Fairness and that of ScalingFairSpec, each for the behaviours of its part.
InMonitor(A) == part = "monitor" /\ A
MCFairness ==
    /\ WF_vars(InMonitor(Handlers))
    /\ WF_vars(InMonitor(ApplyChange))
    /\ \A k \in Keys : /\ WF_vars(InMonitor(BackOff(k)))
                       /\ SF_vars(InMonitor(\E w \in Workers : Get(w, k)))
    /\ \A w \in Workers : /\ WF_vars(InMonitor(WorkerStep(w)))
                          /\ SF_vars(InMonitor(HandOver(w)))
    /\ \A e \in Executors : WF_scalingVars(part = "scaling" /\ Performing(e))

MCSpec == MCInit /\ [][MCNext]_allVars /\ MCFairness
=============================================================================
