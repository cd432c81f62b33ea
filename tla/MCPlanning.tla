----------------------------- MODULE MCPlanning -----------------------------
(***************************************************************************)
(* The controller and its planning rounds for TLC.  IntentController says  *)
(* when a round takes place and Platform what happens in it; they are      *)
(* looked at one at a time: a behaviour is one of the controller's         *)
(* goroutines or one of rounds with the platform actuators, and the other  *)
(* part rests in an initial state.                                         *)
(***************************************************************************)
EXTENDS IntentController, Platform, TLC

VARIABLE part     \* the part this behaviour is about

MCOptions == <<"None", "COS1">>
MCPowerProfiles == <<"None", "balance-performance", "performance">>
MCContains == {<<p, p>> : p \in {"balance-performance", "performance"}} \cup
              {<<"balance-performance", "performance">>}
ASSUME TellApart
MCIntents == {{"latency", "availability"}, {"power"}}

\* The names of the PODs are interchangeable: they are compared and listed in
\* every order, and nothing else.
PodSymmetry == Permutations(PodNames)

allVars == <<part, vars, platformVars>>

PlatformAtRest ==
    /\ template = [annotations |-> Nil, requests |-> Nil, limits |-> [cpu |-> 1]]
    /\ running = <<>>
    /\ config = [intent |-> {"power"}, known |-> {}, qos |-> "Burstable", proactive |-> FALSE]

MCInit ==
    /\ part \in {"controller", "rounds"}
    /\ Init
    /\ part = "controller" => PlatformAtRest
    /\ PlatformInit
    \* One thing is out of the ordinary at a time: no annotations or no requests,
    \* and some profile known.  PODs that neither actuator touches need one
    \* template, and the proactive mode a latency to look at.
    /\ IF config.qos = "Burstable"
         THEN ~config.proactive /\ template.annotations = Nil /\ template.requests = Nil
         ELSE template.annotations # Nil \/ template.requests # Nil
    /\ config.known = {} => config.intent = {"power"}
    /\ config.proactive => "latency" \in config.known

\* The last round is over: the bound, not the system, ends a behaviour.
RoundsOver == rounds = MaxRounds /\ UNCHANGED platformVars

\* Planning reads and writes nothing of the cluster: a step of the cluster that
\* falls into it can as well come after it, and is left until then.
RoundsNext == RoundStep \/ (round.pc # "planning" /\ ClusterStep) \/ RoundsOver

MCNext ==
    /\ UNCHANGED part
    /\ \/ part = "controller" /\ Next /\ UNCHANGED platformVars
       \/ part = "rounds" /\ RoundsNext /\ UNCHANGED vars

MCSpec == MCInit /\ [][MCNext]_allVars
=============================================================================
