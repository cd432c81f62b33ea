------------------------------ MODULE Platform ------------------------------
(***************************************************************************)
(* Planning rounds with the RDT and the energy actuator                    *)
(* (pkg/planner/actuators/platform/rdt.go, energy/power.go), which run as  *)
(* plugins: the controller reads the current state, the actuators name     *)
(* follow-up states along a path, and Perform changes the POD template of  *)
(* a Deployment, which its PODs take over one after the other.             *)
(*                                                                         *)
(* Everything between planner and actuators goes through Messages.  The    *)
(* prediction services answer what they like.  A POD has one container,    *)
(* and an intent has at most one objective the energy actuator looks at.   *)
(* Get and Update of Perform are one step or fail together, see Scaling;   *)
(* nothing is retried here.  For a ReplicaSet the RDT actuator does the    *)
(* same, the energy actuator nothing.                                      *)
(***************************************************************************)
EXTENDS CurrentState

CONSTANTS
    PodNames,         \* the names of the workload's PODs
    Options,          \* RdtConfig.Options
    PowerProfiles,    \* PowerActuatorConfig.PowerProfiles
    Contains,         \* strings.Contains, of the names of resources and profiles
    StepDown,         \* PowerActuatorConfig.StepDown
    Intents,          \* sets of objectives an intent can have
    MaxPath,          \* bound: actions on a path
    MaxRounds,        \* bound: planning rounds
    MaxEvents         \* bound: rescalings, POD errors and changes of the load

ASSUME PlatformAssumption ==
    /\ PodNames # {} /\ IsFiniteSet(PodNames)
    /\ Options \in Seq(STRING) /\ PowerProfiles \in Seq(STRING)
    /\ Len(Options) > 0 /\ Len(PowerProfiles) > 0
    /\ Intents \subseteq SUBSET {"latency", "power", "availability"}
    /\ {StepDown, MaxPath, MaxRounds, MaxEvents} \subseteq Nat

VARIABLES
    template,     \* the Deployment's POD template
    running,      \* [PODs -> the template it was created from]
    errorHistory, \* keys with an error history
    config,       \* the intent, the profiles known, the actuators' settings
    load,         \* [objectives -> true value], 1 is as desired and 2 is not
    round,        \* the planning round: where it is, state, path, actuators left
    settled,      \* history: the template all PODs ran when the round saw them
    alive,        \* the plugins that have not crashed
    rounds, events

platformVars == <<template, running, errorHistory, config, load, round, settled, alive, rounds, events>>

RDT == "configureRDT"
Power == "configurePower"
PlatformActuators == {RDT, Power}
RdtAnnotation == "rdt"
RdtVisited == "rdtVisited"
Renewable == "renewable_energy_ratio"
Good == 1
Bad == 2
NoState == getDesiredState({})
NoRound == [pc |-> "idle", state |-> NoState, path |-> <<>>, todo |-> {}]

AllProfiles ==
    [k \in {"latency", "power", "availability"} |->
       [profileType |-> ProfileTypeFromText(k), minimize |-> k # "availability"]]

knownProfiles == [k \in config.known |-> AllProfiles[k]]
goal == getDesiredState(config.intent)

Elements(seq) == {seq[i] : i \in DOMAIN seq}

\* The resources of a container: a profile is one as well, but for "None", which
\* stands for the PODs without any.
ResourceNames == {"cpu"} \cup (Elements(PowerProfiles) \ {"None"})

\* No profile is called by a part of "cpu".
ASSUME ContainsAssumption ==
    /\ Contains \subseteq (ResourceNames \ {"cpu"}) \X Elements(PowerProfiles)
    /\ \A p \in Elements(PowerProfiles) \ {"None"} : <<p, p>> \in Contains /\ p # "cpu"
    /\ \A name \in ResourceNames : <<name, "None">> \notin Contains

\* A configuration whose profiles are recognised: no profile's name holds that of
\* one that is listed before it.
TellApart ==
    \A i, j \in DOMAIN PowerProfiles :
      i < j /\ <<PowerProfiles[j], PowerProfiles[i]>> \in Contains => PowerProfiles[i] = PowerProfiles[j]

\* The maps of a template and of a state, none of them a nil map.
MapsOf(keys, values) == UNION {[K -> values] : K \in SUBSET keys}

AnnotationMaps == MapsOf({"other", RdtAnnotation, RdtVisited}, {"x", ""} \cup Elements(Options))
ResourceMaps == MapsOf(ResourceNames, {1, 2})
HostMaps == MapsOf({"host", Power}, {0, 1})
DataMaps == MapsOf({Renewable, Power}, HostMaps \cup {Nil})
ProfileMaps == {[k \in K |-> AllProfiles[k]] : K \in SUBSET DOMAIN AllProfiles}

ObjectiveMaps == MapsOf(DOMAIN AllProfiles, {QueryFailed, 0, Good, Bad})

ASSUME NilAssumption ==
    Nil \notin AnnotationMaps \cup ResourceMaps \cup HostMaps \cup DataMaps
              \cup ProfileMaps \cup ObjectiveMaps

PlatformInit ==
    /\ template \in [annotations : {Nil, [other |-> "x"]}, requests : {Nil, [cpu |-> 1]},
                     limits : {[cpu |-> 1]}]
    /\ running \in {[p \in S |-> template] : S \in {{}, PodNames}}
    /\ errorHistory = {}
    /\ config \in UNION {[intent : {i}, known : SUBSET i, qos : {"Guaranteed", "Burstable"},
                          proactive : BOOLEAN] : i \in Intents}
    /\ load = [k \in config.intent |-> Bad]
    /\ round = NoRound
    /\ settled = Nil
    /\ alive = PlatformActuators
    /\ rounds = 0 /\ events = 0

-----------------------------------------------------------------------------
(* RDT: NextState. *)

\* What the prediction service says of each option: a value, or nothing.
RdtPredictions == [DOMAIN Options -> {QueryFailed, Good, Bad}]

Latency(profs, k) == ProfileOf(profs, k).profileType = ProfileTypeFromText("latency")

\* The state with predicted values for the objectives of the given types.
Predicted(s, profs, value) ==
    [StateDeepCopy(s) EXCEPT !.objectives =
       [k \in DOMAIN @ |-> IF Latency(profs, k) THEN value ELSE @[k]]]

RdtAction(option) == [name |-> RDT, kind |-> "str", properties |-> [option |-> option]]

RdtMarked(s) ==
    [s EXCEPT !.annotations = IF Entries(@) # Empty THEN With(@, RdtVisited, "")
                                                    ELSE [k \in {RdtVisited} |-> ""]]

\* Mutant: the option in use is offered as well.
OffersEvery(option, current) == TRUE

Offers(option, current) == option # current

\* The options are tried in their order until one is good enough.  "None" is
\* then the only answer, and its state is not marked.
RdtFindStates(s, g, profs, current, prediction) ==
    LET asks       == \E k \in DOMAIN Entries(s.objectives) : Latency(profs, k)
        found(i)   == asks => prediction[i] # QueryFailed
        after      == [i \in DOMAIN Options |-> Predicted(s, profs, prediction[i])]
        better     == [i \in DOMAIN Options |-> IsBetter(after[i], g, profs)]
        none       == [i \in DOMAIN Options |-> Options[i] = "None" /\ better[i] /\ found(i)]
        fits       == [i \in DOMAIN Options |-> asks /\ found(i) /\ prediction[i] <= Good /\ ~none[i]]
        tried      == {i \in DOMAIN Options :
                         \A j \in 1 .. i - 1 : ~none[j] /\ ~(fits[j] /\ better[j])}
    IN  IF \E i \in tried : none[i]
          THEN {[state |-> after[i], action |-> RdtAction("None")] :
                  i \in {j \in tried : none[j] /\ Offers("None", current)}}
          ELSE {[state |-> RdtMarked(after[i]), action |-> RdtAction(Options[i])] :
                  i \in {j \in tried : fits[j] /\ Offers(Options[j], current)}}

CurrentOption(s) == IF Has(s.annotations, RdtAnnotation) THEN s.annotations[RdtAnnotation] ELSE "None"

RdtNextState(s, g, profs, prediction) ==
    IF Has(s.annotations, RdtVisited) \/ \E p \in DOMAIN Entries(s.pods) : s.pods[p].qos # "Guaranteed"
      THEN {}
      ELSE RdtFindStates(s, g, profs, CurrentOption(s), prediction)

-----------------------------------------------------------------------------
(* Energy: NextState. *)

\* The forecast for every profile, or none.
PowerForecasts == [DOMAIN PowerProfiles -> {Good, Bad}] \cup {Nil}

Considered(profs, k) ==
    ProfileOf(profs, k).profileType \in {ProfileTypeFromText("latency"), ProfileTypeFromText("power")}

\* The profiles to choose from, with the value that is forecast for them: the
\* first one that fits, the last one if there is no latency objective ("None" and
\* no value if none fits), all of them, or none at all.  A profile that is listed
\* twice counts with its last forecast.
findProfile(objectives, onlyPower, forecast) ==
    LET fitting == IF objectives = {} THEN {}
                   ELSE {i \in DOMAIN PowerProfiles : forecast[i] <= Good}
        first   == CHOOSE i \in fitting : \A j \in fitting : i <= j
        last    == CHOOSE i \in fitting : \A j \in fitting : i >= j
        option(i) == [profile |-> PowerProfiles[i], value |-> forecast[i]]
        options == {option(i) : i \in {j \in DOMAIN PowerProfiles : \A k \in DOMAIN PowerProfiles :
                                         k > j => PowerProfiles[k] # PowerProfiles[j]}}
    IN  CASE forecast = Nil -> {}
          [] forecast # Nil /\ onlyPower ->
               {IF fitting = {} THEN [profile |-> "None", value |-> 0] ELSE option(last)}
          [] forecast # Nil /\ ~onlyPower /\ fitting # {} -> {option(first)}
          [] OTHER -> IF config.proactive THEN options ELSE {}

\* One step down from a profile, or the first; one that is not listed has no index.
SteppedDown(profile) ==
    LET having == {i \in DOMAIN PowerProfiles : PowerProfiles[i] = profile}
        index  == CHOOSE i \in having : \A j \in having : i <= j
    IN  IF having # {} /\ index - 1 - StepDown >= 1
          THEN PowerProfiles[index - StepDown] ELSE PowerProfiles[1]

PowerAction(profile) == [name |-> Power, kind |-> "str", properties |-> [profile |-> profile]]

PowerMarked(s, objectives, value) ==
    [StateDeepCopy(s) EXCEPT
       !.objectives = [k \in DOMAIN @ \cup objectives |-> IF k \in objectives THEN value ELSE @[k]],
       !.data = With(@, Power, [x \in {Power} |-> 1])]

\* The resources with a profile in their name.  Perform leaves one at most.
ProfileKeys(s) ==
    {name \in DOMAIN Entries(s.resources) : \E p \in Elements(PowerProfiles) : <<name, p>> \in Contains}

ProfileKey(s) == CHOOSE name \in ProfileKeys(s) : TRUE

\* The profiles are tried in their order: the first one that is a part of the name.
ProfileIn(name) ==
    LET parts == {i \in DOMAIN PowerProfiles : <<name, PowerProfiles[i]>> \in Contains}
    IN  PowerProfiles[CHOOSE i \in parts : \A j \in parts : i <= j]

CurrentProfile(s) == IF ProfileKeys(s) = {} THEN "None" ELSE ProfileIn(ProfileKey(s))

\* The CPU units that were allocated for the profile are not those of now.
Outgrown(s) ==
    /\ ProfileKeys(s) # {}
    /\ s.resources[ProfileKey(s)] # (IF Has(s.resources, "cpu") THEN s.resources["cpu"] ELSE -1)

\* A profile to set: another one, "None" only if it is configured, or the same one
\* for another allocation.
News(s, profile) ==
    \/ profile \in Elements(PowerProfiles) /\ CurrentProfile(s) # profile
    \/ profile = CurrentProfile(s) /\ Outgrown(s)

\* Without telemetry all energy counts as renewable.
EnoughRenewable(s) ==
    ~Has(s.data, Renewable) \/ \A host \in DOMAIN Entries(s.data[Renewable]) : s.data[Renewable][host] = 1

PowerNextState(s, g, profs, forecast) ==
    LET objectives == {k \in DOMAIN Entries(g.objectives) : Considered(profs, k)}
        onlyPower  == \A k \in objectives : ~Latency(profs, k)
        choices    == findProfile(objectives, onlyPower, forecast)
        set(p, v)  == [state |-> PowerMarked(s, objectives, v), action |-> PowerAction(p)]
    IN  IF \/ Has(s.data, Power) \/ Entries(s.pods) = Empty
           \/ \E p \in DOMAIN Entries(s.pods) : s.pods[p].qos # "Guaranteed"
          THEN {}
        ELSE IF Cardinality(choices) > 1
          THEN {set(c.profile, c.value) : c \in {d \in choices : EnoughRenewable(s)}}
        ELSE {set(c.profile, c.value) : c \in {d \in choices : News(s, d.profile) /\ EnoughRenewable(s)}} \cup
             {set(SteppedDown(c.profile), Good) :
                c \in {d \in choices : /\ ~EnoughRenewable(s) /\ CurrentProfile(s) # "None"
                                       /\ SteppedDown(d.profile) # CurrentProfile(s)}}

-----------------------------------------------------------------------------
(* Planning. *)

Answers(a) == IF a = RDT THEN RdtPredictions ELSE PowerForecasts

NextStateOf(a, s, g, profs, answer) ==
    IF a = RDT THEN RdtNextState(s, g, profs, answer) ELSE PowerNextState(s, g, profs, answer)

\* The plugin is asked for follow-up states, by a message the stub has made.
RemoteNextState(a, request, answer) ==
    NextStateResponse(NextStateOf(a, request.state, request.goal, request.profiles, answer))

\* A POD as the API server shows it: requests that are not set are the limits.
PodRecord(p) ==
    [name |-> p, annotations |-> running[p].annotations, qos |-> config.qos,
     resources |-> IF running[p].requests = Nil THEN running[p].limits ELSE running[p].requests]

\* The lists the informer can return; without the workload there is none.
Listings == {Nil} \cup {[i \in DOMAIN order |-> PodRecord(order[i])] :
               order \in {o \in [1 .. Cardinality(DOMAIN running) -> DOMAIN running] :
                            Elements(o) = DOMAIN running}}

Telemetry == {[k \in {Renewable} |-> hosts] : hosts \in {Empty, [host |-> 0], [host |-> 1]}}

\* A query has the true value for an answer, or fails, or ends in a panic, from
\* which doQuery returns with 0.
Measurements == {m \in [config.intent \ {"availability"} -> {QueryFailed, 0, Good, Bad}] :
                   \A k \in DOMAIN m : m[k] \in {QueryFailed, 0, load[k]}}

Observe ==
    /\ round.pc = "idle" /\ rounds < MaxRounds
    /\ \E listed \in Listings, measured \in Measurements, telemetry \in Telemetry :
         /\ round' = [NoRound EXCEPT !.pc = "planning",
                        !.state = getCurrentState(config.intent, listed, errorHistory, knownProfiles,
                                                  measured, telemetry)]
         /\ settled' = IF listed # Nil /\ \A p \in PodNames : Has(running, p) /\ running[p] = template
                         THEN template ELSE Nil
    /\ rounds' = rounds + 1
    /\ UNCHANGED <<template, running, errorHistory, config, load, alive, events>>

Expand(a) ==
    /\ round.pc = "planning" /\ Len(round.path) < MaxPath
    /\ a \in alive
    /\ LET request == NextStateRequest(round.state, goal, knownProfiles) IN
       \E answer \in Answers(a) : \E x \in RemoteNextState(a, request, answer) :
         round' = [round EXCEPT !.state = x.state, !.path = Append(@, x.action)]
    /\ UNCHANGED <<template, running, errorHistory, config, load, settled, alive, rounds, events>>

\* The path is the plan; without one there is nothing to perform.
PlanFound ==
    /\ round.pc = "planning"
    /\ round' = IF round.path = <<>> THEN NoRound
                ELSE [round EXCEPT !.pc = "perform", !.state = NoState,
                                   !.path = PerformRequest(@), !.todo = alive]
    /\ UNCHANGED <<template, running, errorHistory, config, load, settled, alive, rounds, events>>

-----------------------------------------------------------------------------
(* Perform. *)

Mine(a) == {i \in DOMAIN round.path : round.path[i].name = a}

\* The actuator returns, and after the last one the round is over.
PerformReturns(a) ==
    round' = IF round.todo = {a} THEN NoRound ELSE [round EXCEPT !.todo = @ \ {a}]

\* The last action of the plan counts.
AskedOption == LET last == CHOOSE i \in Mine(RDT) : \A j \in Mine(RDT) : i >= j
               IN  round.path[last].properties.option

\* A map that was missing is made, filled and not stored.
RdtUpdated ==
    IF template.annotations = Nil THEN template
    ELSE [template EXCEPT !.annotations = IF AskedOption # "None" THEN With(@, RdtAnnotation, AskedOption)
                                          ELSE Without(@, {RdtAnnotation})]

RdtPerform ==
    /\ round.pc = "perform" /\ RDT \in round.todo
    /\ template' = IF Mine(RDT) = {} THEN template ELSE RdtUpdated
    /\ PerformReturns(RDT)
    /\ UNCHANGED <<running, errorHistory, config, load, settled, alive, rounds, events>>

\* The first action of the plan counts.
AskedProfile == LET first == CHOOSE i \in Mine(Power) : \A j \in Mine(Power) : i <= j
                IN  round.path[first].properties.profile

\* Mutant: the profile the PODs had stays beside the new one.
PowerUpdatedAdds ==
    LET having(m) == IF AskedProfile = "None" THEN m ELSE With(m, AskedProfile, template.requests["cpu"])
    IN  [template EXCEPT !.requests = having(@), !.limits = having(@)]

\* Any old profile is removed; "None" leaves it at that, with requests or without.
PowerUpdated ==
    LET none(m)   == IF m = Nil THEN Nil ELSE Without(m, Elements(PowerProfiles))
        having(m) == IF AskedProfile = "None" THEN none(m)
                     ELSE With(none(m), AskedProfile, template.requests["cpu"])
    IN  [template EXCEPT !.requests = having(@), !.limits = having(@)]

\* An entry of a nil map cannot be assigned to.
PowerCan == AskedProfile = "None" \/ template.requests # Nil

PowerPerform ==
    /\ round.pc = "perform" /\ Power \in round.todo
    /\ Mine(Power) # {} => PowerCan
    /\ template' = IF Mine(Power) = {} THEN template ELSE PowerUpdated
    /\ PerformReturns(Power)
    /\ UNCHANGED <<running, errorHistory, config, load, settled, alive, rounds, events>>

\* The assignment panics, and the plugin's process ends.
PowerPanics ==
    /\ round.pc = "perform" /\ Power \in round.todo
    /\ Mine(Power) # {} /\ ~PowerCan
    /\ alive' = alive \ {Power}
    /\ PerformReturns(Power)
    /\ UNCHANGED <<template, running, errorHistory, config, load, settled, rounds, events>>

\* Get or Update fails, for a conflict too: logged.
PerformFails(a) ==
    /\ round.pc = "perform" /\ a \in round.todo /\ Mine(a) # {}
    /\ PerformReturns(a)
    /\ UNCHANGED <<template, running, errorHistory, config, load, settled, alive, rounds, events>>

-----------------------------------------------------------------------------
(* The cluster. *)

\* A POD is replaced by one of the new template.
RollOut(p) ==
    /\ Has(running, p) /\ running[p] # template
    /\ running' = [running EXCEPT ![p] = template]
    /\ UNCHANGED <<template, errorHistory, config, load, round, settled, alive, rounds, events>>

Event == events < MaxEvents /\ events' = events + 1

\* A user or the CPU-scale actuator gives the container another CPU share.
Rescale ==
    /\ Event
    /\ template' = [template EXCEPT !.requests = IF @ = Nil THEN Nil ELSE With(@, "cpu", 2),
                                    !.limits = With(@, "cpu", 2)]
    /\ UNCHANGED <<running, errorHistory, config, load, round, settled, alive, rounds>>

\* The POD monitor reports an error, which UpdatePodError stores under its key.
PodFails(p) ==
    /\ Event /\ Has(running, p)
    /\ errorHistory' = errorHistory \cup {MetaNamespaceKey(p)}
    /\ UNCHANGED <<template, running, config, load, round, settled, alive, rounds>>

LoadDrops ==
    /\ Event
    /\ load' = [k \in config.intent |-> Good]
    /\ UNCHANGED <<template, running, errorHistory, config, round, settled, alive, rounds>>

RoundStep ==
    \/ Observe \/ PlanFound
    \/ \E a \in PlatformActuators : Expand(a) \/ PerformFails(a)
    \/ RdtPerform \/ PowerPerform \/ PowerPanics

ClusterStep ==
    \/ \E p \in PodNames : RollOut(p) \/ PodFails(p)
    \/ Rescale \/ LoadDrops

PlatformNext == RoundStep \/ ClusterStep

PlatformSpec == PlatformInit /\ [][PlatformNext]_platformVars

-----------------------------------------------------------------------------
(* Properties. *)

\* A follow-up state and its action, as everybody who reads its maps sees them.
Plain(x) ==
    [objectives |-> Entries(x.state.objectives), tolerations |-> x.state.tolerations,
     pods |-> Entries(x.state.pods),
     data |-> [k \in DOMAIN Entries(x.state.data) |-> Entries(Entries(x.state.data)[k])],
     resources |-> Entries(x.state.resources), annotations |-> Entries(x.state.annotations),
     action |-> x.action]

\* An actuator that runs as a plugin answers what it would answer inside the
\* planner: nothing it decides by is lost on the way to it or back, although
\* maps that are empty or missing become each other in the messages.
RemoteIsLocal ==
    LET request == NextStateRequest(round.state, goal, knownProfiles) IN
    round.pc = "planning" =>
      \A a \in PlatformActuators : \A answer \in Answers(a) :
        {Plain(x) : x \in RemoteNextState(a, request, answer)}
          = {Plain(x) : x \in NextStateOf(a, round.state, goal, knownProfiles, answer)}

\* Along a path an actuator acts at most once, as the marks in the states see
\* to; "None" of the RDT actuator alone leaves no mark and can come again.
EachActsOnce ==
    \A i, j \in DOMAIN round.path :
      i < j /\ round.path[i].name = round.path[j].name
        => round.path[i] = RdtAction("None")

\* A current state that looks as desired is as desired, or the controller is
\* blind: a query has no answer, for it failed or panicked, and both look like a
\* very good value.  (What the state says of the availability is true of the
\* PODs only where their errors are found, which AvailabilityTracked is about.)
SatisfiedOrBlind ==
    round.pc = "planning" /\ round.path = <<>> /\ IsBetter(round.state, goal, knownProfiles)
      => \/ \A k \in config.intent \ {"availability"} : load[k] = Good
         \/ \E k \in DOMAIN Entries(round.state.objectives) :
              round.state.objectives[k] \in {QueryFailed, 0}

\* A plan for a workload at rest restarts its PODs for a reason: as long as
\* nobody else has changed the template, the plan asks for an option that is not
\* set, annotations or not, and performing it sets another profile or allocation,
\* unless candidates are offered proactively, the current profile among them.
OnlyNews ==
    round.pc = "perform" /\ settled # Nil =>
      /\ /\ RDT \in round.todo /\ Mine(RDT) # {}
         /\ template.annotations = settled.annotations
         => AskedOption # CurrentOption(template)
      /\ /\ Power \in round.todo /\ Mine(Power) # {}
         /\ template.requests = settled.requests /\ PowerCan
         /\ ~config.proactive
         => PowerUpdated # template

\* docs/framework.md:67, "For PODs in the system it will track their Errors and
\* hence enable IDO to track objectives such as availability.": when every POD of
\* a workload has failed, the state its planning starts from has an availability
\* below the highest one.
AvailabilityTracked ==
    [][LET s == round'.state IN
       /\ Observe
       /\ Has(s.objectives, "availability") /\ Entries(s.pods) # Empty
       /\ \A p \in DOMAIN s.pods : MetaNamespaceKey(p) \in errorHistory
       => s.objectives["availability"] < 1]_platformVars
=============================================================================
