------------------------------- MODULE Startup -------------------------------
(***************************************************************************)
(* How the programs come up: the controller's main program (cmd/main.go)   *)
(* with its configuration (pkg/common/config.go), the informers behind the *)
(* monitors (pkg/generated/informers/externalversions/factory.go; client-  *)
(* go's own factory for PODs is the same code), and one plugin program     *)
(* (plugins/*/cmd, plugins/plugins_helper.go), which starts at any time    *)
(* and registers with the manager inside the main program.                 *)
(*                                                                         *)
(* A configuration is a function from its numeric fields; a field that is  *)
(* a path, a URL or a name is 1 if it is valid and 0 if it is not.         *)
(***************************************************************************)
EXTENDS Integers, Sequences

CONSTANTS
    NumCPU,           \* maximumWorkers
    Programs,         \* the plugin programs to look at
    DialRetries       \* retries of NewActuatorPluginStub

ASSUME StartupAssumption ==
    /\ NumCPU \in Nat \ {0} /\ DialRetries \in Nat
    /\ Programs \subseteq {"scale_out", "rm_pod", "cpu_scale", "rdt", "energy"}

VARIABLES
    mainPC,       \* the main program: a step of MainSteps, "up", "fatal" or "panic"
    mainConfig,
    planner,      \* NewAPlanner: not called yet, its result, or nil
    informer,     \* [Resources -> "none", "made", "started" or "synced"]
    monitor,      \* [Resources -> "none", "waiting" or the number of workers]
    prog,         \* the plugin program: which one, where it is, dials so far,
                  \* and whether the deadline of its context has passed
    progConfig

mainVars == <<mainPC, mainConfig, planner, informer, monitor>>
progVars == <<prog, progConfig>>
startupVars == <<mainVars, progVars>>

Resources == {"kpiprofiles", "intents", "pods"}
Crashed == {"fatal", "panic"}

-----------------------------------------------------------------------------
(* Configurations: one with a value of its own in one field. *)

Variants(default, values) ==
    {default} \cup UNION {{[default EXCEPT ![f] = v] : v \in values[f]} : f \in DOMAIN default}

Edges(max) == {-1, 0, max, max + 1}
Invalid == {0}

\* The fields ParseConfig checks, all of them from 1 on.
MaxOf == [taskChannelLength |-> 10000, controllerTimeout |-> 600, informerTimeout |-> 300,
          planCacheTimeout |-> 50000, planCacheTTL |-> 500000,
          controllerWorkers |-> NumCPU, profileWorkers |-> NumCPU, intentWorkers |-> NumCPU,
          pluginManagerPort |-> 65535]
MustBeValid == {"logFile", "telemetryEndpoint", "mongoEndpoint"}

MainDefault ==
    [f \in DOMAIN MaxOf \cup MustBeValid \cup
           {"podWorkers", "opportunisticCandidates", "maxStates", "maxCandidates", "queries", "file"} |-> 1]

MainConfigs ==
    Variants(MainDefault, [f \in DOMAIN MainDefault |->
                             IF f \in DOMAIN MaxOf THEN Edges(MaxOf[f])
                             ELSE IF f = "opportunisticCandidates" THEN Edges(1000)
                             ELSE IF f \in MustBeValid \cup {"queries", "file"} THEN Invalid
                             ELSE {-1, 0}])

\* Mutant: zero is admitted.
WithinLimitsOrZero(c) ==
    \A f \in DOMAIN MaxOf : c[f] >= 0 /\ c[f] <= MaxOf[f]

WithinLimits(c) ==
    \A f \in DOMAIN MaxOf : c[f] > 0 /\ c[f] <= MaxOf[f]

\* LoadConfig and the checks of ParseConfig.  The workers of the POD monitor,
\* MaxStates and MaxCandidates are not looked at.
ParseConfig(c) ==
    /\ c.file = 1
    /\ WithinLimits(c)
    /\ c.opportunisticCandidates \in 0 .. 1000
    /\ \A f \in MustBeValid : c[f] = 1

-----------------------------------------------------------------------------
(* The main program. *)

\* Mutant: the informers are started before the monitors ask for them.
MainStepsInformersFirst ==
    <<"parse", "planner", "controller", "crdFactory", "podFactory",
      "kpiprofiles", "intents", "pods", "run">>

\* main() in its order.
MainSteps ==
    <<"parse", "planner", "controller", "kpiprofiles", "intents", "pods", "run",
      "crdFactory", "podFactory">>

After(step) ==
    LET i == CHOOSE i \in DOMAIN MainSteps : MainSteps[i] = step
    IN  IF i = Len(MainSteps) THEN "up" ELSE MainSteps[i + 1]

Advance(step) == mainPC = step /\ mainPC' = After(step)
Ends(step, how) == mainPC = step /\ mainPC' = how

\* usable: the log file and the cluster's clients can be opened.
Parse(usable) ==
    /\ IF ParseConfig(mainConfig) /\ usable THEN Advance("parse") ELSE Ends("parse", "fatal")
    /\ UNCHANGED <<mainConfig, planner, informer, monitor, progVars>>

\* NewAPlanner starts the plugin manager.  Without its port there is no
\* planner: the error is logged, and a nil pointer is passed on.
NewAPlanner(listens) ==
    /\ Advance("planner")
    /\ planner' = IF listens THEN "ready" ELSE "nil"
    /\ UNCHANGED <<mainConfig, informer, monitor, progVars>>

\* NewController and SetPlanner: a nil controller would be dereferenced.
NewController ==
    /\ IF mainConfig.taskChannelLength \in 1 .. MaxOf.taskChannelLength
         THEN Advance("controller") ELSE Ends("controller", "panic")
    /\ UNCHANGED <<mainConfig, planner, informer, monitor, progVars>>

\* The informer of a resource, made when it is asked for first.
InformerFor(r) == [informer EXCEPT ![r] = IF @ = "none" THEN "made" ELSE @]

\* A monitor is made and its Run is started.  The one for the profiles needs
\* the file with the default queries.
NewMonitor(r) ==
    /\ IF r = "kpiprofiles" /\ mainConfig.queries # 1
         THEN Ends(r, "fatal") /\ UNCHANGED <<informer, monitor>>
         ELSE /\ Advance(r)
              /\ informer' = InformerFor(r)
              /\ monitor' = [monitor EXCEPT ![r] = "waiting"]
    /\ UNCHANGED <<mainConfig, planner, progVars>>

\* Run starts the workers and a ticker, which does not take a period below 1.
RunController ==
    /\ IF mainConfig.controllerTimeout > 0 THEN Advance("run") ELSE Ends("run", "panic")
    /\ UNCHANGED <<mainConfig, planner, informer, monitor, progVars>>

FactoryOf(r) == IF r = "pods" THEN "podFactory" ELSE "crdFactory"

\* A factory starts the informers it has made so far.
StartFactory(f) ==
    /\ Advance(f)
    /\ informer' = [r \in Resources |-> IF FactoryOf(r) = f /\ informer[r] = "made"
                                          THEN "started" ELSE informer[r]]
    /\ UNCHANGED <<mainConfig, planner, monitor, progVars>>

\* The first evaluation of an intent the monitor has sent calls the planner.
FirstPlan ==
    /\ mainPC \notin Crashed /\ planner = "nil"
    /\ monitor["intents"] = "working"
    /\ mainPC' = "panic"
    /\ UNCHANGED <<mainConfig, planner, informer, monitor, progVars>>

MainStep ==
    \/ NewController \/ RunController
    \/ \E ok \in BOOLEAN : Parse(ok) \/ NewAPlanner(ok)
    \/ \E r \in Resources : NewMonitor(r)
    \/ \E f \in {"crdFactory", "podFactory"} : StartFactory(f)

\* The first list of a started informer is complete.
Synced(r) ==
    /\ mainPC \notin Crashed /\ informer[r] = "started"
    /\ informer' = [informer EXCEPT ![r] = "synced"]
    /\ UNCHANGED <<mainPC, mainConfig, planner, monitor, progVars>>

WorkersOf(r) == mainConfig[CASE r = "pods" -> "podWorkers" [] r = "intents" -> "intentWorkers"
                             [] r = "kpiprofiles" -> "profileWorkers"]

\* Run of a monitor goes on when its cache is complete, with as many workers as
\* are configured.
MonitorRuns(r) ==
    /\ mainPC \notin Crashed
    /\ monitor[r] = "waiting" /\ informer[r] = "synced"
    /\ monitor' = [monitor EXCEPT ![r] = IF WorkersOf(r) > 0 THEN "working" ELSE "idle"]
    /\ UNCHANGED <<mainPC, mainConfig, planner, informer, progVars>>

-----------------------------------------------------------------------------
(* A plugin program. *)

GenericDefault == [file |-> 1, endpoint |-> 1, managerEndpoint |-> 1, mongoEndpoint |-> 1,
                   port |-> 1, managerPort |-> 1, interpreter |-> 1, scripts |-> 1]
SpecificDefault ==
    [scale_out |-> [maxPods |-> 1, maxProactive |-> 1, lookBack |-> 1, latencyFactor |-> 1],
     rm_pod    |-> [minPods |-> 1, lookBack |-> 1],
     cpu_scale |-> [cpuMax |-> 20, cpuRounding |-> 10, maxProActiveCPU |-> 0, boost |-> 1,
                    safeGuard |-> 1, latencyPercentage |-> 1, lookBack |-> 1],
     rdt       |-> [options |-> 1],
     energy    |-> [profiles |-> 2, stepDown |-> 1, renewableLimit |-> 1]]

ProgDefault(p) == [generic |-> GenericDefault, specific |-> SpecificDefault[p]]

ProgConfigs(p) ==
    {[generic |-> g, specific |-> SpecificDefault[p]] :
        g \in Variants(GenericDefault, [f \in DOMAIN GenericDefault |->
                IF f \in {"port", "managerPort"} THEN Edges(65535) ELSE Invalid])} \cup
    {[generic |-> GenericDefault, specific |-> s] :
        s \in Variants(SpecificDefault[p], [f \in DOMAIN SpecificDefault[p] |->
                IF f = "lookBack" THEN Edges(10080) ELSE {-1, 0, 15, 20}])}

IsValidGenericConf(c) ==
    /\ c.port \in 1 .. 65535 /\ c.managerPort \in 1 .. 65535
    /\ c.mongoEndpoint = 1 /\ c.endpoint = 1 /\ c.managerEndpoint = 1

maxScaleOut == 128
maxLookBack == 10080
maxCPUValue == 1000 * 1024

\* Mutant: the rounding base is not checked for zero.
isValidCPUConfAnyRounding(c) ==
    /\ c.cpuMax \in 1 .. maxCPUValue
    /\ c.cpuRounding \in 0 .. 1000 /\ c.cpuRounding % 10 = 0
    /\ c.maxProActiveCPU \in 0 .. c.cpuMax
    /\ c.boost \in 0 .. 10 /\ c.safeGuard = 1 /\ c.latencyPercentage \in 0 .. 1
    /\ c.lookBack \in 1 .. maxLookBack

isValidCPUConf(c) ==
    /\ c.cpuMax \in 1 .. maxCPUValue
    /\ c.cpuRounding \in 1 .. 1000 /\ c.cpuRounding % 10 = 0
    /\ c.maxProActiveCPU \in 0 .. c.cpuMax
    /\ c.boost \in 0 .. 10 /\ c.safeGuard = 1 /\ c.latencyPercentage \in 0 .. 1
    /\ c.lookBack \in 1 .. maxLookBack

isValidScaleOutConf(c) ==
    /\ c.maxPods \in 1 .. maxScaleOut /\ c.maxProactive \in 0 .. c.maxPods
    /\ c.lookBack \in 1 .. maxLookBack /\ c.latencyFactor \in 0 .. 1

isValidRmPodConf(c) == c.minPods \in 1 .. maxScaleOut /\ c.lookBack \in 1 .. maxLookBack

isValidRdtConf(c) == c.options > 0

isValidPowerConf(c) == c.profiles >= 2 /\ c.stepDown \in 1 .. c.profiles - 1 /\ c.renewableLimit > 0

isValidConf(p, c) ==
    CASE p = "scale_out" -> isValidScaleOutConf(c)
      [] p = "rm_pod" -> isValidRmPodConf(c)
      [] p = "cpu_scale" -> isValidCPUConf(c)
      [] p = "rdt" -> isValidRdtConf(c)
      [] p = "energy" -> isValidPowerConf(c)

Valid(p, c) ==
    /\ c.generic.file = 1
    /\ IsValidGenericConf(c.generic)
    /\ p # "rm_pod" => c.generic.interpreter = 1 /\ c.generic.scripts = 1
    /\ isValidConf(p, c.specific)

At(pc) == prog.pc = pc
GoTo(pc) == prog' = [prog EXCEPT !.pc = pc] /\ UNCHANGED <<mainVars, progConfig>>

LoadAndCheck(usable) ==
    /\ At("load")
    /\ GoTo(IF Valid(prog.name, progConfig) /\ usable THEN "actuator" ELSE "fatal")

\* The actuator.  Those with a prediction service start it: when that fails, the
\* energy actuator gives up and the RDT actuator reads the PID of no process.
NewActuator(starts) ==
    /\ At("actuator")
    /\ starts \/ prog.name \in {"rdt", "energy"}
    /\ GoTo(CASE starts -> "serve" [] ~starts /\ prog.name = "rdt" -> "panic" [] OTHER -> "fatal")

\* StartActuatorPlugin: the stub's server gets its port or does not.
StartStub(listens) ==
    /\ At("serve")
    /\ GoTo(IF listens THEN "dial" ELSE "fatal")

ManagerListens == planner = "ready" /\ mainPC \notin Crashed

\* Register, a dial that succeeds: the manager is there and the context, made
\* once for all attempts, has not expired.
Dials ==
    /\ At("dial") /\ ManagerListens /\ ~prog.late
    /\ prog' = [prog EXCEPT !.pc = "registering", !.dials = @ + 1]
    /\ UNCHANGED <<mainVars, progConfig>>

\* A dial fails when its context has expired; the retries come after that.
DialFails ==
    /\ At("dial")
    /\ prog' = [prog EXCEPT !.dials = @ + 1, !.late = TRUE,
                            !.pc = IF prog.dials = DialRetries THEN "fatal" ELSE "dial"]
    /\ UNCHANGED <<mainVars, progConfig>>

\* The answer of the manager, or an error.
Registers(accepted) ==
    /\ At("registering")
    /\ accepted => ManagerListens
    /\ GoTo(IF accepted THEN "active" ELSE "fatal")

\* What the configuration makes of NextState: a division by the rounding base,
\* a random number below half of a tenth of MaxProActiveCPU, the first profile.
UsePanics(p, c) ==
    \/ p = "cpu_scale" /\ (c.cpuRounding = 0 \/ c.maxProActiveCPU \in 1 .. 19)
    \/ p = "energy" /\ c.profiles = 0

FirstUse ==
    /\ At("active") /\ UsePanics(prog.name, progConfig.specific)
    /\ GoTo("panic")

ProgStep ==
    \/ Dials \/ DialFails
    \/ \E ok \in BOOLEAN : LoadAndCheck(ok) \/ NewActuator(ok) \/ StartStub(ok) \/ Registers(ok)

-----------------------------------------------------------------------------
StartupInit ==
    /\ mainPC = "parse" /\ mainConfig \in MainConfigs
    /\ planner = "none"
    /\ informer = [r \in Resources |-> "none"]
    /\ monitor = [r \in Resources |-> "none"]
    /\ \E p \in Programs : /\ prog = [name |-> p, pc |-> "load", dials |-> 0, late |-> FALSE]
                           /\ progConfig \in ProgConfigs(p)

StartupNext ==
    \/ MainStep \/ FirstPlan
    \/ \E r \in Resources : Synced(r) \/ MonitorRuns(r)
    \/ ProgStep \/ FirstUse

StartupSpec == StartupInit /\ [][StartupNext]_startupVars

\* The programs go on, and lists of the API server are answered.
StartupFairness ==
    /\ WF_startupVars(MainStep) /\ WF_startupVars(ProgStep)
    /\ \A r \in Resources : WF_startupVars(Synced(r)) /\ WF_startupVars(MonitorRuns(r))

-----------------------------------------------------------------------------
(* Properties. *)

\* A configuration that was accepted does not end a program later, through a
\* ticker, a channel, a division or an index it is used for.  What is left is a
\* main program without a plugin manager, which runs into its nil planner, an
\* RDT program without its prediction service, and a CPU-scale program with a
\* MaxProActiveCPU below 20.
PanicsExplained ==
    /\ mainPC = "panic" => planner = "nil"
    /\ At("panic") => \/ prog.name = "rdt"
                      \/ prog.name = "cpu_scale" /\ progConfig.specific.maxProActiveCPU \in 1 .. 19

\* A program whose configuration is accepted ends up with three monitors at
\* work, each of them on a complete cache, or it crashes; only the POD monitor
\* can be left without workers, as their number is not checked.
MonitorsGetGoing ==
    mainPC = "planner" ~>
      \/ mainPC \in Crashed
      \/ \A r \in Resources :
           monitor[r] = "working" \/ (r = "pods" /\ monitor[r] = "idle" /\ mainConfig.podWorkers <= 0)
=============================================================================
