# Intent-driven orchestration: TLA+ models, checks and proofs

TLA+ specifications of the intent-driven orchestration framework: the intent
controller with its plan cache, the three monitors that feed it, the A* planner,
the plugin manager through which the planner reaches the actuators, all five
actuators, and the start of the programs. Every definition is translated from the Go source;
`PROJECT.json` maps it to its file and lines. Source paths below are relative to
the repository's root (`src/` in `PROJECT.json`).

## 1. Inventory of the system

### How the parts work together

```
 API server / kubelet
   | informers           (client-go: store, notifications, work queue)
   v
 Intent monitor   KPI profile monitor   POD monitor
   | chan            | chan                | chan
   v                 v                     v
 Intent controller  -- tasks (bounded channel) -->  workers
                                                      | CreatePlan, ExecutePlan, TriggerEffect
   plan cache <-------- Put --------------------------|
                                                      v
                                                  A* planner
                                                      | Iter (mutex held)
                                                      v
                                    plugin manager -- gRPC --> actuator plugins
                                                                 | Get/Update, Delete
                                                                 v
                                                              API server
```

| part | state it keeps | operations | what is hard | what makes it correct |
|---|---|---|---|---|
| Intent controller (`pkg/controller/intent_controller.go`) | maps of intents, profiles and POD errors, each with a lock; channel `tasks`; warm-up flag; planner | `UpdateIntent`, `UpdateProfile`, `UpdatePodError`, ticker of `Run`, `processIntents`, `worker` | four producers send on a bounded channel while they hold the lock the workers need; maps read without their lock; plan execution in goroutines | lock excludes; no deadlock; nothing planned before warm-up; the plan cache throttles; every intent is looked at again and again |
| Plan cache (`pkg/common/ttl_cache.go`) | time of the last `Put` per key | `Put`, `IsIn`, evicting goroutine | the evictor uses the tick's time, which may be late | no entry evicted early, every entry evicted some time |
| Intent monitor (`pkg/controller/intent_monitor.go`) | informer store, work queue | add/update/delete handlers, workers, retries | several workers, deletions that bypass the queue, tombstones | never an older version, every living intent arrives, deleted ones leave |
| KPI profile monitor (`profile_monitor.go`) | as above, and the status at the API server | as above, and `updateStatus` | stale copy judged and written; own writes come back as events; conflicts and failures swallowed | status fits the definition, no feedback loop, controller and status converge |
| POD monitor (`pod_monitor.go`) | as above, and `podsWithError` | as above, and `updatePodCache` | the map is changed asynchronously and read without its lock | a bounded number of reports per outage, no error stuck |
| Plugin manager, stubs, plugin start-up (`pkg/api/plugins/v1alpha1`, `plugins/plugins_helper.go`) | map of stubs, retry counters, mutex, connections, streams | `Register`, `refreshRegisteredPlugin`, `Iter`, `NextState`, `Perform`, `Effect`, `Stop` | check, dial without lock, store; remote calls with the mutex held; connections that break and come back | counters belong to registrations, only dead plugins removed, all dead ones removed, calls get their turn |
| A* planner (`pkg/planner/astar`) | state graph, heap, scores: all local to a plan | `CreatePlan`, `ExecutePlan`, `TriggerEffect` | cyclic graphs, actions without cost, negative heuristic, limits | terminates, returns a real way, finds one if there is one, keeps what is good |
| Scaling actuators (`pkg/planner/actuators/scaling`) | none; the workload at the API server | `NextState`, `Perform`, `Effect` | concurrent read-modify-write, retries, plans made from an old state | no lost update, limits respected, ends |
| RDT and energy actuators (`platform/rdt.go`, `energy/power.go`) | none; marks in the states, annotations and resources of the POD template | `NextState`, `Perform`, `Effect` | remote predictions that fail, marks that have to survive copies and messages, PODs that follow their template late | acts once on a path, restarts PODs for a reason only |
| Current state, KPIs, telemetry (`state_helper.go`, `kpi.go`, `telemetry.go`) | none; Prometheus, the informer's PODs, the error history | `getCurrentState`, `getDesiredState`, `IsBetter` | queries that fail, objectives without a profile, PODs of two templates | what looks satisfied is satisfied, and errors of PODs count |
| gRPC messages (`actuator_client_stub.go`, `actuator_plugin_stub.go`) | none | conversions in both directions | nil and empty maps, properties of two types | a plugin answers as it would inside the planner |
| Configuration, main programs, informer factories (`config.go`, `cmd/main.go`, `plugins/*/cmd`, `factory.go`) | configuration, planner, informers, monitors | checks, construction, start, registration with retries | values at the edges of their ranges, errors that are only logged, order of construction and start | an accepted configuration does not end the program, all monitors start |
| Tracer, generated clients | none, MongoDB | - | external services | - |

The hazards of these parts, each at its line and with the properties that would
notice it, are listed in `PROJECT.json` under `hazards`.

## 2. Modules

| module | models | uses |
|---|---|---|
| `TTLCache` | plan cache with its ticker | |
| `IntentController` | controller, composed with the plan cache | `EXTENDS TTLCache` |
| `Informer` | client-go's informer and work queue, as the monitors use them (external) | |
| `IntentMonitor`, `KPIProfileMonitor`, `PodMonitor` | the monitors, composed with informer and queue and with the receiving end in the controller | `EXTENDS Informer` |
| `PluginManager` | plugin manager, client stubs, plugin processes, the planner's iterations | |
| `AStar` | `solve` and `resolvePath` on a state graph | |
| `APlanner` | `CreatePlan`, with the search of `AStar` as its subroutine | `EXTENDS AStar` |
| `IntentStore` | abstract: what the intent monitor promises the controller | refined by `IntentMonitor` |
| `Workload` | abstract: what the scaling actuators promise of a workload | refined by `Scaling` |
| `Messages` | states, profiles and actions, and the conversions between planner and plugin | |
| `CurrentState` | the state a planning round starts from, and its comparison with the goal | `EXTENDS Messages` |
| `Platform` | planning rounds with the RDT and the energy actuator over a Deployment | `EXTENDS CurrentState` |
| `Startup` | configurations, main program, informers, plugin programs | |
| `Scaling` | scale-out, remove-POD and CPU-scale actuators and the workload at the API server | |
| `IntentController_proofs`, `IntentMonitor_proofs`, `KPIProfileMonitor_proofs`, `PodMonitor_proofs`, `PluginManager_proofs`, `APlanner_proofs`, `Scaling_proofs`, `Platform_proofs` | theorems about the module of that name and the modules it extends; `IntentController_proofs` holds those about the plan cache, `PluginManager_proofs` those about the start | |
| `MCPlanning` | controller and planning rounds for TLC | `IntentController`, `Platform` |
| `MCPluginManager` | plugin manager and start for TLC | `PluginManager`, `Startup` |
| `MCPlanner` | planner and profile monitor for TLC | `APlanner` (by `MCAPlanner`), `KPIProfileMonitor` |
| `MCPods` | POD monitor and scaling actuators for TLC | `PodMonitor`, `Scaling` |
| `MCIntentController`, `MCIntentMonitor`, `MCAPlanner`, `MCScaling` | instances of one module for TLC | |

`MCPlanning`, `MCPluginManager`, `MCPlanner` and `MCPods` hold two modules that belong
together in the system: the controller decides when a round takes place and
`Platform` says what happens in it; `PluginManager` begins with a manager that
listens, which is where `Startup` ends; the planner compares states by the profiles
that their monitor delivers; the PODs that are watched are those the scaling
actuators add and remove. A behaviour is about one of them (`part`), the other rests
in an initial state (a finished plan, for the planner), so that the state spaces add
up and do not multiply.

Definitions keep the names of the functions they stand for where there is one.
A definition marked *Mutant* is a plausible wrong version of its neighbour and is
not used by any specification; `PROJECT.json` names the property that notices it.

### Correspondence of state and actions

**IntentController.** `intents`, `profiles`, `podErrors`, `tasks`, `planner` and
`warmupDone` are fields of the struct; `intentsLock` holds its owner. `ppc`,
`ptodo` and `pcur` are the program counter, the remaining range and the current
key of the four goroutines that run `processIntents`; `wpc` and `wjob` those of a
worker. `executing` and `effects` are the goroutines started for `ExecutePlan` and
`TriggerEffect`. An intent is absent, active or passive; a plan is empty or not.
`BeginWrite` and the following action are a locked map write in two steps, so that
the workers' unlocked reads of the other maps (`WorkerRead` to `WorkerFinish`) can
overlap with it; the Go runtime may then end the process, which is
`CrashAndRestart`.

**TTLCache.** Entries are stored by their age, which keeps the state finite; the
age of a waiting tick is kept as well, since the evictor compares with the time
the tick carries. `MaxLag` bounds how long a tick waits.

**Informer and monitors.** `lister` is the informer's store, `notes` the
notifications not handled yet (the store is ahead of them), `dirty` and
`processing` are the work queue. `mpc`, `mkey` and `mver` (or `mpod`) are the
workers. Handlers and workers block in their channel sends: a send is an action of
its own, and `known` or `recorded` is what the controller has received. In
`KPIProfileMonitor` the API server keeps all versions of an object (`history`), so
that a stale write is refused by its version. In `PodMonitor`, `cacheMsg` is the
change of `podsWithError` that was handed over and not applied yet; `outages` and
`reports` count, over restarts too, how often a POD went out of order and how often
that was reported.

**PluginManager.** `registered` and `retries` are the two maps, `mu` the mutex
(with what the iteration that holds it calls), `stub` all stubs ever made with
the state of their connection and their `NextState` stream, `call` the goroutines
of `Register`, `plugin` the plugin processes. Two histories count the bad checks in a
row: `badChecks` those of the stub that is registered now, `inherited` those of the
stubs it has replaced without their removal, whose counter it takes over.

**AStar, APlanner.** `edges` is the graph's successor map as one sequence, `open`
the heap, `gScore` and `data` the maps of `solve`. States are model values; what
the planner can see of them is whether they are better than the goal (`better`)
and how far they are from it (`dist`), both arbitrary as far as `IsBetter` and
`Distance` allow. Which follow-up states and utilities an actuator names is chosen
at every step. Costs and distances are integers, in hundredths.

**Scaling.** `replicas` and `cpu` are the object at the API server; `fresh` are
those executors whose copy has the newest resource version. `job` is the plan an
executor carries out, reduced to what its actions add up to; `Plans` computes the
plans from the follow-up states the three actuators can name within their limits.
PODs follow the replicas with a delay, so a plan starts from any number in
`SeenPods`. Deployment and ReplicaSet are handled by two copies of the same code,
modelled once.

**Messages, CurrentState.** A Go map is `Nil` or a function; a protobuf message
does not tell an empty map from none, so that an empty one arrives as `Nil`
(`Delivered`). A state keeps the fields that something decides by: objectives, PODs
with availability and QoS class, host data, resources, annotations. Values are
ordered and nothing else: 1 is the target, 2 misses a target to be minimised; a
query that fails (-1 in the code) or ends in a panic that `doQuery` recovers from (0)
is below every target. Keys of PODs with and
without their namespace are different values.

**Platform.** `template` is the POD template of the Deployment, `running` the PODs
with the template each was made from, `config` the intent, the profiles known and
the settings. A round observes (`Observe`, the worker's calls of `getCurrentState`
and `getDesiredState`), asks actuators along one path (`Expand`; every path of the
state graph is one behaviour), and has the plan performed, each actuator once.
`settled` remembers the template that all PODs ran when the round began, for
`OnlyNews`. `"None"` can be one of the power profiles, as in the shipped configuration:
`findProfile` then offers it like any other, and `Perform` removes a profile for it.
The profile of a container is recognised by `strings.Contains` on the names of its
resources, in the order of the configuration; the relation `Contains` says which name
is a part of which.

**Startup.** `mainPC` goes through `MainSteps`, the order of `main()`; what is only
logged does not stop it. `informer` and `monitor` follow each resource from its
informer's construction over `Start` and the first complete list to the monitor's
workers. `prog` is one plugin program at a time with the number of its dials and
whether the context they share has expired. A configuration has one field away from
its default, at an edge of its range or invalid.

### Refinement

`IntentStore` knows neither handlers, queue, workers nor channel: the controller's
copy learns, in one step, a version that was issued and is not older than its own,
or forgets the intent for a deletion it was not told of. `IntentMonitor` implements
it (`ImplementsStore`): `object`, `known` and `issued` are the variables of the same
name, and a deletion is `gone` while its notification or its removal is under way.
`Workload` knows neither copies, conflicts nor retries: a request is carried out
once and at one instant, or dropped. `Scaling` implements it
(`ImplementsWorkload`): what a plan has asked for and no actuator has decided yet
is `asked`. Both are checked by TLC and proved.

## 3. Runs

| run | instance | what it shows |
|---|---|---|
| `controller_safety` (controller) | one intent, one worker, channel of one, a profile, a POD | `LockInv`; `QuietUntilWarm`; `ThrottleBound`: while an intent is cached no new work for it is created; `StuckOnlyIfWedged`: the only deadlock is a producer that sends on the full channel while all workers wait for its lock; `WedgeIsPermanent`: only a restart ends it |
| `controller_safety` (rounds) | two PODs, two RDT options, three power profiles ("None" and two, one a part of the other's name), an intent with latency and availability or with power, two rounds, paths of two actions, one event | `RemoteIsLocal`: an actuator answers the same behind its messages; `EachActsOnce`: the marks keep an actuator from acting twice on a path; `SatisfiedOrBlind`: what looks as desired is so, or a query has no answer; `OnlyNews`: a plan for a workload at rest asks for something that is not set |
| `controller_availability` (violation) | the rounds, with two events | `AvailabilityTracked`: all PODs have failed, and the availability is the highest one |
| `controller_liveness` | one intent, one worker, ticks up to one unit late | `NeverEvictedEarly`, `EntriesExpire`, and `EvaluatedUnlessWedged`: an intent is planned for again and again, or withdrawn, or the controller is in that deadlock |
| `controller_wedge` (violation) | the same without late ticks | `ContinuouslyCompared`: the deadlock refutes docs/framework.md:25 |
| `intent_monitor` | two intents, two workers, a failing read, tombstones | `OneWorkerPerKey`, `NeverOlder`, `ImplementsStore`, `LiveIntentsArrive` |
| `intent_monitor_delete` (violation) | one intent, one worker | `DeletedIntentsForgotten`: a send that was blocked while the object was deleted puts it back for good |
| `plugin_manager` (manager) | one name, two concurrent calls, two stubs | `CountersMatch`; `RemovedOnlyIfDead`: only after all its retries, counting those of a registration it has replaced; `RegisterAnswered`, `DeadRemoved` |
| `plugin_manager` (start) | every main configuration with one field at an edge, and the same for all five plugin programs | `PanicsExplained`: an accepted configuration ends no program later, but for the three cases it names; `MonitorsGetGoing` |
| `planner` (plans) | three states, two actuators, free and costly actions, 0 to 2 opportunistic candidates | `PathIsWay`, `NilOnlyIfNone`, `ShortcutIsPriced`, `PlanReachesGoal`, `Terminates` |
| `planner` (profiles) | one profile changed three times, two workers, a failure | `VerdictFits`, `OneWritePerChange`, `ProfilesArrive`, `UnderstoodAreResolved` |
| `planner_satisfied` (violation) | the same, plans only | `SatisfiedIsKept`: a workload that is as desired is moved to a worse state |
| `pods` (monitor) | one POD that fails, is ready again and flaps, two workers, a failing read, tombstones, crashes | `TwicePerOutage`: two reports at most for each time the POD goes out of order; `CachedErrorsLeave` |
| `pods` (scaling) | two plans of up to two actions at a time, from two PODs, users who scale to 1 | `NoLostUpdates`, `ImplementsWorkload`, `MissedByOneAtMost`, `PlansEnd` |
| `scaling_minpods` (violation) | one plan | `MinPodsKept`: a plan goes below `min_pods` |
| `scaling_maxpods` (violation) | one plan of one action | `MaxPodsKept`: a plan goes above `max_pods` |

The controller's type invariant is checked by its run; those of the plan cache, the
intent monitor and the scaling actuators are proved, and the other modules state
theirs as documentation of their variables, or as part of the invariants of their
proofs. Run one with `tlc -config MCPods.cfg MCPods`.

`TwicePerOutage` counts by outage, a change of the POD from in order to out of order,
and not by `LastTerminationState`: a container that flaps between ready and not ready
without failing again is noticed and reported anew each time (`pod_monitor.go:188`),
with the same termination.

### Bounds, and why they are enough

* *Controller*: one intent is enough for all four producers to queue it several
  times, so that a channel of length 1 and one worker fill up and the deadlock is
  reached. What more intents, workers and a longer channel could add is covered by
  the theorems, which hold for all of them. `TTL = TickPeriod = 1` with `MaxLag` 0 or 1 has
  ticks before, at and after the expiry of an entry.
* *Monitors*: two workers and two or three waiting notifications let a change, a
  deletion and a re-creation overtake each other. Versions are bounded by
  `MaxVersion` or `MaxChanges`; one failure (`MaxFailures`) can hit any read or
  write. One termination (`MaxIncidents`) and two outages (`MaxOutages`) let the same
  termination be seen twice, and the second outage overtake the reports of the first.
* *Plugin manager*: two calls of one name are what the gap between check and store
  needs; `Retries = 1` distinguishes the first from the last retry; a stub that is
  replaced or removed leaves one for the next registration. `Stubs` bounds the
  number of registrations.
* *Planner*: three states (five nodes with the goal and the shortcut's) and two
  actuators span cycles, parallel edges, dead ends, free cycles and states found
  twice. `MaxStates = 4` cuts graphs off in the middle and is exceeded by a
  candidate; the state found last is therefore never asked for follow-up states of its
  own, unless it is the only one found. Actuators, and states but the current one, are
  interchangeable: a behaviour in which another actuator is asked first, or another
  state found first, is one of these with names exchanged (`InOrder`).
  Distances lie below and above every utility, so that the heuristic
  misleads the search.
* *Scaling*: two executors and a user are enough for every conflict, and
  `Retries = 2` for both outcomes of one. Users set 1 replica; the 2 that the plans are
  made for is reached by a plan before, and a plan that removes one of two PODs and
  meets the 1 has nothing left to write. Plans of two actions combine any two
  actuators. A CPU increment of 2 is the smallest the code survives.
* *Planning rounds*: two PODs are needed for a roll-out in the middle, in which the
  PODs have different annotations and the order of the list decides; their names are
  interchangeable (`PodSymmetry`; the properties of this run are invariants and
  action properties, for which symmetry is sound). Two rounds are the least for a
  plan that meets the result of another, and paths of two actions (`MaxPath`) the
  least for an actuator to be asked twice, which is why `EachActsOnce` needs no more.
  One event (`MaxEvents`) is a rescaling, a POD error or a drop of the load;
  `controller_availability` has two, an error for each POD. Planning
  touches nothing of the cluster, so that steps of the cluster are left until it is
  over (`RoundsNext`). `MCInit` leaves out initial states that combine two oddities,
  such as a template with neither annotations nor requests.
* *Start*: every limit is met at, above and below its edges; the checks look at the
  fields one by one, so that one field away from its default is enough.
  `DialRetries = 1` distinguishes the first dial from a retry; more retries repeat
  the second.

Deadlock checking is off where the bounded environment comes to rest (the
monitors, the plugin manager after `Stop`, the executed plans). It is on for
`planner_satisfied` and the controller, where it says little for the latter because
time always passes: `StuckOnlyIfWedged` is the statement about its goroutines. The
planner ends by `Terminates`.

### Fairness, and why the code justifies it

* Goroutines that can run are scheduled (weak fairness). A goroutine that waits
  for a Go mutex or a channel is served in order of arrival, or, with `RWMutex`,
  not starved: strong fairness for the producers and workers of the controller,
  for taking a key from a work queue (a FIFO), for handing a change to
  `updatePodCache`, and for the three users of the plugin manager's mutex.
* Tickers fire, back-offs end, watches deliver; calls to plugins and to the API
  server are answered or fail. The first planner is set by main. At the start, the
  first list of an informer arrives, and the programs go on with their next step.
* Where a run holds two modules, each has its own fairness, for the behaviours of its
  part.
* Nothing is assumed of users, owners, PODs, plugin processes, connections and
  failures: they act or not.

## 4. Theorems

All are proved for every value of the constants that satisfies the named
assumptions of the modules: limits that the configuration code enforces,
placeholders that differ from real values (`Nil` from every map, which the code
tells apart by `== nil`), power profiles none of which has a name that is a part of
`cpu` or, but for `None` itself, has `None` in it (`ContainsAssumption`), and intents with objectives of the kinds the model
has, and finitely many workers, one at least. Numbers of PODs, plugins, workers, states, options, retries and rounds, the
lengths of channels, paths and plans are arbitrary.

| theorem | statement | argument |
|---|---|---|
| `IntentController_proofs!CacheTypes`, `CacheKeepsEntries` | `CacheTypeOK`, `NeverEvictedEarly` | types are inductive; an entry that is evicted at a tick waiting for d units has an age above TTL + d |
| `ControllerTypeOK`, `ControllerLockInv` | `TypeOK`, `LockInv` | inductive invariant `IInv == TypeOK /\ JobInv /\ LockInv`. `TypeOK` alone is not inductive: what a worker adds to `executing` or a producer to `tasks` is a key only because it has one in hand, which is `JobInv` |
| `ControllerQuiet` | `QuietUntilWarm` | inductive together with `IInv`; the only way past `trigger` is the test of the warm-up flag |
| `ControllerStuck` | `StuckOnlyIfWedged` | from `IInv`: if everybody is blocked and the lock is taken, its owner is in a critical section, and the only one that blocks there is a producer's send on the full channel; then no worker waits for a key, so all wait for the lock |
| `ControllerWedge` | `WedgeIsPermanent` | no action is enabled that changes the channel, the sender or a worker |
| `ControllerThrottles` | `ThrottleBound` | a key's work is the sum of three cardinalities: its places in the channel, its senders, its workers. From a sender to the channel and on to a worker it moves from one summand to the next (`PlacesAppend`, `PlacesTail`, `ActorsFinite`); the only step that adds to the sum is the loop of `processIntents`, which passes over a cached key |
| `IntentMonitor_proofs!MonitorTypeOK`, `MonitorOneWorker`, `MonitorNeverOlder` | `TypeOK`, `OneWorkerPerKey`, `NeverOlder` | inductive invariant `IInv == TypeOK /\ OneWorkerPerKey /\ VersionInv`: the version in a worker's hands is at least the controller's (`VersionInv`), and stays so because no other worker can send for that key |
| `MonitorImplementsStore` | `ImplementsStore` | every action of the monitor is an action of `IntentStore` or a stutter under the mapping; `Learn` needs `VersionInv` (the version in hand is not older than the copy), `Forget` that a removal under way is a deletion |
| `KPIProfileMonitor_proofs!ProfileVerdictFits` | `VerdictFits` | a status is written only if the version in the worker's hands is the newest one, and then it is a version of that key and no deletion (`HandInv`) |
| `ProfileWritesDieOut` | `OneWritePerChange` | `DebtInv`: the versions plus the write that is owed (one, while the newest version lacks its verdict) are at most twice the owner's changes. A write pays the debt, and the update it causes finds nothing owed |
| `PodMonitor_proofs!OutagesReportedAtMostTwice` | `TwicePerOutage` | `ReportInv`: the reports so far and those that can still be sent are at most twice the outages (`Paid`). A worker that marks a POD, or a POD in `podsWithError`, is good for two more, an entry whose removal is handed over for one; a POD that goes out of order pays for two, and while it is out of order only a worker that has read it before can report (`Late`). It needs `OwnerInv`, that the work queue gives a POD to one worker |
| `PluginManager_proofs!ManagerCounters`, `ManagerRemoves` | `CountersMatch`, `RemovedOnlyIfDead` | inductive invariant `IInv`: a call has a name and a stub where it needs them (`CallInv`); a counter never counts more than the bad checks in a row of the registered stub and of those it has replaced (`CountInv`), which needs `CountersMatch` for a name that registers again |
| `StartupPanics` | `PanicsExplained` | `MainInv`, `ProgInv`: past the parser a program keeps a configuration that was accepted, so that each step that could panic has a field in range |
| `APlanner_proofs!PathsAreWays` | `PathIsWay` | a reached node but the start has a predecessor that is the source of an edge to it, with the action stored (`LinkInv`), and the predecessors form no cycle (`AcyclicInv`): scores do not rise on the way back along predecessors and relaxing an edge lowers one, so that it cannot close a cycle. `resolvePath` follows them and ends at the start (`TraceInv`) |
| `NoWayOverlooked` | `NilOnlyIfNone` | `FrontierInv`: a reached node is open or all its edges lead to reached nodes, so that an empty heap has left no node behind that a way could go through; `hasGoal` is set only if there is a way (`ReachInv`), which the growth of the graph keeps |
| `ShortcutPrice` | `ShortcutIsPriced` | without utilities every edge has the same cost and the heuristic is 0; a reached node is open with its score or has passed it on (`HopsInv`), so that when the goal leaves the heap no way has fewer hops than the score says |
| `PlansReachGoal` | `PlanReachesGoal` | an edge to the goal comes from a state that is good enough or from the shortcut's node (`EdgeInv`), and an edge without an action can only be one of those; a plan is empty only if the path had no other |
| `Scaling_proofs!NothingLost` | `NoLostUpdates` | inductive invariant `UpdateInv`: a fresh copy equals the object (`FreshInv`), which every accepted write keeps by making the other copies stale |
| `Scaling_proofs!ScalingTypes`, `LimitsMissedByOneAtMost` | `ScalingTypeOK`, `MissedByOneAtMost` | `WithinInv`: the factor an executor keeps misses the limits by one at most for the number of PODs the plan was made for (`JobWithin`). It is a statement about every plan of the search (`PlanWithin`): each actuator keeps it in a follow-up state (`StepWithin`), hence plans of any length have it (`PlansWithin`) |
| `ScalingImplementsWorkload` | `ImplementsWorkload` | an accepted write is `Add` or `Set` because a fresh copy equals the object (`FreshInv`); conflicts that are retried are stutters, the last one and every error is `Drop` |
| `Platform_proofs!ActuatorsActOnce` | `EachActsOnce` | `MarkInv`: the state a path has led to has the mark of every action on it (but for the RDT actuator's `None`). The marks are in maps that are copied, serialised and parsed at every step, which the lemmas `SentOK`, `CopyOK`, `RdtStates` and `PowerStates` follow through |
| `NoFalseContentment` | `SatisfiedOrBlind` | `MeasuredInv`: before the first action the state has a value for exactly the objectives with a profile, and each is true, -1 or 0, or the load has dropped since. A state that is as good as the goal has as many objectives as the intent, hence all of them |
| `PlansAreNews` | `TellApart` implies `OnlyNews` | `ShowsInv`: for a workload at rest the state shows the template's option and resources all along the path; so an action on it asks for something else (`NewsInv`), and performing it leads to a template that shows what was asked for. The last step needs `TellApart`, that no profile has one that is listed before it for a part of its name: such a profile is set and not recognised, and asked for again in every round |
| `PluginsAreTransparent` | `RemoteIsLocal` | two states are the `Same` if their maps have the same entries, a missing map being an empty one. A state and what arrives of it are the `Same` (`SentSame`), the profiles arrive as they are (`ProfilesSent`), and an actuator that is given one or the other has follow-up states that are the `Same` again, with the same actions (`SameRdt`, `SamePower`): every map is read through its entries, or only where it has some |

Some arguments need induction over data. The prover has no induction rule for a
property, but a set of natural numbers that is not empty has a least element
(`Least`, from the well-foundedness of inclusion between finite sets), and so an
interval that contains 0 and the successor of each of its elements below n goes up
to n. With this the planner's proofs count along paths and the recursive function
that turns a path into a plan, those about scaling the plans of any length that the
recursive search finds, and the others get the least and the greatest index
that the actuators choose by.

Only model-checked: all liveness properties, since the prover has no support for
fairness. Every other property of a passing run is a
theorem. The six violated ones are shown by the traces of their runs.

## 5. Known divergences

What the six violation runs show (`findings` in `PROJECT.json`):

1. A producer and the workers can block each other for ever
   (`intent_controller.go:142`).
2. A deleted intent can come back (`intent_monitor.go:163`).
3. A satisfied workload can be moved to a worse state by opportunistic planning
   (`astar_planner.go:103`).
4. A plan can go below `min_pods` (`rm_pod.go:85`).
5. A plan can scale to `max_pods` + 1 (`scale_out.go:101`).
6. The errors of a POD are stored under namespace/name and looked up by its name
   (`state_helper.go:70`): they are never found, and every POD counts as always
   available.

Seen while modelling, part of the models, and without a run of their own:

* Two concurrent registrations of one name both succeed, and the second replaces
  the first, although `plugin_manager.go:47` says that this is not allowed. The new one
  inherits the retry counter of the one it replaces (`plugin_manager.go:84`), so that
  fewer bad checks of its own than there are retries, down to one, remove it.
* A connection that is lost and re-established keeps its dead `NextState` stream:
  the plugin stays registered and is never asked for a state again
  (`docs/pluggability.md:19`). If the stream cannot be opened at all, the next
  call dereferences a nil stream and ends the process.
* Stubs that were removed or replaced are not closed, by `Stop` neither
  (comment at `plugin_manager.go:151`). A plugin registers only once: after its
  removal, or a restart of the controller, it keeps running unregistered.
* A deletion that the watch missed (tombstone) is dropped by the delete handlers.
* A status write that fails is not repeated (`docs/framework.md:61`), and an error
  that the POD monitor has noticed may never be recorded: it is reported by the
  worker that sees the POD ready again, which does not find it in `podsWithError`
  if that change was not applied yet (`docs/framework.md:67`).
* The plan cache does not stop work that is already queued
  (`docs/getting_started.md:130`); `ThrottleBound` is what holds.
* The graph can exceed `max_states` by the candidates of one node
  (`docs/getting_started.md:150`), and the path found need not be the most
  efficient one (`docs/planner.md:25`), since the heuristic is not admissible.
* Two plans made from the same state scale twice. The state found by the CPU-scale
  actuator's model is not compared with `cpu_max` (`docs/getting_started.md:193`).
* For an intent without a latency objective, a proactive CPU step asks for 0 units;
  with `max_proactive_cpu` between 1 and 19 the CPU-scale actuator panics.
* A query that fails is answered by -1, and one that ends in a panic by 0, which meet
  every target to be minimised (`kpi.go:115`, `kpi.go:67`): a workload nobody can
  measure looks satisfied.
* A container that is not ready for another reason than a new failure is taken for
  failed if it has failed before (`pod_monitor.go:188`): each such outage is recorded as
  an error again, with the times of the old one.
* A power profile whose name contains one that is listed before it, as
  `balance-performance` after `performance`, is taken for that one (`power.go:215`), set
  in every round and never recognised.
* The RDT actuator does not store the annotations it makes for a template without
  any (`rdt.go:254`): the option is lost, although the comment at `rdt.go:245` says that the
  annotation is set, and it is offered again in the next round. The
  energy actuator assigns to the resource requests of a template without checking
  for nil (`power.go:346`), which ends the plugin.
* Properties of an action that are neither a map of integers nor of strings arrive
  empty at the plugin (`docs/actuators.md:72`).
* If the plugin manager does not get its port, the error is logged and the main
  program goes on with a nil planner until the first intent (`astar_planner.go:42`).
  If the RDT actuator's prediction script cannot be started, the PID of a process
  that does not exist is read (`rdt.go:322`).
* The retries of `Register` share the context of the first dial, which has expired when
  they begin (`actuator_plugin_stub.go:159`): they cannot succeed, and a plugin whose
  manager comes up after the first dial gives up.
* The number of the POD monitor's workers, `max_states` and `max_candidates` are not
  validated; without workers the POD monitor stays idle (`config.go:119`).

## 6. Not modelled, and why

* *Effect* of the actuators and the tracer: they start scripts and write documents.
* The arithmetic of KPIs, telemetry and predictions: floating point, and results
  of external services; the models allow any result in the order that decides.
* The fields of a message that are copied one by one and that nothing modelled
  decides by; the syntax of configuration files, paths and URLs.
* Errors of the informer's cache synchronisation at start, and shutdown of the
  controller and the monitors: the process ends.
* Generated clients, listers, deep copies and protobuf code, and vendored code.

## 7. Plan

In this order; all but the last item are done.

1. Controller and plan cache, with proofs: the centre of the system and its lock
   discipline.
2. Informer and intent monitor, with proofs.
3. Profile and POD monitor.
4. Plugin manager.
5. A* planner.
6. Scaling actuators, with the proof that no update is lost.
7. Abstract specifications of what the intent monitor and the scaling actuators
   promise (`IntentStore`, `Workload`) and their refinements, by TLC and by proof.
8. The current state: keys of POD errors, availability, failed queries.
9. RDT and energy actuators, and the conversions of the gRPC messages, in planning
   rounds.
10. Configurations, start of the programs, registration of a plugin.
11. Proofs about the plugin manager's maps.
12. Proofs about the profile and the POD monitor and the start (`VerdictFits`,
    `OneWritePerChange`, `TwicePerOutage`, `PanicsExplained`).
13. Proofs about the search and the plans, from invariants about predecessors, the
    frontier and the scores.
14. Proofs about planning rounds, from an invariant about the state along a path.
15. Proofs about the work a cached intent still gets and the limits of the scaling
    actuators (`ThrottleBound`, `MissedByOneAtMost`).
16. A proof of `RemoteIsLocal`: states that differ only in what the messages lose have
    the same follow-up states.
17. Variants behind the liveness properties: a measure that every own step of a plan
    under execution, and of the search, decreases, so that `PlansEnd` and `Terminates`
    rest on the scheduling alone for every value of the constants.
