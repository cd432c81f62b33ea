---------------------------- MODULE PluginManager ----------------------------
(***************************************************************************)
(* Actuator plugins: the plugin manager (plugin_manager.go), the client    *)
(* stubs it keeps for the registered plugins (actuator_client_stub.go) and *)
(* the plugin processes, which serve, register once and give up when the   *)
(* registration is refused (actuator_plugin_stub.go, plugins_helper.go),   *)
(* all under pkg/api/plugins/v1alpha1 and plugins/.                        *)
(*                                                                         *)
(* gRPC runs every Register call in a goroutine of its own.  A call looks  *)
(* the name up under mu, connects back to the plugin WITHOUT mu and then   *)
(* stores the stub under mu.  The planner iterates over the stubs with mu  *)
(* held and calls one plugin after the other.                              *)
(*                                                                         *)
(* What travels in the calls is left out; a connection is ready, down (it  *)
(* is being re-established) or closed.  The stream of a stub is the field  *)
(* stream of the Go struct: unset, open, broken with its connection, or    *)
(* set to a nil stream because it could not be opened.                     *)
(***************************************************************************)
EXTENDS Integers, FiniteSets

CONSTANTS
    Names,        \* names of the plugins
    Calls,        \* Register calls that can be in progress
    Stubs,        \* bound: client stubs that are ever made
    Retries,      \* retries of NewPluginManagerServer
    None

ASSUME RetriesAssumption == Retries \in Nat
ASSUME NoneAssumption == None \notin Names \cup Stubs

VARIABLES
    registered,   \* [Names -> stub or None]: registeredPlugins
    retries,      \* [Names -> count or NoCount]: registeredPluginsRetries
    mu,           \* "free", or the functor an Iter that holds mu applies
    itodo,        \* the stubs the Iter has left
    stub,         \* [Stubs -> name, connection and stream]
    call,         \* [Calls -> where a Register call is]
    plugin,       \* [Names -> state of the plugin's process]
    stopped,      \* Stop was called
    badChecks,    \* history: refreshes in a row that saw the stub that is
                  \* registered now unhealthy
    inherited     \* history: the same of the stubs it has replaced, if any

pmVars == <<registered, retries, mu, itodo, stub, call, stopped>>
managerHistory == <<badChecks, inherited>>
vars == <<pmVars, plugin, managerHistory>>

NoCount == -1
Functors == {"NextState", "Perform", "Effect"}
NoStub == [name |-> None, conn |-> "unused", stream |-> "unset"]
NoCall == [pc |-> "idle", name |-> None, stub |-> None, live |-> FALSE]

StubRecords == [name : Names \cup {None},
                conn : {"unused", "ready", "down", "closed"},
                stream : {"unset", "open", "broken", "nil"}]
CallRecords == [pc : {"idle", "check", "dial", "insert"}, name : Names \cup {None},
                stub : Stubs \cup {None}, live : BOOLEAN]

Init ==
    /\ registered = [n \in Names |-> None]
    /\ retries = [n \in Names |-> NoCount]
    /\ mu = "free" /\ itodo = {}
    /\ stub = [s \in Stubs |-> NoStub]
    /\ call = [c \in Calls |-> NoCall]
    /\ plugin = [n \in Names |-> "down"]
    /\ stopped = FALSE
    /\ badChecks = [n \in Names |-> 0]
    /\ inherited = [n \in Names |-> 0]

Healthy(s) == stub[s].conn = "ready"
Registered(n) == registered[n] # None
Unused == {s \in Stubs : stub[s].conn = "unused"}
\* The histories count as far as they matter.
Capped(k) == IF k > Retries THEN Retries + 1 ELSE k

Busy == {c \in Calls : call[c].pc # "idle"}

\* A connection that is lost takes an open stream with it.
Lost(r) == [r EXCEPT !.conn = IF @ = "ready" THEN "down" ELSE @,
                     !.stream = IF @ = "open" /\ r.conn = "ready" THEN "broken" ELSE @]

LoseAll(N) == [s \in Stubs |-> IF stub[s].name \in N THEN Lost(stub[s]) ELSE stub[s]]

\* The answer of a call that is made for one of the plugins N is lost.
Abandon(N) == [c \in Calls |-> IF call[c].name \in N THEN [call[c] EXCEPT !.live = FALSE]
                                                      ELSE call[c]]

-----------------------------------------------------------------------------
(* The plugin processes. *)

\* StartActuatorPlugin: the stub's gRPC server serves.
PluginStart(n) ==
    /\ plugin[n] = "down"
    /\ plugin' = [plugin EXCEPT ![n] = "serving"]
    /\ UNCHANGED <<pmVars, managerHistory>>

\* The process dies, restarts of its container included; a Register call it
\* made goes on in the manager.
PluginDies(n) ==
    /\ plugin[n] # "down"
    /\ plugin' = [plugin EXCEPT ![n] = "down"]
    /\ stub' = LoseAll({n})
    /\ call' = Abandon({n})
    /\ UNCHANGED <<registered, retries, mu, itodo, stopped, managerHistory>>

\* The stub calls Register at the plugin manager and waits for the answer.
PluginRegisters(n, c) ==
    /\ plugin[n] = "serving"
    /\ ~stopped
    /\ call[c].pc = "idle"
    /\ Cardinality(Busy) < Cardinality(Unused)
    /\ plugin' = [plugin EXCEPT ![n] = "waiting"]
    /\ call' = [call EXCEPT ![c] = [NoCall EXCEPT !.pc = "check", !.name = n, !.live = TRUE]]
    /\ UNCHANGED <<registered, retries, mu, itodo, stub, stopped, managerHistory>>

\* A plugin of another API version is refused and gives up.
PluginUnsupported(n) ==
    /\ plugin[n] = "serving"
    /\ ~stopped
    /\ plugin' = [plugin EXCEPT ![n] = "down"]
    /\ stub' = LoseAll({n})
    /\ UNCHANGED <<registered, retries, mu, itodo, call, stopped, managerHistory>>

-----------------------------------------------------------------------------
(* Register. *)

\* The call returns an error: a plugin that still waits for it exits
\* (klog.Fatalf), and its connections are lost.
Refuse(c) ==
    /\ call' = [call EXCEPT ![c] = NoCall]
    /\ IF call[c].live
         THEN /\ plugin' = [plugin EXCEPT ![call[c].name] = "down"]
              /\ stub' = LoseAll({call[c].name})
         ELSE UNCHANGED <<plugin, stub>>

\* The name is looked up under mu.
RegisterCheck(c) ==
    /\ call[c].pc = "check"
    /\ mu = "free"
    /\ IF Registered(call[c].name)
         THEN Refuse(c)
         ELSE /\ call' = [call EXCEPT ![c].pc = "dial"]
              /\ UNCHANGED <<plugin, stub>>
    /\ UNCHANGED <<registered, retries, mu, itodo, stopped, managerHistory>>

\* newActuatorClientStub connects to the endpoint, where some instance of the
\* plugin has to serve; a blocking dial waits for it.
RegisterDial(c, s) ==
    /\ call[c].pc = "dial"
    /\ plugin[call[c].name] # "down"
    /\ s \in Unused
    /\ stub' = [stub EXCEPT ![s] = [name |-> call[c].name, conn |-> "ready",
                                    stream |-> "unset"]]
    /\ call' = [call EXCEPT ![c].pc = "insert", ![c].stub = s]
    /\ UNCHANGED <<registered, retries, mu, itodo, plugin, stopped, managerHistory>>

\* All attempts failed, or the connection is not ready after the last one.
RegisterDialFails(c) ==
    /\ call[c].pc = "dial"
    /\ Refuse(c)
    /\ UNCHANGED <<registered, retries, mu, itodo, stopped, managerHistory>>

\* The stub is stored under mu, whatever is there by now: a stub that another
\* call has stored since the check is replaced, and leaves its counter behind.
RegisterInsert(c) ==
    /\ call[c].pc = "insert"
    /\ mu = "free"
    /\ registered' = [registered EXCEPT ![call[c].name] = call[c].stub]
    /\ call' = [call EXCEPT ![c] = NoCall]
    /\ plugin' = IF call[c].live THEN [plugin EXCEPT ![call[c].name] = "active"] ELSE plugin
    /\ badChecks' = [badChecks EXCEPT ![call[c].name] = 0]
    /\ inherited' = [inherited EXCEPT ![call[c].name] =
                       IF Registered(call[c].name) THEN Capped(@ + badChecks[call[c].name]) ELSE 0]
    /\ UNCHANGED <<retries, mu, itodo, stub, stopped>>

-----------------------------------------------------------------------------
(* refreshRegisteredPlugin: one pass under mu. *)

\* Mutant: every unhealthy check starts the counter again.
CountFromZero(n) == 0

\* The counter of a plugin that has none yet starts at 0.
Count(n) == IF retries[n] = NoCount THEN 0 ELSE retries[n]

\* Mutant: one unhealthy check too few.
TooEarlyRemoved(n) ==
    Registered(n) /\ ~Healthy(registered[n]) /\ Count(n) + 1 >= Retries

ToBeDeleted(n) ==
    Registered(n) /\ ~Healthy(registered[n]) /\ Count(n) >= Retries

\* Mutant: the counter of a removed plugin is kept.
RetriesKept(n) ==
    IF ~Registered(n) THEN retries[n]
    ELSE IF Healthy(registered[n]) THEN 0 ELSE Count(n) + 1

NewRetries(n) ==
    IF ~Registered(n) THEN retries[n]
    ELSE IF ToBeDeleted(n) THEN NoCount
    ELSE IF Healthy(registered[n]) THEN 0 ELSE Count(n) + 1

Refresh ==
    /\ ~stopped
    /\ mu = "free"
    /\ registered' = [n \in Names |-> IF ToBeDeleted(n) THEN None ELSE registered[n]]
    /\ retries' = [n \in Names |-> NewRetries(n)]
    /\ badChecks' = [n \in Names |->
                       IF ~Registered(n) THEN badChecks[n]
                       ELSE IF Healthy(registered[n]) THEN 0
                       ELSE Capped(badChecks[n] + 1)]
    /\ inherited' = [n \in Names |->
                       IF Registered(n) /\ Healthy(registered[n]) THEN 0 ELSE inherited[n]]
    /\ UNCHANGED <<mu, itodo, stub, call, plugin, stopped>>

-----------------------------------------------------------------------------
(* Iter, as the planner uses it. *)

IterStart(f) ==
    /\ mu = "free"
    /\ mu' = f
    /\ itodo' = {registered[n] : n \in Names} \ {None}
    /\ UNCHANGED <<registered, retries, stub, call, plugin, stopped, managerHistory>>

\* Mutant: the deferred unlock is missing.
IterDoneLocked ==
    /\ mu # "free"
    /\ itodo = {}
    /\ UNCHANGED vars

IterDone ==
    /\ mu # "free"
    /\ itodo = {}
    /\ mu' = "free"
    /\ UNCHANGED <<registered, retries, itodo, stub, call, plugin, stopped,
                   managerHistory>>

\* NextState of a client stub.  The stream is opened by the first call and
\* stored before its error is looked at; it is never opened again.
CallNextState(s) ==
    /\ mu = "NextState"
    /\ s \in itodo
    /\ itodo' = itodo \ {s}
    /\ \/ /\ stub[s].conn = "closed"              \* isStopped
          /\ UNCHANGED stub
       \/ /\ stub[s].conn = "ready"
          /\ stub[s].stream \in {"unset", "open"}
          /\ stub' = [stub EXCEPT ![s].stream = "open"]
       \/ /\ stub[s].conn = "down"
          /\ stub[s].stream = "unset"             \* a.stream = &stream, stream nil
          /\ stub' = [stub EXCEPT ![s].stream = "nil"]
       \/ /\ stub[s].conn \in {"ready", "down"}
          /\ stub[s].stream = "broken"            \* Send or Recv fails
          /\ UNCHANGED stub
    /\ UNCHANGED <<registered, retries, mu, call, plugin, stopped, managerHistory>>

\* NextState of a stub whose stream could not be opened dereferences the nil
\* stream, which ends the process.  It comes back with empty maps; a plugin
\* that waits for an answer gets an error and exits, an active one stays.
NextStatePanics(s) ==
    /\ mu = "NextState"
    /\ s \in itodo
    /\ stub[s].conn \in {"ready", "down"} /\ stub[s].stream = "nil"
    /\ registered' = [n \in Names |-> None]
    /\ retries' = [n \in Names |-> NoCount]
    /\ mu' = "free" /\ itodo' = {}
    /\ stub' = [t \in Stubs |-> NoStub]
    /\ call' = [c \in Calls |-> NoCall]
    /\ plugin' = [n \in Names |-> IF plugin[n] = "waiting" THEN "down" ELSE plugin[n]]
    /\ stopped' = FALSE
    /\ badChecks' = [n \in Names |-> 0]
    /\ inherited' = [n \in Names |-> 0]

\* Perform, and Effect, which starts a goroutine: unary calls, an error is
\* logged.
CallUnary(s) ==
    /\ mu \in {"Perform", "Effect"}
    /\ s \in itodo
    /\ itodo' = itodo \ {s}
    /\ UNCHANGED <<registered, retries, mu, stub, call, plugin, stopped, managerHistory>>

\* Stop closes the connections of the plugins in the map and then the server:
\* a plugin that waits for an answer gets an error and exits, the goroutines
\* of its Register calls are not waited for.  main calls it once.
Stop ==
    /\ mu = "free"
    /\ ~stopped
    /\ stopped' = TRUE
    /\ LET waiting == {n \in Names : plugin[n] = "waiting"} IN
         /\ stub' = [s \in Stubs |-> IF \E n \in Names : registered[n] = s
                                       THEN [LoseAll(waiting)[s] EXCEPT !.conn = "closed"]
                                       ELSE LoseAll(waiting)[s]]
         /\ plugin' = [n \in Names |-> IF n \in waiting THEN "down" ELSE plugin[n]]
         /\ call' = Abandon(waiting)
    /\ UNCHANGED <<registered, retries, mu, itodo, managerHistory>>

-----------------------------------------------------------------------------
(* Connections come and go. *)

ConnectionLost(s) ==
    /\ stub[s].conn = "ready"
    /\ stub' = [stub EXCEPT ![s] = Lost(stub[s])]
    /\ UNCHANGED <<registered, retries, mu, itodo, call, plugin, stopped, managerHistory>>

\* gRPC reconnects by itself as soon as somebody serves at the endpoint.
Reconnected(s) ==
    /\ stub[s].conn = "down"
    /\ plugin[stub[s].name] # "down"
    /\ stub' = [stub EXCEPT ![s].conn = "ready"]
    /\ UNCHANGED <<registered, retries, mu, itodo, call, plugin, stopped, managerHistory>>

-----------------------------------------------------------------------------
PluginStep(n) ==
    \/ PluginStart(n) \/ PluginDies(n) \/ PluginUnsupported(n)
    \/ \E c \in Calls : PluginRegisters(n, c)

\* A Register call makes progress; it is at one of the three places.
RegisterAdvances(c) ==
    \/ RegisterCheck(c) \/ RegisterInsert(c)
    \/ \E s \in Stubs : RegisterDial(c, s)

RegisterStep(c) == RegisterAdvances(c) \/ RegisterDialFails(c)

IterStep == IterDone \/ \E s \in Stubs : CallNextState(s) \/ NextStatePanics(s) \/ CallUnary(s)

Next ==
    \/ \E n \in Names : PluginStep(n)
    \/ \E c \in Calls : RegisterStep(c)
    \/ \E f \in Functors : IterStart(f)
    \/ IterStep
    \/ Refresh
    \/ Stop
    \/ \E s \in Stubs : ConnectionLost(s) \/ Reconnected(s)

Spec == Init /\ [][Next]_vars

\* The reconcile loop and the gRPC goroutines are scheduled and get mu when
\* it is free again and again; the planner keeps planning; a plugin answers a
\* call or the call fails.  A dial succeeds when it finds the plugin serving
\* often enough; it blocks otherwise, and nothing makes it fail.  Plugins,
\* connections and Stop are left free.
Fairness ==
    /\ WF_vars(IterStep)
    /\ SF_vars(IterStart("NextState"))
    /\ SF_vars(Refresh)
    /\ \A c \in Calls : SF_vars(RegisterAdvances(c))

FairSpec == Spec /\ Fairness

-----------------------------------------------------------------------------
(* Properties. *)

\* The types.
TypeOK ==
    /\ registered \in [Names -> Stubs \cup {None}]
    /\ retries \in [Names -> NoCount .. Retries]
    /\ mu \in Functors \cup {"free"}
    /\ itodo \subseteq Stubs
    /\ stub \in [Stubs -> StubRecords]
    /\ call \in [Calls -> CallRecords]
    /\ plugin \in [Names -> {"down", "serving", "waiting", "active"}]
    /\ stopped \in BOOLEAN
    /\ badChecks \in [Names -> 0 .. Retries + 1]
    /\ inherited \in [Names -> 0 .. Retries + 1]

\* The retry counters belong to registered plugins: a plugin that comes back
\* after its removal starts with a clean counter, although registering does
\* not touch the counters.
CountersMatch ==
    \A n \in Names : ~Registered(n) => retries[n] = NoCount

RemovedAfterRetries ==
    \A n \in Names :
      Registered(n) /\ registered'[n] = None /\ stub'[registered[n]] # NoStub
        => badChecks'[n] + inherited[n] > Retries

\* A plugin is removed only when Retries + 1 checks in a row found it
\* unhealthy, the one that removes it included: all of them checks of its own
\* if its registration took a free name, and those of the stub it replaced as
\* well if a second registration slipped in, for it inherits the counter.  (A
\* crash of the manager, which forgets every stub, is no removal.)
RemovedOnlyIfDead == [][RemovedAfterRetries]_vars

\* Every Register call ends, although it competes for mu with the planner,
\* unless the plugin that made it is gone and nobody takes its place.
RegisterAnswered ==
    \A c \in Calls :
      call[c].pc # "idle"
        ~> \/ call[c].pc = "idle"
           \/ call[c].pc = "dial" /\ plugin[call[c].name] = "down"

\* A plugin whose connection stays down is removed, and with that it can
\* register again.
DeadRemoved ==
    \A n \in Names : \A s \in Stubs :
      registered[n] = s /\ ~Healthy(s)
        ~> registered[n] # s \/ Healthy(s) \/ stopped

=============================================================================
