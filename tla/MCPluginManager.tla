--------------------------- MODULE MCPluginManager ---------------------------
(***************************************************************************)
(* The plugin side for TLC.  PluginManager begins where Startup ends, with *)
(* a manager that listens and plugins that come and go; they are looked at *)
(* one at a time, and the other part rests in an initial state.            *)
(***************************************************************************)
EXTENDS PluginManager, Startup

VARIABLE part     \* the part this behaviour is about

allVars == <<part, vars, startupVars>>

MainAtRest == mainConfig = MainDefault
ProgramAtRest == prog.name = "rm_pod" /\ progConfig = ProgDefault("rm_pod")

\* One of the two configurations at a time has a value of its own.
MCInit ==
    /\ part \in {"manager", "start"}
    /\ Init /\ StartupInit
    /\ IF part = "start" THEN MainAtRest \/ ProgramAtRest ELSE MainAtRest /\ ProgramAtRest

MCNext ==
    /\ UNCHANGED part
    /\ \/ part = "manager" /\ Next /\ UNCHANGED startupVars
       \/ part = "start" /\ StartupNext /\ UNCHANGED vars

\* Fairness and StartupFairness, each for the behaviours of its part.
MCFairness ==
    /\ WF_vars(part = "manager" /\ IterStep)
    /\ SF_vars(part = "manager" /\ IterStart("NextState"))
    /\ SF_vars(part = "manager" /\ Refresh)
    /\ \A c \in Calls : SF_vars(part = "manager" /\ RegisterAdvances(c))
    /\ WF_startupVars(part = "start" /\ MainStep)
    /\ WF_startupVars(part = "start" /\ ProgStep)
    /\ \A r \in Resources : /\ WF_startupVars(part = "start" /\ Synced(r))
                            /\ WF_startupVars(part = "start" /\ MonitorRuns(r))

MCSpec == MCInit /\ [][MCNext]_allVars /\ MCFairness
=============================================================================
