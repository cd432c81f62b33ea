------------------------------ MODULE APlanner ------------------------------
(***************************************************************************)
(* CreatePlan of pkg/planner/astar/astar_planner.go: the state graph is    *)
(* grown with the follow-up states the actuators name, a shortcut is added *)
(* when the current state is already good enough, and A* looks for a path  *)
(* from the current to the desired state.                                  *)
(*                                                                         *)
(* States are compared as a whole (DeepEqual), by IsBetter with the goal   *)
(* and by their Distance to it: the set better and the function dist are   *)
(* any that Distance and IsBetter allow.  What the actuators answer is     *)
(* chosen step by step.  No candidate equals the desired state, which      *)
(* has no PODs of its own.                                                 *)
(***************************************************************************)
EXTENDS AStar

CONSTANTS
    Mid,            \* the node that is added for the shortcut
    Opportunistic,  \* opportunisticActionName
    Distances,      \* the values Distance can have
    MaxStates, MaxCandidates,
    OpportunisticCandidates,  \* a set of settings; a plan reads it only once
    Nobody

States == Nodes \ {Goal, Mid}
Actuators == Labels \ {Done, Opportunistic}

ASSUME PlannerAssumption ==
    /\ Mid \in Nodes \ {Start, Goal}
    /\ Opportunistic \in Labels /\ Opportunistic # Done
    /\ Nobody \notin Labels
    /\ Distances \subseteq Int
    /\ MaxStates \in Nat /\ MaxCandidates \in Nat
    /\ OpportunisticCandidates \subseteq Nat

VARIABLES
    better,     \* the states for which IsBetter(goal) holds
    dist,       \* their Distance to the goal
    pc,         \* "graph", "shortcut", "plan", "solve" or "done"
    nodes,      \* stateGraph.nodes
    queue,      \* the nodes whose follow-up states were not asked for yet
    node,       \* the node that was taken from it last
    toAsk,      \* the actuators Iter has not come to yet
    asked,      \* the actuator whose candidates are being added
    count,      \* how many of them were
    hasGoal,
    plan        \* CreatePlan's result

worldVars == <<better, dist>>
genVars == <<nodes, queue, node, toAsk, asked, count, hasGoal>>
plannerVars == <<worldVars, genVars, graphVars, searchVars, pc, plan>>

\* All objectives of the state are at least as good as the goal's.
IsBetter(s) == s \in better

\* Distance is negative for a state that is better, and the more so the closer
\* it is to the goal; it is 0 for the goal's own objectives.
DistanceFits(s) == IF IsBetter(s) THEN dist[s] <= 0 ELSE dist[s] >= 0

PlannerInit ==
    /\ better \in SUBSET States
    /\ dist \in [States -> Distances]
    /\ \A s \in States : DistanceFits(s)
    /\ pc = "graph"
    /\ nodes = {Start, Goal}
    /\ edges = <<>>
    /\ queue = <<Start>>
    /\ node = Start
    /\ toAsk = {} /\ asked = Nobody /\ count = 0
    /\ hasGoal = FALSE
    /\ plan = <<>>
    /\ SearchInit

-----------------------------------------------------------------------------
(* generateStateGraph. *)

addEdge(src, trg, utility, action) ==
    Append(edges, [src |-> src, trg |-> trg, utility |-> utility, action |-> action])

Answered == toAsk = {} /\ asked = Nobody

RoomForStates == Cardinality(nodes) < MaxStates

\* The head of the loop: take a node and iterate over the actuators.
TakeNode ==
    /\ pc = "graph" /\ Answered
    /\ queue # <<>> /\ RoomForStates
    /\ node' = Head(queue)
    /\ queue' = Tail(queue)
    /\ toAsk' = Actuators
    /\ UNCHANGED <<worldVars, nodes, asked, count, hasGoal, graphVars, searchVars, pc, plan>>

\* Iter comes to the next actuator, in any order, and asks for its NextState.
NextState(a) ==
    /\ pc = "graph" /\ asked = Nobody
    /\ a \in toAsk
    /\ toAsk' = toAsk \ {a}
    /\ asked' = a
    /\ count' = 0
    /\ UNCHANGED <<worldVars, nodes, queue, node, hasGoal, graphVars, searchVars, pc, plan>>

\* getNodeForState finds a node: an equal state is in the graph.
found(s) == s \in nodes

\* Mutant: every new node is connected with the goal.
LinkedIfNew(s) == ~found(s)

\* A new node that is good enough is connected with the goal.
Linked(s) == IsBetter(s) /\ ~found(s)

\* Mutant: the mark does not depend on the edge.
AddCandidateMarked(s, utility) ==
    /\ asked # Nobody
    /\ count < MaxCandidates
    /\ count' = count + 1
    /\ nodes' = nodes \cup {s}
    /\ queue' = IF found(s) THEN queue ELSE Append(queue, s)
    /\ edges' = addEdge(node, s, utility, asked) \o
                  (IF Linked(s)
                     THEN <<[src |-> s, trg |-> Goal, utility |-> 0, action |-> Done]>>
                     ELSE <<>>)
    /\ hasGoal' = (hasGoal \/ s \in better)
    /\ UNCHANGED <<worldVars, node, toAsk, asked, searchVars, pc, plan>>

\* Its next candidate is the state s.
AddCandidate(s, utility) ==
    /\ asked # Nobody
    /\ count < MaxCandidates
    /\ count' = count + 1
    /\ nodes' = nodes \cup {s}
    /\ queue' = IF found(s) THEN queue ELSE Append(queue, s)
    /\ edges' = addEdge(node, s, utility, asked) \o
                  (IF Linked(s)
                     THEN <<[src |-> s, trg |-> Goal, utility |-> 0, action |-> Done]>>
                     ELSE <<>>)
    /\ hasGoal' = (hasGoal \/ Linked(s))
    /\ UNCHANGED <<worldVars, node, toAsk, asked, searchVars, pc, plan>>

\* It has no further candidate, or has named as many as are wanted.
NoMoreCandidates ==
    /\ asked # Nobody
    /\ asked' = Nobody
    /\ UNCHANGED <<worldVars, nodes, queue, node, toAsk, count, hasGoal,
                   graphVars, searchVars, pc, plan>>

\* The loop ends.  If the current state is good enough, the shortest way to
\* the goal, by the number of edges, is looked for first.
GraphGrown ==
    /\ pc = "graph" /\ Answered
    /\ ~(queue # <<>> /\ RoomForStates)
    /\ IF IsBetter(Start) /\ edges # <<>>
         THEN pc' = "shortcut" /\ SolveStart(FALSE)
         ELSE pc' = "plan" /\ UNCHANGED searchVars
    /\ UNCHANGED <<worldVars, genVars, graphVars, plan>>

\* LessResources and the number of PODs decide whether the shortcut costs a
\* hundredth more.
ShortcutFactors == {Unit, Unit + 1}

\* It was found: staying where we are costs as much as that way is long, and
\* a little more if its last state needs fewer PODs or resources.
AddShortcut ==
    /\ pc = "shortcut" /\ spc = "found"
    /\ nodes' = nodes \cup {Mid}
    /\ \E factor \in ShortcutFactors :
         edges' = addEdge(Start, Mid, (Len(path) - 2) * factor, Done) \o
                    <<[src |-> Mid, trg |-> Goal, utility |-> 0, action |-> Done]>>
    /\ hasGoal' = TRUE
    /\ pc' = "plan"
    /\ spc' = "off"
    /\ UNCHANGED <<worldVars, queue, node, toAsk, asked, count, plan, useUtility,
                   open, gScore, data, current, todo, path, actions>>

NoShortcut ==
    /\ pc = "shortcut" /\ spc = "nil"
    /\ pc' = "plan"
    /\ spc' = "off"
    /\ UNCHANGED <<worldVars, genVars, graphVars, plan, useUtility,
                   open, gScore, data, current, todo, path, actions>>

-----------------------------------------------------------------------------
(* CreatePlan. *)

\* hEmpty for the shortcut, h for the plan; the node of the shortcut is a
\* copy of the current state.
h == [n \in Nodes |-> IF ~useUtility \/ n = Goal THEN 0
                      ELSE IF n = Mid THEN dist[Start] ELSE dist[n]]

PlanWithGoal ==
    /\ pc = "plan" /\ hasGoal
    /\ SolveStart(TRUE)
    /\ pc' = "solve"
    /\ UNCHANGED <<worldVars, genVars, graphVars, plan>>

\* The nodes addAdditionalStates pops from its heap when n are wanted: each
\* time one that none of those that are left is closer to the goal than.
Closest(n) ==
    LET inner == nodes \ {Start, Goal}
        k == IF n < Cardinality(inner) THEN n ELSE Cardinality(inner)
    IN  {c \in [1 .. k -> inner] :
           \A i \in 1 .. k : LET left == inner \ {c[j] : j \in 1 .. i-1} IN
             c[i] \in left /\ \A d \in left : dist[c[i]] <= dist[d]}

\* No state is good enough: the n closest ones are connected with the goal.
addAdditionalStates(n) ==
    /\ pc = "plan" /\ ~hasGoal /\ n > 0
    /\ \E c \in Closest(n) :
         edges' = edges \o [i \in DOMAIN c |->
                    [src |-> c[i], trg |-> Goal, utility |-> 0, action |-> Opportunistic]]
    /\ SolveStart(TRUE)
    /\ pc' = "solve"
    /\ UNCHANGED <<worldVars, genVars, plan>>

\* Opportunistic planning is switched off.
NoPlan ==
    /\ pc = "plan" /\ ~hasGoal
    /\ 0 \in OpportunisticCandidates
    /\ pc' = "done"
    /\ UNCHANGED <<worldVars, genVars, graphVars, searchVars, plan>>

\* The loop over the path's actions skips the ones that only connect.
finalPlan(items) ==
    LET appended[i \in 0 .. Len(items)] ==
          IF i = 0 THEN <<>>
          ELSE IF items[i] \in Actuators THEN Append(appended[i-1], items[i])
          ELSE appended[i-1]
    IN  appended[Len(items)]

FinishPlan ==
    /\ pc = "solve" /\ spc \in {"found", "nil"}
    /\ plan' = finalPlan(actions)
    /\ pc' = "done"
    /\ UNCHANGED <<worldVars, genVars, graphVars, searchVars>>

solve ==
    /\ SearchStep(h)
    /\ UNCHANGED <<worldVars, genVars, graphVars, pc, plan>>

\* CreatePlan has returned.
Returned == pc = "done" /\ UNCHANGED plannerVars

PlannerNext ==
    \/ TakeNode \/ (\E a \in Actuators : NextState(a)) \/ NoMoreCandidates
    \/ \E s \in States, u \in Utilities : AddCandidate(s, u)
    \/ GraphGrown \/ AddShortcut \/ NoShortcut
    \/ PlanWithGoal \/ NoPlan \/ FinishPlan
    \/ \E n \in OpportunisticCandidates : addAdditionalStates(n)
    \/ solve
    \/ Returned

PlannerSpec == PlannerInit /\ [][PlannerNext]_plannerVars

\* A sequential computation that is given the processor, with actuators that
\* answer.
PlannerFairSpec == PlannerSpec /\ WF_plannerVars(PlannerNext)

-----------------------------------------------------------------------------
(* Properties. *)

\* Every structure holds what it should, and what was scored has an entry.
PlannerTypeOK ==
    /\ better \subseteq States /\ dist \in [States -> Int]
    /\ pc \in {"graph", "shortcut", "plan", "solve", "done"}
    /\ {Start, Goal} \subseteq nodes /\ nodes \subseteq Nodes
    /\ queue \in Seq(States) /\ node \in States
    /\ toAsk \subseteq Actuators /\ asked \in Actuators \cup {Nobody}
    /\ count \in 0 .. MaxCandidates
    /\ hasGoal \in BOOLEAN /\ useUtility \in BOOLEAN
    /\ edges \in Seq(Edges)
    /\ spc \in {"off", "search", "trace", "found", "nil"}
    /\ open \in SUBSET (Nodes \X Int)
    /\ DOMAIN gScore \subseteq nodes
    /\ \A n \in DOMAIN gScore : gScore[n] \in Nat
    /\ DOMAIN data = DOMAIN gScore
    /\ \A n \in DOMAIN data : data[n] \in DataEntries
    /\ current \in nodes
    /\ todo \subseteq DOMAIN edges
    /\ path \in Seq(nodes) /\ actions \in Seq(Labels) /\ plan \in Seq(Actuators)

\* resolvePath comes back to the start: it never sees a node twice, although
\* the graph has cycles, of cost 0 too, and what it returns is a way through
\* the graph from the current to the desired state with its actions.
PathIsWay ==
    /\ \A i, j \in DOMAIN path : path[i] = path[j] => i = j
    /\ spc = "found" =>
         /\ path[1] = Start /\ path[Len(path)] = Goal
         /\ Len(actions) = Len(path) - 1
         /\ \A i \in DOMAIN actions : \E j \in DOMAIN edges :
              /\ edges[j].src = path[i] /\ edges[j].trg = path[i+1]
              /\ edges[j].action = actions[i]

\* solve fails only if there is no way at all, and a graph that is said to
\* have one has one.
NilOnlyIfNone ==
    /\ spc = "nil" => Goal \notin Reachable
    /\ pc \in {"plan", "solve", "done"} => (hasGoal => Goal \in Reachable)

\* Without a heuristic no way has fewer hops than the path that is found, which
\* is what the cost of the shortcut is computed from.
ShortcutIsPriced ==
    pc = "shortcut" /\ spc = "found" =>
      \A k \in 1 .. Len(path) - 2 : \A p \in [0 .. k -> Nodes] : ~IsWay(p, k)

\* If the graph has a state that is good enough, the plan leads to one; it is
\* empty only if the current state is good enough itself.
PlanReachesGoal ==
    pc = "done" /\ hasGoal =>
      /\ spc = "found"
      /\ path[Len(path) - 1] \in better \/ (path[Len(path) - 1] = Mid /\ Start \in better)
      /\ plan = <<>> => Start \in better

\* CreatePlan returns.
Terminates == <>(pc = "done")

\* docs/getting_started.md:149, opportunistic candidates are for the case that
\* "the desired state cannot be reached", and astar_planner.go:99, "if desired >
\* goal we also add a shortcut path": a workload whose current state is already
\* as desired is not moved to one that is merely close.
SatisfiedIsKept ==
    pc = "done" /\ Start \in better /\ plan # <<>> => path[Len(path) - 1] \in better

=============================================================================
