------------------------------- MODULE AStar -------------------------------
(***************************************************************************)
(* solve and resolvePath of pkg/planner/astar/astar.go, with the state     *)
(* graph and the priority queue they work on.                              *)
(*                                                                         *)
(* A node is named by the state it stands for.  The edges are one sequence *)
(* in the order of addEdge, so that the successors of a node come in the   *)
(* order in which they were added.  The heap holds pairs of a node and a   *)
(* priority; nodes of equal priority leave it in any order.  The numbers   *)
(* of the program are floats; here they are integers, in hundredths.       *)
(***************************************************************************)
EXTENDS Integers, Sequences, FiniteSets

CONSTANTS
    Nodes,      \* what a node of the graph can stand for
    Start,      \* the node of the current state
    Goal,       \* the node of the desired state
    Labels,     \* the names of actions
    Done,       \* ... emptyActionName: of the edges to the goal
    Utilities   \* the utilities an edge can have

ASSUME NodesAssumption == Start \in Nodes /\ Goal \in Nodes /\ Start # Goal
ASSUME LabelsAssumption == Done \in Labels
ASSUME UtilitiesAssumption == Utilities \subseteq Nat

VARIABLES
    edges,      \* stateGraph.successors: a sequence of edges
    useUtility, \* an edge costs its utility, otherwise 1
    spc,        \* where solve is: "off", "search", "trace", "found" or "nil"
    open,       \* the heap: pairs of a node and its priority
    gScore,     \* the cheapest cost so far of the nodes that were reached
    data,       \* how a reached node was reached: a dataEntry
    current,    \* the node that was popped
    todo,       \* its edges that are still to be looked at: indices of edges
    path,       \* resolvePath's result so far: nodes
    actions     \* ... and the actions between them

graphVars == <<edges>>
searchVars == <<spc, useUtility, open, gScore, data, current, todo, path, actions>>

Unit == 100

Edges == [src : Nodes, trg : Nodes, utility : Nat, action : Labels]
DataEntries == [node : Nodes, action : Labels, done : BOOLEAN]

successors(n) == {i \in DOMAIN edges : edges[i].src = n}

SearchInit ==
    /\ spc = "off"
    /\ useUtility = FALSE
    /\ open = {}
    /\ gScore = [n \in {} |-> 0]
    /\ data = [n \in {} |-> 0]
    /\ current = Start
    /\ todo = {}
    /\ path = <<>>
    /\ actions = <<>>

\* solve is called: the start is open at priority 0 and its entry is marked
\* (its node and action are never looked at).
SolveStart(withUtility) ==
    /\ spc' = "search"
    /\ useUtility' = withUtility
    /\ open' = {<<Start, 0>>}
    /\ gScore' = [n \in {Start} |-> 0]
    /\ data' = [n \in {Start} |-> [node |-> Start, action |-> Done, done |-> TRUE]]
    /\ current' = Start
    /\ todo' = {}
    /\ path' = <<>>
    /\ actions' = <<>>

\* heap.Pop: an item that none is smaller than.
MostUrgent == {i \in open : \A j \in open : i[2] <= j[2]}

\* Mutant: the item is looked at and left in the heap.
PopKeeps ==
    /\ spc = "search" /\ todo = {}
    /\ \E i \in MostUrgent :
         /\ current' = i[1]
         /\ IF i[1] = Goal
              THEN /\ spc' = "trace"
                   /\ path' = <<Goal>>
                   /\ UNCHANGED todo
              ELSE /\ todo' = successors(i[1])
                   /\ UNCHANGED <<spc, path>>
    /\ UNCHANGED <<useUtility, open, gScore, data, actions>>

\* The head of the loop, when the node before was done with: the goal ends the search, any other node is expanded.
Pop ==
    /\ spc = "search" /\ todo = {}
    /\ \E i \in MostUrgent :
         /\ open' = open \ {i}
         /\ current' = i[1]
         /\ IF i[1] = Goal
              THEN /\ spc' = "trace"
                   /\ path' = <<Goal>>
                   /\ UNCHANGED todo
              ELSE /\ todo' = successors(i[1])
                   /\ UNCHANGED <<spc, path>>
    /\ UNCHANGED <<useUtility, gScore, data, actions>>

\* Nothing is open any more: no path.
GiveUp ==
    /\ spc = "search" /\ todo = {}
    /\ open = {}
    /\ spc' = "nil"
    /\ UNCHANGED <<useUtility, open, gScore, data, current, todo, path, actions>>

cost(e) == IF useUtility THEN e.utility ELSE Unit

newGScore(e) == gScore[current] + cost(e)

\* Mutant: an equally cheap way replaces the one that is known.
ImprovesOrEquals(e) ==
    \/ e.trg \notin DOMAIN gScore
    \/ newGScore(e) <= gScore[e.trg]

\* Mutant: the comparison is the wrong way round.
ImprovesIfDearer(e) ==
    \/ e.trg \notin DOMAIN gScore
    \/ newGScore(e) > gScore[e.trg]

Improves(e) ==
    \/ e.trg \notin DOMAIN gScore
    \/ newGScore(e) < gScore[e.trg]

Stored(f, n, v) == [m \in DOMAIN f \cup {n} |-> IF m = n THEN v ELSE f[m]]

\* The next edge of the popped node; h is the heuristic solve was called with, a
\* function of the nodes.
Relax(h) ==
    /\ spc = "search"
    /\ \E i \in todo :
         /\ \A j \in todo : i <= j
         /\ todo' = todo \ {i}
         /\ LET e == edges[i] IN
              IF Improves(e)
                THEN /\ gScore' = Stored(gScore, e.trg, newGScore(e))
                     /\ data' = Stored(data, e.trg, [node |-> current,
                                                     action |-> e.action,
                                                     done |-> FALSE])
                     /\ open' = open \cup {<<e.trg, newGScore(e) + h[e.trg]>>}
                ELSE UNCHANGED <<gScore, data, open>>
    /\ UNCHANGED <<spc, useUtility, current, path, actions>>

\* A round of resolvePath: one step back, unless the entry is the start's.
resolvePath ==
    /\ spc = "trace"
    /\ LET entry == data[Head(path)] IN
         IF entry.done
           THEN spc' = "found" /\ UNCHANGED <<path, actions>>
           ELSE /\ path' = <<entry.node>> \o path
                /\ actions' = <<entry.action>> \o actions
                /\ UNCHANGED spc
    /\ UNCHANGED <<useUtility, open, gScore, data, current, todo>>

SearchStep(h) == Pop \/ GiveUp \/ Relax(h) \/ resolvePath

-----------------------------------------------------------------------------
(* Reference definitions. *)

\* The nodes the start has a way to: the least set that is closed under the
\* edges.
Closed(S) == \A i \in DOMAIN edges : edges[i].src \in S => edges[i].trg \in S
Reachable == {n \in Nodes : \A S \in SUBSET Nodes : Start \in S /\ Closed(S) => n \in S}

\* p leads from the start to the goal in k hops.
IsWay(p, k) ==
    /\ p[0] = Start /\ p[k] = Goal
    /\ \A i \in 1 .. k : \E j \in DOMAIN edges :
         edges[j].src = p[i-1] /\ edges[j].trg = p[i]

=============================================================================
