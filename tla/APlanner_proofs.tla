--------------------------- MODULE APlanner_proofs ---------------------------
(***************************************************************************)
(* Proofs about APlanner and AStar, for every graph, every heuristic, all  *)
(* utilities and all answers of the actuators: a path is a way through the *)
(* graph, no way is overlooked, the way the shortcut is priced by has the  *)
(* fewest hops, and a plan leads to a state that is good enough.           *)
(***************************************************************************)
EXTENDS APlanner, FiniteSetTheorems, WellFoundedInduction, TLAPS

-----------------------------------------------------------------------------
(* The inductive invariant: the search. *)

Reached == DOMAIN gScore

\* The tables of a search, and the node it is at.
TableInv ==
    /\ Reached \subseteq Nodes /\ DOMAIN data = Reached
    /\ \A n \in Reached : gScore[n] \in Nat /\ data[n] \in DataEntries
    /\ open \subseteq Reached \X Int
    /\ current \in Reached
    /\ todo \subseteq DOMAIN edges
    /\ \A i \in todo : edges[i].src = current

\* Only the start has no predecessor, and it keeps its score.
RootInv ==
    /\ Start \in Reached /\ gScore[Start] = 0
    /\ \A n \in Reached : data[n].done <=> n = Start

\* The predecessor of a node is the source of an edge to it, and the score pays
\* for that edge; the predecessor may have become cheaper since.
LinkedBy(n, j) ==
    /\ edges[j].src = data[n].node /\ edges[j].trg = n
    /\ edges[j].action = data[n].action
    /\ gScore[data[n].node] + cost(edges[j]) <= gScore[n]

LinkInv ==
    \A n \in Reached \ {Start} :
      /\ data[n].node \in Reached
      /\ \E j \in DOMAIN edges : LinkedBy(n, j)

\* The predecessors form no cycle: a set of nodes is left by one of them.
AcyclicInv ==
    \A S \in SUBSET Reached :
      S # {} => \E n \in S : n = Start \/ data[n].node \notin S

\* A reached node is open, or its edges were or will be looked at.
Expanded(n) ==
    \A j \in DOMAIN edges :
      edges[j].src = n => edges[j].trg \in Reached \/ (n = current /\ j \in todo)

FrontierInv ==
    /\ spc \in {"search", "nil"} =>
         \A n \in Reached : (\E i \in open : i[1] = n) \/ (n # Goal /\ Expanded(n))
    /\ spc = "nil" => open = {} /\ todo = {}

\* What resolvePath has so far follows the predecessors back from the goal.
TraceInv ==
    /\ spc = "search" => actions = <<>>
    /\ spc \in {"trace", "found"} =>
         /\ path \in Seq(Reached) /\ path # <<>> /\ path[Len(path)] = Goal
         /\ actions \in Seq(Labels) /\ Len(actions) = Len(path) - 1
         /\ \A i \in 1 .. Len(actions) :
              /\ path[i+1] # Start
              /\ data[path[i+1]].node = path[i]
              /\ data[path[i+1]].action = actions[i]
    /\ spc = "found" => path[1] = Start

SearchInv ==
    spc # "off" =>
      TableInv /\ RootInv /\ LinkInv /\ AcyclicInv /\ FrontierInv /\ TraceInv

-----------------------------------------------------------------------------
(* The inductive invariant: the search without a heuristic. *)

\* A reached node is open with its score, or every edge of it that was looked
\* at has passed its score on.
PassedOn(n) ==
    \A j \in DOMAIN edges :
      edges[j].src = n =>
        \/ edges[j].trg \in Reached /\ gScore[edges[j].trg] <= gScore[n] + Unit
        \/ n = current /\ j \in todo

NoWayIsCheaper ==
    \A k \in Nat \ {0} : \A p \in [0 .. k -> Nodes] :
      IsWay(p, k) => gScore[Goal] <= k * Unit

HopsInv ==
    ~useUtility /\ spc # "off" =>
      /\ \A i \in open : gScore[i[1]] <= i[2]
      /\ spc = "search" =>
           \A n \in Reached : <<n, gScore[n]>> \in open \/ (n # Goal /\ PassedOn(n))
      /\ spc \in {"trace", "found"} =>
           /\ gScore[path[1]] + (Len(path) - 1) * Unit <= gScore[Goal]
           /\ NoWayIsCheaper

-----------------------------------------------------------------------------
(* The inductive invariant: the graph. *)

GraphInv ==
    /\ better \subseteq States /\ dist \in [States -> Int]
    /\ edges \in Seq(Edges)
    /\ nodes \subseteq Nodes /\ IsFiniteSet(nodes) /\ Start \in nodes
    /\ queue \in Seq(States \cap nodes) /\ node \in States \cap nodes
    /\ asked \in Actuators \cup {Nobody}
    /\ hasGoal \in BOOLEAN /\ useUtility \in BOOLEAN

\* Where CreatePlan is.
PhaseInv ==
    /\ pc \in {"graph", "shortcut", "plan", "solve", "done"}
    /\ spc \in {"off", "search", "trace", "found", "nil"}
    /\ pc \in {"graph", "plan"} => spc = "off"
    /\ pc # "graph" => toAsk = {} /\ asked = Nobody
    /\ pc = "shortcut" => spc # "off" /\ ~useUtility /\ Start \in better
    /\ pc = "solve" => spc # "off"
    /\ pc = "done" /\ hasGoal => spc \in {"found", "nil"}

\* Every node but the goal can be reached, and the goal if hasGoal says so.
ReachInv ==
    /\ nodes \ {Goal} \subseteq Reachable
    /\ hasGoal => Goal \in Reachable

\* Who is connected with the goal, and by which edges nothing is done.
EdgeFits(e) ==
    /\ e.trg = Goal => \/ e.src \in better
                       \/ e.src = Mid /\ Start \in better
                       \/ ~hasGoal /\ pc \in {"solve", "done"}
    /\ \/ e.action \in Actuators
       \/ e.trg = Goal
       \/ e.trg = Mid /\ Start \in better

EdgeInv == \A j \in DOMAIN edges : EdgeFits(edges[j])

\* resolvePath has seen no node twice.
Injective == path \in Seq(Nodes) /\ \A i, j \in DOMAIN path : path[i] = path[j] => i = j

PlanInv ==
    pc = "done" /\ hasGoal /\ plan = <<>> => Start \in better

IInv ==
    /\ GraphInv /\ PhaseInv /\ ReachInv /\ EdgeInv
    /\ SearchInv /\ HopsInv
    /\ Injective /\ PlanInv

USE NodesAssumption, LabelsAssumption, UtilitiesAssumption, PlannerAssumption

-----------------------------------------------------------------------------
(* Natural numbers: a set that is not empty has a least element, as the      *)
(* intervals below its elements are ordered by inclusion.                    *)

LEMMA Least ==
  ASSUME NEW S \in SUBSET Nat, S # {}
  PROVE  \E n \in S : \A m \in S : n <= m
<1>1. PICK n \in S : TRUE
  OBVIOUS
<1> DEFINE R == StrictSubsetOrdering(0 .. n)
           T == {0 .. m : m \in {k \in S : k <= n}}
<1>2. IsWellFoundedOn(R, SUBSET (0 .. n))
  <2>0. 0 \in Int /\ n \in Int
    OBVIOUS
  <2>1. IsFiniteSet(0 .. n)
    BY <2>0, FS_Interval, ZenonT(30)
  <2>2. IsWellFoundedOn(R, FiniteSubsetsOf(0 .. n))
    BY FS_StrictSubsetOrderingWellFounded
  <2>3. FiniteSubsetsOf(0 .. n) = SUBSET (0 .. n)
    BY <2>1, FS_FiniteSubsetsOfFinite
  <2> QED
    BY <2>2, <2>3
<1>3. T \subseteq SUBSET (0 .. n) /\ T # {}
  OBVIOUS
<1>4. PICK x \in T : \A y \in T : ~(<<y, x>> \in R)
  <2> HIDE DEF R, T
  <2> QED
    BY <1>2, <1>3, WFMin
<1>5. PICK m \in S : m <= n /\ x = 0 .. m
  OBVIOUS
<1>6. ASSUME NEW k \in S, k < m PROVE FALSE
  <2>1. 0 .. k \in T
    BY <1>5, <1>6
  <2>2. 0 .. k \subseteq 0 .. m /\ 0 .. k # 0 .. m
    <3>1. m \in 0 .. m /\ m \notin 0 .. k
      BY <1>6
    <3> QED
      BY <1>6, <3>1
  <2>3. <<0 .. k, x>> \in R
    BY <1>5, <1>6, <2>2 DEF StrictSubsetOrdering
  <2> QED
    BY <1>4, <2>1, <2>3
<1> QED
  BY <1>5, <1>6

\* Induction up to a bound, as a fact about sets.
LEMMA UpTo ==
  ASSUME NEW n \in Nat, NEW S, 0 \in S,
         \A i \in 1 .. n : i - 1 \in S => i \in S
  PROVE  \A i \in 0 .. n : i \in S
<1> SUFFICES ASSUME NEW b \in 0 .. n, b \notin S PROVE FALSE
  OBVIOUS
<1> DEFINE B == {i \in 0 .. n : i \notin S}
<1>1. PICK m \in B : \A i \in B : m <= i
  <2>1. B \in SUBSET Nat /\ B # {}
    OBVIOUS
  <2> HIDE DEF B
  <2> QED
    BY <2>1, Least
<1>2. m # 0 /\ m \in 1 .. n
  BY <1>1
<1>3. m - 1 \in S
  BY <1>1, <1>2
<1> QED
  BY <1>1, <1>2, <1>3

-----------------------------------------------------------------------------
(* The loop of CreatePlan drops no action of an actuator. *)

LEMMA FinalPlanKeeps ==
  ASSUME NEW items \in Seq(Labels), items # <<>>, items[1] \in Actuators
  PROVE  finalPlan(items) # <<>>
<1> DEFINE N == Len(items)
           Step(x, i) == IF items[i] \in Actuators THEN Append(x, items[i]) ELSE x
           Body(f) == [i \in 0 .. N |-> IF i = 0 THEN <<>> ELSE Step(f[i-1], i)]
           Upto(f, n) == f[0] = <<>> /\ \A i \in 1 .. n : f[i] = Step(f[i-1], i)
           S == {n \in 0 .. N : \E f : Upto(f, n)}
           F == CHOOSE f : f = Body(f)
<1>1. N \in Nat /\ N >= 1
  OBVIOUS
<1>2. finalPlan(items) = F[N]
  BY DEF finalPlan
<1> HIDE DEF Step, N
<1>3. 0 \in S
  <2>1. Upto([i \in 0 .. 0 |-> <<>>], 0)
    OBVIOUS
  <2>2. 0 \in 0 .. N
    BY <1>1
  <2> QED
    BY <2>1, <2>2
<1>4. ASSUME NEW i \in 1 .. N, i - 1 \in S PROVE i \in S
  <2>1. PICK f : Upto(f, i - 1)
    BY <1>4
  <2> DEFINE g == [j \in 0 .. i |-> IF j = i THEN Step(f[i-1], i) ELSE f[j]]
  <2>2. g[0] = <<>>
    BY <2>1, <1>1
  <2>3. ASSUME NEW j \in 1 .. i PROVE g[j] = Step(g[j-1], j)
    <3>1. g[j-1] = f[j-1]
      BY <1>1
    <3>2. CASE j = i
      BY <3>1, <3>2
    <3>3. CASE j # i
      <4>1. j \in 1 .. (i - 1) /\ g[j] = f[j]
        BY <1>1, <3>3
      <4> QED
        BY <2>1, <3>1, <4>1
    <3> QED
      BY <3>2, <3>3
  <2> HIDE DEF g
  <2>4. Upto(g, i) /\ i \in 0 .. N
    BY <1>1, <2>2, <2>3
  <2> QED
    BY <2>4
<1>5. \E f : f = Body(f)
  <2>1. \A i \in 0 .. N : i \in S
    <3> HIDE DEF S
    <3> QED
      BY <1>1, <1>3, <1>4, UpTo
  <2>2. PICK f : Upto(f, N)
    <3>1. N \in 0 .. N
      BY <1>1
    <3>2. N \in S
      BY <2>1, <3>1
    <3> HIDE DEF Upto
    <3> QED
      BY <3>2
  <2> DEFINE g == [i \in 0 .. N |-> f[i]]
  <2>3. ASSUME NEW i \in 0 .. N
        PROVE  g[i] = IF i = 0 THEN <<>> ELSE Step(g[i-1], i)
    <3>1. CASE i = 0
      BY <2>2, <3>1
    <3>2. CASE i # 0
      <4>1. i \in 1 .. N /\ i - 1 \in 0 .. N
        BY <1>1, <3>2
      <4>2. g[i] = f[i] /\ g[i-1] = f[i-1]
        BY <4>1
      <4> QED
        BY <2>2, <3>2, <4>1, <4>2
    <3> QED
      BY <3>1, <3>2
  <2>4. g = Body(g)
    BY <2>3
  <2> QED
    BY <2>4
<1>6. F = Body(F)
  <2> HIDE DEF Body
  <2> QED
    BY <1>5
<1> HIDE DEF F
<1>7. F[0] = <<>>
  <2>1. 0 \in 0 .. N
    BY <1>1
  <2> QED
    BY <1>6, <2>1
<1>8. ASSUME NEW i \in 1 .. N PROVE F[i] = Step(F[i-1], i)
  <2>1. i \in 0 .. N /\ i # 0
    BY <1>1
  <2> QED
    BY <1>6, <2>1
<1> DEFINE Full == {i \in 0 .. N : F[i] \in Seq(Labels) /\ (i > 0 => F[i] # <<>>)}
<1>9. 0 \in Full
  <2>1. <<>> \in Seq(Labels)
    OBVIOUS
  <2>2. 0 \in 0 .. N /\ ~(0 > 0)
    BY <1>1
  <2> QED
    BY <1>7, <2>1, <2>2, Zenon
<1>10. ASSUME NEW i \in 1 .. N, i - 1 \in Full PROVE i \in Full
  <2>1. F[i-1] \in Seq(Labels) /\ items[i] \in Labels
    BY <1>1, <1>10 DEF N
  <2>2. CASE items[i] \in Actuators
    <3>1. F[i] = Append(F[i-1], items[i])
      BY <1>8, <2>2 DEF Step
    <3>2. PICK x \in Seq(Labels) : x = F[i-1]
      BY <2>1
    <3>3. Append(x, items[i]) \in Seq(Labels) /\ Append(x, items[i]) # <<>>
      BY <2>1
    <3>4. i \in 0 .. N
      BY <1>1
    <3> QED
      BY <3>1, <3>2, <3>3, <3>4, Zenon
  <2>3. CASE items[i] \notin Actuators
    <3>1. F[i] = F[i-1] /\ i # 1
      BY <1>8, <2>3 DEF Step
    <3> QED
      BY <1>1, <1>10, <3>1
  <2> QED
    BY <2>2, <2>3
<1>11. N \in Full
  <2> HIDE DEF Full
  <2>1. \A i \in 0 .. N : i \in Full
    BY <1>1, <1>9, <1>10, UpTo
  <2> QED
    BY <1>1, <2>1
<1> QED
  BY <1>1, <1>2, <1>11

-----------------------------------------------------------------------------
(* The nodes the start has a way to. *)

LEMMA ReachEdge ==
  ASSUME edges \in Seq(Edges), NEW j \in DOMAIN edges, edges[j].src \in Reachable
  PROVE  edges[j].trg \in Reachable
<1>1. edges[j] \in Edges
  OBVIOUS
<1>2. edges[j].trg \in Nodes
  BY <1>1 DEF Edges
<1> QED
  BY <1>2 DEF Reachable, Closed

LEMMA ReachGrows ==
  ASSUME DOMAIN edges \subseteq DOMAIN edges',
         \A j \in DOMAIN edges : edges'[j] = edges[j]
  PROVE  Reachable \subseteq Reachable'
<1>1. \A S \in SUBSET Nodes : Closed(S)' => Closed(S)
  BY DEF Closed
<1> QED
  BY <1>1 DEF Reachable

LEMMA ReachStart == Start \in Reachable
BY DEF Reachable

-----------------------------------------------------------------------------
(* The steps of a search. *)

SolveInv == SearchInv /\ HopsInv /\ Injective

LEMMA EdgeType ==
  ASSUME edges \in Seq(Edges), NEW j \in DOMAIN edges
  PROVE  /\ edges[j].src \in Nodes /\ edges[j].trg \in Nodes /\ edges[j].action \in Labels
         /\ cost(edges[j]) \in Nat /\ (~useUtility => cost(edges[j]) = Unit)
<1>1. edges[j] \in Edges
  OBVIOUS
<1>2. edges[j].utility \in Nat
  BY <1>1 DEF Edges
<1>3. cost(edges[j]) \in Nat /\ (~useUtility => cost(edges[j]) = Unit)
  BY <1>2 DEF cost, Unit
<1> QED
  BY <1>1, <1>3 DEF Edges

LEMMA HeuristicType ==
  ASSUME GraphInv
  PROVE  h \in [Nodes -> Int] /\ (~useUtility => \A n \in Nodes : h[n] = 0)
BY DEF GraphInv, h, States

LEMMA SolveStartInv ==
  ASSUME NEW b \in BOOLEAN, SolveStart(b)
  PROVE  SolveInv'
<1>1. /\ spc' = "search" /\ open' = {<<Start, 0>>} /\ current' = Start /\ todo' = {}
      /\ path' = <<>> /\ actions' = <<>>
  BY DEF SolveStart
<1>2. /\ DOMAIN gScore' = {Start} /\ gScore'[Start] = 0 /\ DOMAIN data' = {Start}
      /\ data'[Start] = [node |-> Start, action |-> Done, done |-> TRUE]
  BY DEF SolveStart
<1>3. TableInv' /\ RootInv' /\ LinkInv'
  <2>1. data'[Start] \in DataEntries
    BY <1>2 DEF DataEntries
  <2>2. Reached' = {Start} /\ open' \subseteq Reached' \X Int
    BY <1>1, <1>2 DEF Reached
  <2>3. \A n \in Reached' : gScore'[n] \in Nat /\ data'[n] \in DataEntries
    <3>1. gScore'[Start] \in Nat
      BY <1>2
    <3> QED
      BY <2>1, <2>2, <3>1, Zenon
  <2>5. TableInv'
    BY <1>1, <1>2, <2>2, <2>3 DEF TableInv
  <2>4. RootInv' /\ LinkInv'
    BY <1>2 DEF RootInv, LinkInv, Reached
  <2> QED
    BY <2>4, <2>5
<1>4. AcyclicInv'
  BY <1>2 DEF AcyclicInv, Reached
<1>5. FrontierInv' /\ TraceInv'
  BY <1>1, <1>2 DEF FrontierInv, TraceInv, Reached
<1>6. HopsInv' /\ Injective'
  BY <1>1, <1>2 DEF HopsInv, Injective, Reached
<1> QED
  BY <1>3, <1>4, <1>5, <1>6 DEF SolveInv, SearchInv

LEMMA GiveUpInv ==
  ASSUME SolveInv, GiveUp, UNCHANGED <<edges>>
  PROVE  SolveInv'
<1>1. /\ spc = "search" /\ spc' = "nil" /\ open = {} /\ todo = {}
      /\ UNCHANGED <<edges, useUtility, open, gScore, data, current, todo, path, actions>>
  BY DEF GiveUp
<1>2. TableInv' /\ RootInv' /\ LinkInv' /\ AcyclicInv'
  BY <1>1 DEF SolveInv, SearchInv, TableInv, RootInv, LinkInv, AcyclicInv, Reached, LinkedBy, cost
<1>3. FrontierInv' /\ TraceInv'
  BY <1>1 DEF SolveInv, SearchInv, FrontierInv, TraceInv, Expanded, Reached
<1>4. HopsInv' /\ Injective'
  BY <1>1 DEF SolveInv, HopsInv, Injective
<1> QED
  BY <1>2, <1>3, <1>4 DEF SolveInv, SearchInv

LEMMA WaysStay ==
  ASSUME NoWayIsCheaper, UNCHANGED <<edges, gScore>>
  PROVE  NoWayIsCheaper'
BY DEF NoWayIsCheaper, IsWay

\* A round of resolvePath.
LEMMA TraceStep ==
  ASSUME SolveInv, resolvePath, UNCHANGED <<edges>>
  PROVE  SolveInv'
<1>1. /\ spc = "trace"
      /\ UNCHANGED <<edges, useUtility, open, gScore, data, current, todo>>
  BY DEF resolvePath
<1>2. TableInv /\ RootInv /\ LinkInv /\ AcyclicInv /\ TraceInv
  BY <1>1 DEF SolveInv, SearchInv
<1>3. /\ path \in Seq(Reached) /\ path # <<>> /\ path[Len(path)] = Goal
      /\ actions \in Seq(Labels) /\ Len(actions) = Len(path) - 1
  BY <1>1, <1>2 DEF TraceInv
<1>4. TableInv' /\ RootInv' /\ LinkInv' /\ AcyclicInv'
  BY <1>1, <1>2 DEF TableInv, RootInv, LinkInv, AcyclicInv, Reached, LinkedBy, cost
<1>5. PICK n \in Reached : n = Head(path) /\ n = path[1]
  BY <1>3
<1>6. CASE n = Start
  <2>1. spc' = "found" /\ UNCHANGED <<path, actions>>
    BY <1>2, <1>5, <1>6 DEF resolvePath, RootInv
  <2>2. FrontierInv'
    BY <2>1 DEF FrontierInv
  <2>3. TraceInv'
    BY <1>1, <1>2, <1>5, <1>6, <2>1 DEF TraceInv, Reached
  <2>4. HopsInv' /\ Injective'
    BY <1>1, <2>1, WaysStay DEF SolveInv, HopsInv, Injective
  <2> QED
    BY <1>4, <2>2, <2>3, <2>4 DEF SolveInv, SearchInv
<1>7. CASE n # Start
  <2>1. PICK u \in Reached, a \in Labels : u = data[n].node /\ a = data[n].action
    BY <1>2, <1>7 DEF LinkInv, TableInv, DataEntries
  <2>2. /\ spc' = "trace" /\ path' = <<u>> \o path /\ actions' = <<a>> \o actions
    BY <1>1, <1>2, <1>5, <1>7, <2>1 DEF resolvePath, RootInv
  <2>3. /\ path' \in Seq(Reached) /\ Len(path') = Len(path) + 1 /\ path' # <<>>
        /\ path'[1] = u /\ \A i \in 1 .. Len(path) : path'[i+1] = path[i]
    BY <1>3, <2>2
  <2>4. /\ actions' \in Seq(Labels) /\ Len(actions') = Len(actions) + 1
        /\ actions'[1] = a /\ \A i \in 1 .. Len(actions) : actions'[i+1] = actions[i]
    BY <1>3, <2>2
  <2>5. path'[Len(path')] = Goal
    BY <1>3, <2>3
  <2>6. ASSUME NEW i \in 1 .. Len(actions')
        PROVE  /\ path'[i+1] # Start
               /\ data[path'[i+1]].node = path'[i]
               /\ data[path'[i+1]].action = actions'[i]
    <3>1. CASE i = 1
      <4>1. path'[2] = n
        BY <1>3, <1>5, <2>3
      <4> QED
        BY <1>7, <2>1, <2>3, <2>4, <3>1, <4>1
    <3>2. CASE i # 1
      <4>1. PICK k \in 1 .. Len(actions) : i = k + 1
        BY <1>3, <2>4, <3>2
      <4>2. path'[i] = path[k] /\ path'[i+1] = path[k+1] /\ actions'[i] = actions[k]
        BY <1>3, <2>3, <2>4, <4>1
      <4> QED
        BY <1>1, <1>2, <4>1, <4>2 DEF TraceInv
    <3> QED
      BY <3>1, <3>2
  <2>7. FrontierInv' /\ TraceInv'
    <3>1. Len(actions') = Len(path') - 1
      BY <1>3, <2>3, <2>4
    <3>2. \A i \in 1 .. Len(actions') :
            /\ path'[i+1] # Start
            /\ data'[path'[i+1]].node = path'[i]
            /\ data'[path'[i+1]].action = actions'[i]
      BY <1>1, <2>6
    <3>3. path' \in Seq(Reached')
      BY <1>1, <2>3 DEF Reached
    <3> QED
      BY <2>2, <2>3, <2>4, <2>5, <3>1, <3>2, <3>3 DEF FrontierInv, TraceInv
  \* A node that comes twice would be on a cycle of predecessors.
  <2>8. Injective'
    <3>1. path' \in Seq(Nodes)
      BY <1>2, <2>3 DEF TableInv
    <3>2. ASSUME NEW i \in DOMAIN path', NEW j \in DOMAIN path', i < j, path'[i] = path'[j]
          PROVE  FALSE
      <4> DEFINE S == {path'[k] : k \in (i+1) .. j}
      <4>1. S \in SUBSET Reached /\ S # {}
        BY <2>3, <3>2
      <4>2. ASSUME NEW m \in S PROVE m # Start /\ data[m].node \in S
        <5>1. PICK k \in (i+1) .. j : m = path'[k]
          OBVIOUS
        <5>2. k - 1 \in 1 .. Len(actions') /\ k - 1 + 1 = k
          BY <1>3, <2>3, <2>4, <3>2
        <5>3. m # Start /\ data[m].node = path'[k-1]
          BY <2>6, <5>1, <5>2
        <5>4. CASE k = i + 1
          <6>1. path'[k-1] = path'[j] /\ j \in (i+1) .. j
            BY <2>3, <3>2, <5>4
          <6> QED
            BY <5>3, <6>1
        <5>5. CASE k # i + 1
          <6>1. k - 1 \in (i+1) .. j
            BY <2>3, <3>2, <5>5
          <6> QED
            BY <5>3, <6>1
        <5> QED
          BY <5>4, <5>5
      <4> HIDE DEF S
      <4> QED
        BY <1>2, <4>1, <4>2 DEF AcyclicInv
    <3>3. \A i, j \in DOMAIN path' : i < j \/ j < i \/ i = j
      BY <2>3
    <3> QED
      BY <3>1, <3>2, <3>3 DEF Injective
  <2>9. HopsInv'
    <3> SUFFICES ASSUME ~useUtility PROVE HopsInv'
      BY <1>1 DEF HopsInv
    <3>1. /\ gScore[n] + (Len(path) - 1) * Unit <= gScore[Goal]
          /\ \A i \in open : gScore[i[1]] <= i[2]
          /\ NoWayIsCheaper
      BY <1>1, <1>5 DEF SolveInv, HopsInv
    <3>2. PICK j \in DOMAIN edges : LinkedBy(n, j)
      BY <1>2, <1>7 DEF LinkInv
    <3>3. gScore[u] + Unit <= gScore[n]
      BY <2>1, <3>2 DEF LinkedBy, cost
    <3>4. gScore[u] \in Nat /\ gScore[n] \in Nat /\ gScore[Goal] \in Nat
      BY <1>2, <1>3 DEF TableInv
    <3>5. gScore[u] + (Len(path') - 1) * Unit <= gScore[Goal]
      BY <1>3, <2>3, <3>1, <3>3, <3>4 DEF Unit
    <3>6. NoWayIsCheaper'
      BY <1>1, <3>1, WaysStay
    <3>7. /\ gScore'[path'[1]] + (Len(path') - 1) * Unit <= gScore'[Goal]
          /\ \A i \in open' : gScore'[i[1]] <= i[2]
      BY <1>1, <2>3, <3>1, <3>5
    <3> QED
      BY <2>2, <3>6, <3>7 DEF HopsInv
  <2> QED
    BY <1>4, <2>7, <2>8, <2>9 DEF SolveInv, SearchInv
<1> QED
  BY <1>6, <1>7

\* When the goal is the most urgent node, every way to it has been paid for: the
\* nodes of a cheaper one would all have been popped before.
LEMMA GoalIsCheapest ==
  ASSUME edges \in Seq(Edges), SolveInv, spc = "search", todo = {}, ~useUtility,
         NEW i \in MostUrgent, i[1] = Goal
  PROVE  NoWayIsCheaper
<1>1. TableInv /\ RootInv
  BY DEF SolveInv, SearchInv
<1>2. /\ \A e \in open : gScore[e[1]] <= e[2]
      /\ \A n \in Reached : <<n, gScore[n]>> \in open \/ (n # Goal /\ PassedOn(n))
  BY DEF SolveInv, HopsInv
<1>3. i \in open /\ \A e \in open : i[2] <= e[2]
  BY DEF MostUrgent
<1>4. gScore[Goal] \in Nat /\ i[2] \in Int /\ gScore[Goal] <= i[2]
  BY <1>1, <1>2, <1>3 DEF TableInv
<1> SUFFICES ASSUME NEW k \in Nat \ {0}, NEW p \in [0 .. k -> Nodes], IsWay(p, k),
                    ~(gScore[Goal] <= k * Unit)
             PROVE  FALSE
  BY DEF NoWayIsCheaper
<1> DEFINE S == {x \in 0 .. k : p[x] \in Reached /\ gScore[p[x]] <= x * Unit}
<1>5. 0 \in S
  BY <1>1 DEF IsWay, RootInv, Unit
<1>6. ASSUME NEW x \in 1 .. k, x - 1 \in S PROVE x \in S
  <2>1. PICK n \in Reached : n = p[x-1] /\ gScore[n] <= (x - 1) * Unit
    BY <1>6
  <2>2. gScore[n] \in Nat
    BY <1>1 DEF TableInv
  <2>3. ~(i[2] <= gScore[n])
    BY <1>4, <2>1, <2>2 DEF Unit
  <2>4. <<n, gScore[n]>> \notin open
    BY <1>3, <2>3
  <2>5. PICK j \in DOMAIN edges : edges[j].src = n /\ edges[j].trg = p[x]
    BY <2>1 DEF IsWay
  <2>6. p[x] \in Reached /\ gScore[p[x]] <= gScore[n] + Unit
    BY <1>2, <2>4, <2>5 DEF PassedOn
  <2>7. gScore[p[x]] \in Nat
    BY <1>1, <2>6 DEF TableInv
  <2>8. gScore[p[x]] <= x * Unit
    BY <2>1, <2>2, <2>6, <2>7, SMTT(30) DEF Unit
  <2> QED
    BY <2>6, <2>8
<1>7. k \in S
  <2> HIDE DEF S
  <2>1. k \in Nat /\ k \in 0 .. k
    OBVIOUS
  <2>2. \A x \in 0 .. k : x \in S
    BY <1>5, <1>6, <2>1, UpTo
  <2> QED
    BY <2>1, <2>2
<1> QED
  BY <1>7 DEF IsWay

LEMMA PopInv ==
  ASSUME edges \in Seq(Edges), SolveInv, Pop, UNCHANGED <<edges>>
  PROVE  SolveInv'
<1>1. PICK i \in MostUrgent :
        /\ open' = open \ {i} /\ current' = i[1]
        /\ IF i[1] = Goal
             THEN spc' = "trace" /\ path' = <<Goal>> /\ UNCHANGED todo
             ELSE todo' = successors(i[1]) /\ UNCHANGED <<spc, path>>
  BY DEF Pop
<1>2. /\ spc = "search" /\ todo = {} /\ UNCHANGED <<edges, useUtility, gScore, data, actions>>
  BY DEF Pop
<1>3. TableInv /\ RootInv /\ LinkInv /\ AcyclicInv /\ FrontierInv /\ TraceInv
  BY <1>2 DEF SolveInv, SearchInv
<1>4. PICK n \in Reached : n = i[1] /\ i \in open
  BY <1>3 DEF MostUrgent, TableInv
<1>5. Reached' = Reached /\ RootInv' /\ LinkInv' /\ AcyclicInv'
  BY <1>2, <1>3 DEF RootInv, LinkInv, AcyclicInv, Reached, LinkedBy, cost
<1>6. TableInv'
  <2>1. todo' \subseteq DOMAIN edges /\ \A j \in todo' : edges[j].src = n
    BY <1>1, <1>2, <1>4 DEF successors
  <2> QED
    BY <1>1, <1>2, <1>3, <1>4, <1>5, <2>1 DEF TableInv
<1>7. CASE n = Goal
  <2>1. spc' = "trace" /\ path' = <<Goal>> /\ actions' = <<>>
    BY <1>1, <1>2, <1>3, <1>4, <1>7 DEF TraceInv
  <2>2. path' \in Seq(Reached) /\ Len(path') = 1 /\ path'[1] = Goal /\ path' # <<>>
        /\ path' \in Seq(Nodes)
    BY <1>4, <1>7, <2>1
  <2>3. FrontierInv'
    BY <2>1 DEF FrontierInv
  <2>4. actions' \in Seq(Labels) /\ Len(actions') = 0
    BY <2>1
  <2>5. TraceInv'
    BY <1>5, <2>1, <2>2, <2>4 DEF TraceInv
  <2>6. Injective'
    BY <2>2 DEF Injective
  <2>7. HopsInv'
    <3> SUFFICES ASSUME ~useUtility PROVE HopsInv'
      BY <1>2 DEF HopsInv
    <3>1. NoWayIsCheaper'
      BY <1>2, <1>4, <1>7, GoalIsCheapest, WaysStay
    <3>2. \A e \in open' : gScore'[e[1]] <= e[2]
      BY <1>1, <1>2 DEF SolveInv, HopsInv
    <3>3. gScore'[path'[1]] + (Len(path') - 1) * Unit <= gScore'[Goal]
      <4>1. gScore[Goal] \in Nat
        BY <1>3, <1>4, <1>7 DEF TableInv
      <4> QED
        BY <1>2, <2>2, <4>1 DEF Unit
    <3> QED
      BY <2>1, <3>1, <3>2, <3>3 DEF HopsInv
  <2> QED
    BY <1>5, <1>6, <2>3, <2>5, <2>6, <2>7 DEF SolveInv, SearchInv
<1>8. CASE n # Goal
  <2>1. todo' = successors(n) /\ spc' = "search" /\ path' = path
    BY <1>1, <1>2, <1>4, <1>8
  <2>2. \A j \in DOMAIN edges : edges[j].src = n => j \in todo'
    BY <2>1 DEF successors
  <2>3. \A e \in open : e[1] # n => e \in open'
    BY <1>1, <1>4
  <2>4. ASSUME NEW m \in Reached PROVE (\E e \in open' : e[1] = m) \/ (m # Goal /\ Expanded(m)')
    <3>1. CASE m = n
      BY <1>1, <1>2, <1>4, <1>8, <2>2, <3>1 DEF Expanded
    <3>2. CASE m # n
      <4>1. (\E e \in open : e[1] = m) \/ (m # Goal /\ Expanded(m))
        BY <1>2, <1>3 DEF FrontierInv
      <4>2. Expanded(m) => Expanded(m)'
        BY <1>2, <1>5 DEF Expanded
      <4> QED
        BY <2>3, <3>2, <4>1, <4>2
    <3> QED
      BY <3>1, <3>2
  <2>5. FrontierInv' /\ TraceInv'
    BY <1>2, <1>3, <1>5, <2>1, <2>4 DEF FrontierInv, TraceInv
  <2>6. HopsInv'
    <3> SUFFICES ASSUME ~useUtility PROVE HopsInv'
      BY <1>2 DEF HopsInv
    <3>1. \A e \in open' : gScore'[e[1]] <= e[2]
      BY <1>1, <1>2 DEF SolveInv, HopsInv
    <3>2. ASSUME NEW m \in Reached
          PROVE  <<m, gScore[m]>> \in open' \/ (m # Goal /\ PassedOn(m)')
      <4>1. CASE m = n
        BY <1>1, <1>2, <1>4, <1>8, <2>2, <4>1 DEF PassedOn
      <4>2. CASE m # n
        <5>1. <<m, gScore[m]>> \in open \/ (m # Goal /\ PassedOn(m))
          BY <1>2 DEF SolveInv, HopsInv
        <5>2. PassedOn(m) => PassedOn(m)'
          BY <1>2, <1>5 DEF PassedOn
        <5> QED
          BY <2>3, <4>2, <5>1, <5>2
      <4> QED
        BY <4>1, <4>2
    <3> QED
      BY <1>2, <1>5, <2>1, <3>1, <3>2 DEF HopsInv
  <2> QED
    BY <1>5, <1>6, <2>1, <2>5, <2>6 DEF SolveInv, SearchInv, Injective
<1> QED
  BY <1>7, <1>8

\* An edge that is no improvement leaves its target reached, and as cheap.
LEMMA SkipInv ==
  ASSUME edges \in Seq(Edges), SolveInv, spc = "search", NEW i \in todo, ~Improves(edges[i]),
         todo' = todo \ {i},
         UNCHANGED <<edges, spc, useUtility, open, gScore, data, current, path, actions>>
  PROVE  SolveInv'
<1>1. TableInv /\ RootInv /\ LinkInv /\ AcyclicInv /\ FrontierInv /\ TraceInv
  BY DEF SolveInv, SearchInv
<1>2. PICK e \in Edges : e = edges[i] /\ e.src = current
  BY <1>1 DEF TableInv
<1>3. e.trg \in Reached /\ ~(newGScore(e) < gScore[e.trg])
  BY <1>2 DEF Improves, Reached
<1>4. Reached' = Reached /\ TableInv' /\ RootInv' /\ LinkInv' /\ AcyclicInv'
  BY <1>1 DEF TableInv, RootInv, LinkInv, AcyclicInv, Reached, LinkedBy, cost
<1>5. \A n \in Reached : Expanded(n) => Expanded(n)'
  BY <1>2, <1>3, <1>4 DEF Expanded
<1>6. FrontierInv' /\ TraceInv'
  BY <1>1, <1>4, <1>5 DEF FrontierInv, TraceInv
<1>7. HopsInv'
  <2> SUFFICES ASSUME ~useUtility PROVE HopsInv'
    BY DEF HopsInv
  <2>1. /\ \A x \in open : gScore[x[1]] <= x[2]
        /\ \A n \in Reached : <<n, gScore[n]>> \in open \/ (n # Goal /\ PassedOn(n))
    BY DEF SolveInv, HopsInv
  <2>2. gScore[e.trg] <= gScore[current] + Unit
    <3>1. gScore[e.trg] \in Nat /\ gScore[current] \in Nat
      BY <1>1, <1>3 DEF TableInv
    <3> QED
      BY <1>3, <3>1 DEF newGScore, cost, Unit
  <2>3. \A n \in Reached : PassedOn(n) => PassedOn(n)'
    BY <1>2, <1>3, <1>4, <2>2 DEF PassedOn
  <2> QED
    BY <1>4, <2>1, <2>3 DEF HopsInv
<1> QED
  BY <1>4, <1>6, <1>7 DEF SolveInv, SearchInv, Injective

\* An improvement: the target is a node other than the start and the popped one,
\* and every score stays or gets smaller.
Improved(i, t, v) ==
    /\ t \in Nodes /\ t # Start /\ t # current /\ v \in Nat
    /\ v = gScore[current] + cost(edges[i])
    /\ (t \in Reached => v < gScore[t])
    /\ Reached' = Reached \cup {t} /\ DOMAIN data' = Reached \cup {t}
    /\ gScore'[t] = v
    /\ data'[t] = [node |-> current, action |-> edges[i].action, done |-> FALSE]
    /\ \A m \in Reached : m # t => gScore'[m] = gScore[m] /\ data'[m] = data[m]
    /\ \A m \in Reached : gScore'[m] \in Nat /\ gScore'[m] <= gScore[m]

LEMMA ImproveFacts ==
  ASSUME GraphInv, SolveInv, spc = "search", NEW i \in todo, Improves(edges[i]),
         NEW t, t = edges[i].trg, NEW v, v = newGScore(edges[i]),
         gScore' = Stored(gScore, t, v),
         data' = Stored(data, t, [node |-> current, action |-> edges[i].action, done |-> FALSE])
  PROVE  Improved(i, t, v)
<1>1. TableInv /\ RootInv
  BY DEF SolveInv, SearchInv
<1>2. t \in Nodes /\ cost(edges[i]) \in Nat
  BY <1>1, EdgeType DEF TableInv, GraphInv
<1>3. gScore[current] \in Nat /\ v = gScore[current] + cost(edges[i])
  BY <1>1 DEF TableInv, newGScore
<1>4. t \in Reached => gScore[t] \in Nat /\ v < gScore[t]
  BY <1>1 DEF Improves, Reached, TableInv
<1>5. t # Start /\ t # current
  BY <1>1, <1>2, <1>3, <1>4 DEF RootInv, TableInv
<1>6. /\ Reached' = Reached \cup {t} /\ gScore'[t] = v
      /\ \A m \in Reached : m # t => gScore'[m] = gScore[m]
  BY DEF Stored, Reached
<1>7. /\ DOMAIN data' = Reached \cup {t}
      /\ data'[t] = [node |-> current, action |-> edges[i].action, done |-> FALSE]
      /\ \A m \in Reached : m # t => data'[m] = data[m]
  BY <1>1 DEF Stored, TableInv
<1>8. v \in Nat
  BY <1>2, <1>3
<1>9. ASSUME NEW m \in Reached PROVE gScore'[m] \in Nat /\ gScore'[m] <= gScore[m]
  <2>1. gScore[m] \in Nat
    BY <1>1 DEF TableInv
  <2>2. CASE m = t
    BY <1>4, <1>6, <1>8, <2>1, <2>2
  <2>3. CASE m # t
    BY <1>6, <2>1, <2>3
  <2> QED
    BY <2>2, <2>3
<1> QED
  BY <1>2, <1>3, <1>4, <1>5, <1>6, <1>7, <1>8, <1>9 DEF Improved

LEMMA ImproveInv ==
  ASSUME GraphInv, SolveInv, spc = "search", NEW i \in todo, Improves(edges[i]),
         NEW t, t = edges[i].trg, NEW v, v = newGScore(edges[i]),
         gScore' = Stored(gScore, t, v),
         data' = Stored(data, t, [node |-> current, action |-> edges[i].action, done |-> FALSE]),
         open' = open \cup {<<t, v + h[t]>>},
         todo' = todo \ {i},
         UNCHANGED <<edges, spc, useUtility, current, path, actions>>
  PROVE  SolveInv'
<1>1. TableInv /\ RootInv /\ LinkInv /\ AcyclicInv /\ FrontierInv /\ TraceInv
  BY DEF SolveInv, SearchInv
<1> DEFINE entry == [node |-> current, action |-> edges[i].action, done |-> FALSE]
<1>2. /\ t \in Nodes /\ t # Start /\ t # current /\ v \in Nat
      /\ v = gScore[current] + cost(edges[i])
      /\ (t \in Reached => v < gScore[t])
      /\ Reached' = Reached \cup {t} /\ DOMAIN data' = Reached \cup {t}
      /\ gScore'[t] = v
      /\ data'[t] = entry
      /\ \A m \in Reached : m # t => gScore'[m] = gScore[m] /\ data'[m] = data[m]
      /\ \A m \in Reached : gScore'[m] \in Nat /\ gScore'[m] <= gScore[m]
  <2>1. Improved(i, t, v)
    BY ImproveFacts
  <2> HIDE DEF entry
  <2>2. data'[t] = entry
    BY <2>1 DEF Improved, entry
  <2> QED
    BY <2>1, <2>2 DEF Improved
<1>3. /\ i \in DOMAIN edges /\ edges[i].src = current /\ current \in Reached
      /\ edges[i].action \in Labels /\ h[t] \in Int /\ (~useUtility => h[t] = 0)
      /\ (~useUtility => cost(edges[i]) = Unit)
  BY <1>1, <1>2, EdgeType, HeuristicType DEF TableInv, GraphInv
<1>4. /\ data'[t].node = current /\ data'[t].action = edges[i].action /\ ~data'[t].done
      /\ data'[t] \in DataEntries
  <2>1. current \in Nodes
    BY <1>1 DEF TableInv
  <2>2. /\ entry \in DataEntries /\ entry.node = current /\ entry.action = edges[i].action
        /\ ~entry.done
    BY <1>3, <2>1 DEF DataEntries
  <2> HIDE DEF entry
  <2> QED
    BY <1>2, <2>2
<1> HIDE DEF entry
<1>5. TableInv'
  <2>1. <<t, v + h[t]>> \in Reached' \X Int
    BY <1>2, <1>3
  <2>2. open' \subseteq Reached' \X Int
    BY <1>1, <1>2, <2>1 DEF TableInv
  <2>3. ASSUME NEW n \in Reached' PROVE gScore'[n] \in Nat /\ data'[n] \in DataEntries
    <3>1. CASE n = t
      BY <1>2, <1>4, <3>1
    <3>2. CASE n # t
      BY <1>1, <1>2, <3>2 DEF TableInv
    <3> QED
      BY <3>1, <3>2
  <2>4. current' \in Reached' /\ todo' \subseteq DOMAIN edges' /\ \A j \in todo' : edges'[j].src = current'
    BY <1>1, <1>2 DEF TableInv
  <2>5. Reached' \subseteq Nodes
    BY <1>1, <1>2 DEF TableInv
  <2> QED
    BY <1>2, <2>2, <2>3, <2>4, <2>5 DEF TableInv
<1>6. RootInv'
  BY <1>1, <1>2, <1>4 DEF RootInv
<1>7. LinkInv'
  <2> SUFFICES ASSUME NEW n \in Reached' \ {Start}
               PROVE  data'[n].node \in Reached' /\ \E j \in DOMAIN edges : LinkedBy(n, j)'
    BY DEF LinkInv
  <2>1. CASE n = t
    <3>1. gScore'[current] = gScore[current] /\ gScore[current] \in Nat /\ cost(edges[i])' = cost(edges[i])
      BY <1>1, <1>2, <1>3 DEF cost, TableInv
    <3>2. LinkedBy(t, i)'
      BY <1>2, <1>3, <1>4, <3>1 DEF LinkedBy
    <3> QED
      BY <1>2, <1>3, <1>4, <2>1, <3>2
  <2>2. CASE n # t
    <3>1. n \in Reached \ {Start} /\ data'[n] = data[n] /\ gScore'[n] = gScore[n]
      BY <1>2, <2>2
    <3>2. data[n].node \in Reached /\ \E j \in DOMAIN edges : LinkedBy(n, j)
      BY <1>1, <3>1 DEF LinkInv
    <3>3. PICK j \in DOMAIN edges : LinkedBy(n, j)
      BY <3>2
    <3>4. cost(edges[j])' = cost(edges[j]) /\ cost(edges[j]) \in Nat
      BY EdgeType DEF cost, GraphInv
    <3>5. /\ gScore'[data[n].node] \in Nat /\ gScore'[data[n].node] <= gScore[data[n].node]
          /\ gScore[data[n].node] \in Nat /\ gScore[n] \in Nat
      BY <1>1, <1>2, <3>1, <3>2 DEF TableInv
    <3>6. LinkedBy(n, j)'
      BY <3>1, <3>3, <3>4, <3>5 DEF LinkedBy
    <3> QED
      BY <1>2, <3>1, <3>2, <3>6
  <2> QED
    BY <2>1, <2>2
\* The popped node is cheaper than the target was, and so are its predecessors:
\* the target is none of them.
<1>8. AcyclicInv'
  <2> SUFFICES ASSUME NEW S \in SUBSET (Reached \cup {t}), S # {},
                      \A n \in S : n # Start /\ data'[n].node \in S
               PROVE  FALSE
    BY <1>2 DEF AcyclicInv
  <2>1. \A n \in S \ {t} : n \in Reached \ {Start} /\ data[n].node \in S
    BY <1>2
  <2>2. CASE t \notin S
    BY <1>1, <2>1, <2>2 DEF AcyclicInv
  <2>3. CASE t \in S
    <3>1. current \in S \ {t}
      BY <1>2, <1>4, <2>3
    <3> DEFINE T == {n \in S \ {t} : t \in Reached => gScore[n] < gScore[t]}
    <3>2. current \in T
      <4>1. t \in Reached => gScore[current] < gScore[t]
        <5> SUFFICES ASSUME t \in Reached PROVE gScore[current] < gScore[t]
          OBVIOUS
        <5>1. gScore[current] \in Nat /\ gScore[t] \in Nat /\ cost(edges[i]) \in Nat
          BY <1>1, <1>3, EdgeType DEF TableInv, GraphInv
        <5> QED
          BY <1>2, <5>1
      <4> QED
        BY <3>1, <4>1
    <3>3. ASSUME NEW n \in T PROVE data[n].node \in T /\ n \in Reached \ {Start}
      <4>1. n \in Reached \ {Start} /\ data[n].node \in S
        BY <2>1
      <4>2. data[n].node \in Reached
        BY <1>1, <4>1 DEF LinkInv
      <4>3. gScore[data[n].node] <= gScore[n]
        <5>1. PICK j \in DOMAIN edges : LinkedBy(n, j)
          BY <1>1, <4>1 DEF LinkInv
        <5>2. cost(edges[j]) \in Nat /\ gScore[n] \in Nat /\ gScore[data[n].node] \in Nat
          BY <1>1, <4>1, <4>2, EdgeType DEF TableInv, GraphInv
        <5> QED
          BY <5>1, <5>2 DEF LinkedBy
      <4>4. CASE t \in Reached
        <5>1. gScore[n] \in Nat /\ gScore[data[n].node] \in Nat /\ gScore[t] \in Nat
          BY <1>1, <4>1, <4>2, <4>4 DEF TableInv
        <5>2. gScore[data[n].node] < gScore[t] /\ data[n].node # t
          BY <3>3, <4>3, <4>4, <5>1
        <5> QED
          BY <4>1, <5>2
      <4>5. CASE t \notin Reached
        BY <4>1, <4>2, <4>5
      <4> QED
        BY <4>4, <4>5
    <3>4. T \in SUBSET Reached /\ T # {}
      BY <3>2, <3>3
    <3> HIDE DEF T
    <3> QED
      BY <1>1, <3>3, <3>4 DEF AcyclicInv
  <2> QED
    BY <2>2, <2>3
<1>9. TraceInv'
  BY <1>1 DEF TraceInv
<1>10. FrontierInv'
  <2> SUFFICES ASSUME NEW n \in Reached'
               PROVE  (\E x \in open' : x[1] = n) \/ (n # Goal /\ Expanded(n)')
    BY DEF FrontierInv
  <2>1. CASE n = t
    <3>1. <<t, v + h[t]>>[1] = t /\ <<t, v + h[t]>> \in open'
      OBVIOUS
    <3> QED
      BY <2>1, <3>1
  <2>2. CASE n # t
    <3>1. (\E x \in open : x[1] = n) \/ (n # Goal /\ Expanded(n))
      BY <1>1, <1>2, <2>2 DEF FrontierInv
    <3>2. Expanded(n) => Expanded(n)'
      BY <1>2 DEF Expanded
    <3> QED
      BY <3>1, <3>2
  <2> QED
    BY <2>1, <2>2
<1>11. HopsInv'
  <2> SUFFICES ASSUME ~useUtility PROVE HopsInv'
    BY DEF HopsInv
  <2>1. /\ \A x \in open : gScore[x[1]] <= x[2]
        /\ \A n \in Reached : <<n, gScore[n]>> \in open \/ (n # Goal /\ PassedOn(n))
    BY DEF SolveInv, HopsInv
  <2>2. v + h[t] = v /\ v = gScore[current] + Unit
    BY <1>2, <1>3
  <2>3. ASSUME NEW x \in open' PROVE gScore'[x[1]] <= x[2]
    <3>1. CASE x = <<t, v>>
      BY <1>2, <3>1
    <3>2. CASE x \in open
      <4>1. x[1] \in Reached /\ x[2] \in Int /\ gScore[x[1]] \in Nat
        BY <1>1, <3>2 DEF TableInv
      <4>2. gScore'[x[1]] \in Nat /\ gScore'[x[1]] <= gScore[x[1]] /\ gScore[x[1]] <= x[2]
        BY <1>2, <2>1, <3>2, <4>1
      <4> QED
        BY <4>1, <4>2
    <3> QED
      BY <2>2, <3>1, <3>2
  <2>4. ASSUME NEW n \in Reached'
        PROVE  <<n, gScore'[n]>> \in open' \/ (n # Goal /\ PassedOn(n)')
    <3>1. CASE n = t
      BY <1>2, <2>2, <3>1
    <3>2. CASE n # t
      <4>1. n \in Reached /\ gScore'[n] = gScore[n] /\ gScore[n] \in Nat
        BY <1>1, <1>2, <3>2 DEF TableInv
      <4>2. ASSUME PassedOn(n), NEW j \in DOMAIN edges, edges[j].src = n,
                   ~(n = current /\ j \in todo')
            PROVE  edges[j].trg \in Reached' /\ gScore'[edges[j].trg] <= gScore'[n] + Unit
        <5>1. CASE j = i
          BY <1>2, <1>3, <2>2, <4>1, <4>2, <5>1 DEF Unit
        <5>2. CASE j # i
          <6>1. edges[j].trg \in Reached /\ gScore[edges[j].trg] <= gScore[n] + Unit
            BY <4>2, <5>2 DEF PassedOn
          <6>2. /\ gScore'[edges[j].trg] \in Nat /\ gScore[edges[j].trg] \in Nat
                /\ gScore'[edges[j].trg] <= gScore[edges[j].trg]
            BY <1>1, <1>2, <6>1 DEF TableInv
          <6> QED
            BY <1>2, <4>1, <6>1, <6>2 DEF Unit
        <5> QED
          BY <5>1, <5>2
      <4>3. PassedOn(n) => PassedOn(n)'
        BY <4>2 DEF PassedOn
      <4> QED
        BY <2>1, <3>2, <4>1, <4>3
    <3> QED
      BY <3>1, <3>2
  <2> QED
    BY <2>3, <2>4 DEF HopsInv
<1> QED
  BY <1>5, <1>6, <1>7, <1>8, <1>9, <1>10, <1>11 DEF SolveInv, SearchInv, Injective

LEMMA SolveStepInv ==
  ASSUME GraphInv, SolveInv, SearchStep(h), UNCHANGED <<edges>>
  PROVE  SolveInv'
<1>1. ASSUME Relax(h) PROVE SolveInv'
  <2>1. PICK i \in todo :
          /\ todo' = todo \ {i}
          /\ LET e == edges[i] IN
               IF Improves(e)
                 THEN /\ gScore' = Stored(gScore, e.trg, newGScore(e))
                      /\ data' = Stored(data, e.trg, [node |-> current, action |-> e.action,
                                                      done |-> FALSE])
                      /\ open' = open \cup {<<e.trg, newGScore(e) + h[e.trg]>>}
                 ELSE UNCHANGED <<gScore, data, open>>
    BY <1>1 DEF Relax
  <2>2. spc = "search" /\ UNCHANGED <<edges, spc, useUtility, current, path, actions>>
    BY <1>1 DEF Relax
  <2>3. CASE Improves(edges[i])
    <3>1. PICK t, v : t = edges[i].trg /\ v = newGScore(edges[i])
      OBVIOUS
    <3> QED
      BY <2>1, <2>2, <2>3, <3>1, ImproveInv
  <2>4. CASE ~Improves(edges[i])
    BY <2>1, <2>2, <2>4, SkipInv DEF GraphInv
  <2> QED
    BY <2>3, <2>4
<1> QED
  BY <1>1, PopInv, GiveUpInv, TraceStep DEF SearchStep, GraphInv

-----------------------------------------------------------------------------
(* What a finished search says. *)

\* A search that gives up has seen everything that can be reached.
LEMMA NilMeansNone ==
  ASSUME GraphInv, SearchInv, spc = "nil"
  PROVE  Goal \notin Reachable
<1>1. TableInv /\ RootInv /\ FrontierInv
  BY DEF SearchInv
<1>2. \A n \in Reached : n # Goal /\ Expanded(n)
  BY <1>1 DEF FrontierInv
<1>3. Closed(Reached)
  BY <1>1, <1>2 DEF Closed, Expanded, FrontierInv
<1> QED
  BY <1>1, <1>2, <1>3 DEF Reachable, TableInv, RootInv

\* A path that was found has an edge between every two of its nodes.
LEMMA FoundWay ==
  ASSUME SearchInv, spc = "found"
  PROVE  /\ path \in Seq(Reached) /\ actions \in Seq(Labels) /\ Len(actions) = Len(path) - 1
         /\ path[1] = Start /\ path[Len(path)] = Goal /\ Len(path) >= 2
         /\ \A i \in 1 .. Len(actions) : \E j \in DOMAIN edges :
              /\ edges[j].src = path[i] /\ edges[j].trg = path[i+1]
              /\ edges[j].action = actions[i]
<1>1. TableInv /\ LinkInv /\ TraceInv
  BY DEF SearchInv
<1>2. /\ path \in Seq(Reached) /\ path # <<>> /\ path[Len(path)] = Goal
      /\ actions \in Seq(Labels) /\ Len(actions) = Len(path) - 1
      /\ path[1] = Start
  BY <1>1 DEF TraceInv
<1>3. Len(path) >= 2
  <2>1. Len(path) \in Nat /\ Len(path) # 0 /\ Len(path) # 1
    BY <1>2
  <2> QED
    BY <2>1
<1>4. ASSUME NEW i \in 1 .. Len(actions)
      PROVE  \E j \in DOMAIN edges : /\ edges[j].src = path[i] /\ edges[j].trg = path[i+1]
                                     /\ edges[j].action = actions[i]
  <2>1. i + 1 \in 1 .. Len(path)
    BY <1>2
  <2>2. PICK n \in Reached : n = path[i+1]
    BY <1>2, <2>1
  <2>3. n # Start /\ data[n].node = path[i] /\ data[n].action = actions[i]
    BY <1>1, <2>2 DEF TraceInv
  <2>4. PICK j \in DOMAIN edges : LinkedBy(n, j)
    BY <1>1, <2>3 DEF LinkInv
  <2> QED
    BY <2>2, <2>3, <2>4 DEF LinkedBy
<1> QED
  BY <1>2, <1>3, <1>4

-----------------------------------------------------------------------------
(* The graph grows: M are the edges that are added. *)

GrowsBy(M) ==
    /\ edges' \in Seq(Edges)
    /\ DOMAIN edges \subseteq DOMAIN edges'
    /\ \A j \in DOMAIN edges : edges'[j] = edges[j]
    /\ \A j \in DOMAIN edges' : j \in DOMAIN edges \/ edges'[j] \in M
    /\ \A e \in M : \E j \in DOMAIN edges' : edges'[j] = e

LEMMA GrowsByTwo ==
  ASSUME edges \in Seq(Edges), NEW r \in Edges, NEW q \in Edges,
         edges' = Append(edges, r) \o <<q>>
  PROVE  GrowsBy({r, q})
<1>1. /\ edges' \in Seq(Edges) /\ Len(edges') = Len(edges) + 2
      /\ \A j \in 1 .. Len(edges) : edges'[j] = edges[j]
      /\ edges'[Len(edges) + 1] = r /\ edges'[Len(edges) + 2] = q
  OBVIOUS
<1>2. DOMAIN edges = 1 .. Len(edges) /\ DOMAIN edges' = 1 .. Len(edges')
      /\ Len(edges) \in Nat
  BY <1>1
<1>3. \A j \in DOMAIN edges' : j \in DOMAIN edges \/ edges'[j] \in {r, q}
  <2> SUFFICES ASSUME NEW j \in DOMAIN edges', j \notin DOMAIN edges PROVE edges'[j] \in {r, q}
    OBVIOUS
  <2>1. j = Len(edges) + 1 \/ j = Len(edges) + 2
    BY <1>1, <1>2
  <2> QED
    BY <1>1, <2>1
<1>4. Len(edges) + 1 \in DOMAIN edges' /\ Len(edges) + 2 \in DOMAIN edges'
  BY <1>1, <1>2
<1>5. DOMAIN edges \subseteq DOMAIN edges'
  BY <1>1, <1>2
<1> QED
  BY <1>1, <1>2, <1>3, <1>4, <1>5 DEF GrowsBy

LEMMA GrowsByOne ==
  ASSUME edges \in Seq(Edges), NEW r \in Edges, edges' = Append(edges, r)
  PROVE  GrowsBy({r})
<1>1. /\ edges' \in Seq(Edges) /\ Len(edges') = Len(edges) + 1
      /\ \A j \in 1 .. Len(edges) : edges'[j] = edges[j]
      /\ edges'[Len(edges) + 1] = r
  OBVIOUS
<1>2. DOMAIN edges = 1 .. Len(edges) /\ DOMAIN edges' = 1 .. Len(edges')
      /\ Len(edges) \in Nat
  BY <1>1
<1> QED
  BY <1>1, <1>2 DEF GrowsBy

LEMMA GrowReach ==
  ASSUME edges \in Seq(Edges), NEW M, GrowsBy(M)
  PROVE  /\ Reachable \subseteq Reachable'
         /\ \A e \in M : e.src \in Reachable' => e.trg \in Reachable'
<1>1. Reachable \subseteq Reachable'
  BY ReachGrows DEF GrowsBy
<1>2. ASSUME NEW e \in M, e.src \in Reachable' PROVE e.trg \in Reachable'
  <2>1. PICK j \in DOMAIN edges' : edges'[j] = e
    BY DEF GrowsBy
  <2>2. edges'[j] \in Edges
    BY DEF GrowsBy
  <2>3. e.trg \in Nodes
    BY <2>1, <2>2 DEF Edges
  <2> QED
    BY <1>2, <2>1, <2>3 DEF Reachable, Closed
<1> QED
  BY <1>1, <1>2

\* The edges keep what they are for, if the old and the new ones do.
LEMMA GrowFits ==
  ASSUME EdgeInv, NEW M, GrowsBy(M), \A e : EdgeFits(e) => EdgeFits(e)',
         \A e \in M : EdgeFits(e)'
  PROVE  EdgeInv'
<1> SUFFICES ASSUME NEW j \in DOMAIN edges' PROVE EdgeFits(edges[j])'
  BY DEF EdgeInv
<1>1. PICK e : e = edges'[j]
  OBVIOUS
<1>2. EdgeFits(e)'
  <2>1. CASE j \in DOMAIN edges
    BY <1>1, <2>1 DEF GrowsBy, EdgeInv
  <2>2. CASE e \in M
    BY <2>2
  <2> QED
    BY <1>1, <2>1, <2>2 DEF GrowsBy
<1> QED
  BY <1>1, <1>2 DEF EdgeFits

-----------------------------------------------------------------------------
(* The steps of CreatePlan. *)

LEMMA InitIInv == PlannerInit => IInv
<1> SUFFICES ASSUME PlannerInit PROVE IInv
  OBVIOUS
<1>1. /\ better \in SUBSET States /\ dist \in [States -> Distances] /\ pc = "graph"
      /\ nodes = {Start, Goal} /\ edges = <<>> /\ queue = <<Start>> /\ node = Start
      /\ toAsk = {} /\ asked = Nobody /\ hasGoal = FALSE
      /\ spc = "off" /\ useUtility = FALSE /\ path = <<>>
  BY DEF PlannerInit, SearchInit
<1>2. Start \in States \cap nodes
  BY <1>1 DEF States
<1>3. dist \in [States -> Int]
  BY <1>1
<1>4. IsFiniteSet(nodes)
  <2>1. IsFiniteSet({Start}) /\ nodes = {Start} \cup {Goal}
    BY <1>1, FS_Singleton
  <2> QED
    BY <2>1, FS_AddElement
<1>5. <<Start>> \in Seq(States \cap nodes) /\ <<>> \in Seq(Edges) /\ <<>> \in Seq(Nodes)
  BY <1>2
<1>6. GraphInv
  BY <1>1, <1>2, <1>3, <1>4, <1>5 DEF GraphInv
<1>7. ReachInv
  BY <1>1, ReachStart DEF ReachInv
<1> QED
  BY <1>1, <1>5, <1>6, <1>7 DEF IInv, PhaseInv, EdgeInv, SearchInv, HopsInv, Injective, PlanInv

\* Without a search there is nothing to keep but the last path.
LEMMA NoSearch ==
  ASSUME Injective, spc' = "off", UNCHANGED path
  PROVE  SearchInv' /\ HopsInv' /\ Injective'
BY DEF SearchInv, HopsInv, Injective

LEMMA SameGraph ==
  ASSUME ReachInv, UNCHANGED <<edges, nodes, hasGoal>>
  PROVE  ReachInv'
BY DEF ReachInv, Reachable, Closed

LEMMA TakeNodeInv ==
  ASSUME IInv, TakeNode
  PROVE  IInv'
<1>1. /\ pc = "graph" /\ queue # <<>> /\ node' = Head(queue) /\ queue' = Tail(queue)
      /\ UNCHANGED <<better, dist, nodes, asked, hasGoal, edges, spc, useUtility, path, pc, plan>>
  BY DEF TakeNode, worldVars, graphVars, searchVars
<1>2. spc = "off" /\ GraphInv /\ Injective
  BY <1>1 DEF IInv, PhaseInv
<1>3. Head(queue) \in States \cap nodes /\ Tail(queue) \in Seq(States \cap nodes)
  BY <1>1, <1>2 DEF GraphInv
<1>4. GraphInv'
  BY <1>1, <1>2, <1>3 DEF GraphInv
<1>5. ReachInv' /\ SearchInv' /\ HopsInv' /\ Injective'
  BY <1>1, <1>2, SameGraph, NoSearch DEF IInv
<1>6. EdgeInv' /\ PhaseInv' /\ PlanInv'
  BY <1>1 DEF IInv, EdgeInv, EdgeFits, PhaseInv, PlanInv
<1> QED
  BY <1>4, <1>5, <1>6 DEF IInv

LEMMA AskInv ==
  ASSUME IInv, NoMoreCandidates \/ \E a \in Actuators : NextState(a)
  PROVE  IInv'
<1>1. /\ pc = "graph" /\ asked' \in Actuators \cup {Nobody}
      /\ UNCHANGED <<better, dist, nodes, queue, node, hasGoal, edges, spc, useUtility, path, pc,
                     plan>>
  BY DEF NoMoreCandidates, NextState, worldVars, graphVars, searchVars, IInv, PhaseInv
<1>2. spc = "off" /\ GraphInv /\ Injective
  BY <1>1 DEF IInv, PhaseInv
<1>3. GraphInv'
  BY <1>1, <1>2 DEF GraphInv
<1>4. ReachInv' /\ SearchInv' /\ HopsInv' /\ Injective'
  BY <1>1, <1>2, SameGraph, NoSearch DEF IInv
<1>5. EdgeInv' /\ PhaseInv' /\ PlanInv'
  BY <1>1 DEF IInv, EdgeInv, EdgeFits, PhaseInv, PlanInv
<1> QED
  BY <1>3, <1>4, <1>5 DEF IInv

\* A candidate is connected with the node it was named for, and a new one that
\* is good enough with the goal.
LEMMA AddCandidateInv ==
  ASSUME IInv, NEW s \in States, NEW u \in Utilities, AddCandidate(s, u)
  PROVE  IInv'
<1>0. PICK r, q : /\ r = [src |-> node, trg |-> s, utility |-> u, action |-> asked]
                  /\ q = [src |-> s, trg |-> Goal, utility |-> 0, action |-> Done]
  OBVIOUS
<1> DEFINE M == IF Linked(s) THEN {r, q} ELSE {r}
<1>1. /\ asked # Nobody /\ nodes' = nodes \cup {s}
      /\ queue' = IF found(s) THEN queue ELSE Append(queue, s)
      /\ hasGoal' = (hasGoal \/ Linked(s))
      /\ edges' = Append(edges, r) \o (IF Linked(s) THEN <<q>> ELSE <<>>)
      /\ UNCHANGED <<better, dist, node, toAsk, asked, spc, useUtility, path, pc, plan>>
  BY <1>0 DEF AddCandidate, addEdge, worldVars, searchVars
<1>2. /\ pc = "graph" /\ spc = "off" /\ GraphInv /\ Injective /\ ReachInv /\ EdgeInv
      /\ edges \in Seq(Edges) /\ node \in nodes \ {Goal} /\ node \in Nodes /\ asked \in Actuators
  BY <1>1 DEF IInv, PhaseInv, GraphInv, States
<1>3. r \in Edges /\ q \in Edges
  BY <1>0, <1>2 DEF Edges, States, Actuators
<1>4. GrowsBy(M)
  <2>1. CASE Linked(s)
    BY <1>1, <1>2, <1>3, <2>1, GrowsByTwo
  <2>2. CASE ~Linked(s)
    <3>1. Append(edges, r) \o <<>> = Append(edges, r)
      BY <1>2, <1>3
    <3> QED
      BY <1>1, <1>2, <1>3, <2>2, <3>1, GrowsByOne
  <2> QED
    BY <2>1, <2>2
<1>5. GraphInv'
  <2>1. nodes' \subseteq Nodes /\ IsFiniteSet(nodes') /\ Start \in nodes'
    BY <1>1, <1>2, FS_AddElement DEF GraphInv, States
  <2>2. queue' \in Seq(States \cap nodes')
    <3>1. queue \in Seq(States \cap nodes') /\ s \in States \cap nodes'
      <4>1. queue \in Seq(States \cap nodes) /\ States \cap nodes \subseteq States \cap nodes'
        BY <1>1, <1>2 DEF GraphInv
      <4> QED
        BY <1>1, <4>1
    <3> QED
      BY <1>1, <3>1
  <2>3. hasGoal' \in BOOLEAN
    BY <1>1, <1>2 DEF GraphInv
  <2>4. edges' \in Seq(Edges)
    BY <1>4 DEF GrowsBy
  <2> QED
    BY <1>1, <1>2, <2>1, <2>2, <2>3, <2>4 DEF GraphInv
<1>6. ReachInv'
  <2>1. Reachable \subseteq Reachable' /\ \A e \in M : e.src \in Reachable' => e.trg \in Reachable'
    BY <1>2, <1>4, GrowReach
  <2>2. r \in M /\ (Linked(s) => q \in M)
    OBVIOUS
  <2>3. node \in Reachable'
    BY <1>2, <2>1 DEF ReachInv
  <2>4. s \in Reachable'
    BY <1>0, <2>1, <2>2, <2>3
  <2>5. Linked(s) => Goal \in Reachable'
    BY <1>0, <2>1, <2>2, <2>4
  <2> QED
    BY <1>1, <1>2, <2>1, <2>4, <2>5 DEF ReachInv
<1>7. EdgeInv'
  <2>1. \A e : EdgeFits(e) => EdgeFits(e)'
    BY <1>1, <1>2 DEF EdgeFits
  <2>2. EdgeFits(r)'
    BY <1>0, <1>1, <1>2 DEF EdgeFits, States
  <2>3. Linked(s) => EdgeFits(q)'
    BY <1>0, <1>1 DEF EdgeFits, Linked, IsBetter
  <2>4. \A e \in M : EdgeFits(e)'
    BY <2>2, <2>3
  <2> QED
    BY <1>2, <1>4, <2>1, <2>4, GrowFits
<1>8. PhaseInv' /\ PlanInv' /\ SearchInv' /\ HopsInv' /\ Injective'
  BY <1>1, <1>2, NoSearch DEF IInv, PhaseInv, PlanInv
<1> QED
  BY <1>5, <1>6, <1>7, <1>8 DEF IInv

LEMMA GraphGrownInv ==
  ASSUME IInv, GraphGrown
  PROVE  IInv'
<1>1. /\ pc = "graph" /\ toAsk = {} /\ asked = Nobody
      /\ UNCHANGED <<better, dist, nodes, queue, node, toAsk, asked, hasGoal, edges, plan>>
      /\ \/ pc' = "shortcut" /\ SolveStart(FALSE) /\ Start \in better
         \/ pc' = "plan" /\ UNCHANGED <<spc, path, useUtility>>
  BY DEF GraphGrown, Answered, IsBetter, worldVars, genVars, graphVars, searchVars
<1>2. spc = "off" /\ GraphInv /\ Injective /\ PhaseInv
  BY <1>1 DEF IInv, PhaseInv
<1>3. ReachInv' /\ EdgeInv'
  BY <1>1, SameGraph DEF IInv, EdgeInv, EdgeFits
<1>4. CASE pc' = "plan" /\ UNCHANGED <<spc, path, useUtility>>
  BY <1>1, <1>2, <1>3, <1>4, NoSearch DEF IInv, GraphInv, PhaseInv, PlanInv
<1>5. CASE pc' = "shortcut" /\ SolveStart(FALSE) /\ Start \in better
  <2>1. SolveInv' /\ spc' = "search" /\ useUtility' = FALSE
    BY <1>5, SolveStartInv DEF SolveStart
  <2> QED
    BY <1>1, <1>2, <1>3, <1>5, <2>1 DEF IInv, GraphInv, PhaseInv, PlanInv, SolveInv
<1> QED
  BY <1>1, <1>4, <1>5

\* The shortcut leads over the copy of the current state, which is good enough.
LEMMA AddShortcutInv ==
  ASSUME IInv, AddShortcut
  PROVE  IInv'
<1>1. PICK factor \in ShortcutFactors :
        edges' = addEdge(Start, Mid, (Len(path) - 2) * factor, Done) \o
                   <<[src |-> Mid, trg |-> Goal, utility |-> 0, action |-> Done]>>
  BY DEF AddShortcut
<1>2. /\ pc = "shortcut" /\ spc = "found" /\ nodes' = nodes \cup {Mid} /\ hasGoal' = TRUE
      /\ pc' = "plan" /\ spc' = "off"
      /\ UNCHANGED <<better, dist, queue, node, toAsk, asked, plan, useUtility, path>>
  BY DEF AddShortcut, worldVars
<1>3. GraphInv /\ PhaseInv /\ ReachInv /\ EdgeInv /\ SearchInv /\ Injective /\ Start \in better
      /\ edges \in Seq(Edges)
  BY <1>2 DEF IInv, PhaseInv, GraphInv
<1>4. Len(path) \in Nat /\ Len(path) >= 2
  BY <1>2, <1>3, FoundWay
<1>5. PICK c \in Nat : c = (Len(path) - 2) * factor
  <2>1. factor = 100 \/ factor = 101
    BY DEF ShortcutFactors, Unit
  <2> QED
    BY <1>4, <2>1
<1>6. PICK r, q : /\ r = [src |-> Start, trg |-> Mid, utility |-> c, action |-> Done]
                  /\ q = [src |-> Mid, trg |-> Goal, utility |-> 0, action |-> Done]
  OBVIOUS
<1>7. r \in Edges /\ q \in Edges
  BY <1>6 DEF Edges
<1>8. GrowsBy({r, q})
  <2>1. edges' = Append(edges, r) \o <<q>>
    BY <1>1, <1>5, <1>6 DEF addEdge
  <2> QED
    BY <1>3, <1>7, <2>1, GrowsByTwo
<1>9. GraphInv'
  <2>1. nodes' \subseteq Nodes /\ IsFiniteSet(nodes') /\ Start \in nodes'
    BY <1>2, <1>3, FS_AddElement DEF GraphInv
  <2>2. queue' \in Seq(States \cap nodes') /\ node' \in States \cap nodes'
    <3>1. queue \in Seq(States \cap nodes) /\ States \cap nodes \subseteq States \cap nodes'
          /\ node \in States \cap nodes
      BY <1>2, <1>3 DEF GraphInv
    <3> QED
      BY <1>2, <3>1
  <2>3. edges' \in Seq(Edges)
    BY <1>8 DEF GrowsBy
  <2> QED
    BY <1>2, <1>3, <2>1, <2>2, <2>3 DEF GraphInv
<1>10. ReachInv'
  <2>1. Reachable \subseteq Reachable'
        /\ \A e \in {r, q} : e.src \in Reachable' => e.trg \in Reachable'
    BY <1>3, <1>8, GrowReach
  <2>2. Start \in Reachable'
    BY <2>1, ReachStart
  <2>3. Mid \in Reachable'
    BY <1>6, <2>1, <2>2
  <2>4. Goal \in Reachable'
    BY <1>6, <2>1, <2>3
  <2> QED
    BY <1>2, <1>3, <2>1, <2>3, <2>4 DEF ReachInv
<1>11. EdgeInv'
  <2>1. \A e : EdgeFits(e) => EdgeFits(e)'
    BY <1>2, <1>3 DEF EdgeFits
  <2>2. EdgeFits(r)' /\ EdgeFits(q)'
    BY <1>2, <1>3, <1>6 DEF EdgeFits
  <2> QED
    BY <1>3, <1>8, <2>1, <2>2, GrowFits
<1>12. PhaseInv' /\ PlanInv' /\ SearchInv' /\ HopsInv' /\ Injective'
  BY <1>2, <1>3, NoSearch DEF PhaseInv, PlanInv
<1> QED
  BY <1>9, <1>10, <1>11, <1>12 DEF IInv

LEMMA NoShortcutInv ==
  ASSUME IInv, NoShortcut
  PROVE  IInv'
<1>1. /\ pc = "shortcut" /\ pc' = "plan" /\ spc' = "off"
      /\ UNCHANGED <<better, dist, nodes, queue, node, toAsk, asked, hasGoal, edges, plan,
                     useUtility, path>>
  BY DEF NoShortcut, worldVars, genVars, graphVars
<1>2. SearchInv' /\ HopsInv' /\ Injective' /\ ReachInv'
  BY <1>1, NoSearch, SameGraph DEF IInv
<1>3. GraphInv' /\ EdgeInv' /\ PhaseInv' /\ PlanInv'
  BY <1>1 DEF IInv, GraphInv, EdgeInv, EdgeFits, PhaseInv, PlanInv
<1> QED
  BY <1>2, <1>3 DEF IInv

LEMMA PlanWithGoalInv ==
  ASSUME IInv, PlanWithGoal
  PROVE  IInv'
<1>1. /\ pc = "plan" /\ pc' = "solve" /\ SolveStart(TRUE)
      /\ UNCHANGED <<better, dist, nodes, queue, node, toAsk, asked, hasGoal, edges, plan>>
  BY DEF PlanWithGoal, worldVars, genVars, graphVars
<1>2. SolveInv' /\ spc' = "search" /\ useUtility' = TRUE
  BY <1>1, SolveStartInv DEF SolveStart
<1>3. ReachInv'
  BY <1>1, SameGraph DEF IInv
<1>4. GraphInv' /\ EdgeInv' /\ PhaseInv' /\ PlanInv'
  BY <1>1, <1>2 DEF IInv, GraphInv, EdgeInv, EdgeFits, PhaseInv, PlanInv
<1> QED
  BY <1>2, <1>3, <1>4 DEF IInv, SolveInv

\* What a concatenation holds, position by position.
Joins(u, s, t, S) ==
    /\ u \in Seq(S) /\ Len(u) = Len(s) + Len(t) /\ Len(s) \in Nat
    /\ \A j \in 1 .. Len(s) : u[j] = s[j]
    /\ \A i \in 1 .. Len(t) : u[Len(s) + i] = t[i]

LEMMA Appended ==
  ASSUME NEW S, NEW s \in Seq(S), NEW t \in Seq(S)
  PROVE  Joins(s \o t, s, t, S)
  BY DEF Joins

\* The closest states are nodes of the graph; hasGoal remembers that none of
\* them is good enough.
LEMMA AdditionalInv ==
  ASSUME IInv, NEW n \in OpportunisticCandidates, addAdditionalStates(n)
  PROVE  IInv'
<1>1. PICK c \in Closest(n) :
        edges' = edges \o [i \in DOMAIN c |->
                   [src |-> c[i], trg |-> Goal, utility |-> 0, action |-> Opportunistic]]
  BY DEF addAdditionalStates
<1>2. /\ pc = "plan" /\ ~hasGoal /\ pc' = "solve" /\ SolveStart(TRUE)
      /\ UNCHANGED <<better, dist, nodes, queue, node, toAsk, asked, hasGoal, plan>>
  BY DEF addAdditionalStates, worldVars, genVars
<1>3. GraphInv /\ ReachInv /\ EdgeInv /\ PhaseInv /\ edges \in Seq(Edges)
  BY DEF IInv, GraphInv
<1>4. PICK k \in Nat : c \in [1 .. k -> nodes \ {Start, Goal}]
  <2>1. IsFiniteSet(nodes \ {Start, Goal})
    BY <1>3, FS_Subset DEF GraphInv
  <2>2. Cardinality(nodes \ {Start, Goal}) \in Nat /\ n \in Nat
    BY <2>1, FS_CardinalityType
  <2> QED
    BY <2>2 DEF Closest
<1> DEFINE E(i) == [src |-> c[i], trg |-> Goal, utility |-> 0, action |-> Opportunistic]
           M == {E(i) : i \in 1 .. k}
<1>5. \A i \in 1 .. k : E(i) \in Edges
  BY <1>3, <1>4 DEF Edges, GraphInv
<1>6. PICK more \in Seq(Edges) : /\ edges' = edges \o more /\ Len(more) = k
                                 /\ \A i \in 1 .. k : more[i] = E(i)
  <2> DEFINE more == [i \in 1 .. k |-> E(i)]
  <2>1. edges' = edges \o more
    BY <1>1, <1>4
  <2> HIDE DEF E
  <2>2. more \in [1 .. k -> Edges]
    BY <1>5
  <2>3. more \in Seq(Edges) /\ Len(more) = k /\ \A i \in 1 .. k : more[i] = E(i)
    BY <2>2
  <2> QED
    BY <2>1, <2>3
<1>7. GrowsBy(M)
  <2> HIDE DEF E
  <2>1. /\ edges' \in Seq(Edges) /\ Len(edges') = Len(edges) + k /\ Len(edges) \in Nat
        /\ \A j \in 1 .. Len(edges) : edges'[j] = edges[j]
        /\ \A i \in 1 .. k : edges'[Len(edges) + i] = more[i]
    <3>1. edges \in Seq(Edges) /\ more \in Seq(Edges) /\ edges' = edges \o more
      BY <1>3, <1>6
    <3>2. Len(more) = k
      BY <1>6
    <3>3. Joins(edges \o more, edges, more, Edges)
      BY <3>1, Appended, Zenon
    <3>4. Joins(edges', edges, more, Edges)
      BY <3>1, <3>3, Zenon
    <3> QED
      BY <3>2, <3>4, Zenon DEF Joins
  <2>2. DOMAIN edges = 1 .. Len(edges) /\ DOMAIN edges' = 1 .. Len(edges')
    BY <1>3, <2>1
  <2>3. DOMAIN edges \subseteq DOMAIN edges'
    BY <2>1, <2>2
  <2>4. ASSUME NEW j \in DOMAIN edges', j \notin DOMAIN edges PROVE edges'[j] \in M
    <3>1. PICK i \in 1 .. k : j = Len(edges) + i
      <4>1. j - Len(edges) \in 1 .. k /\ j = Len(edges) + (j - Len(edges))
        BY <2>1, <2>2, <2>4
      <4> QED
        BY <4>1
    <3> QED
      BY <1>6, <2>1, <3>1
  <2>5. ASSUME NEW e \in M PROVE \E j \in DOMAIN edges' : edges'[j] = e
    <3>1. PICK i \in 1 .. k : e = E(i)
      OBVIOUS
    <3>2. Len(edges) + i \in DOMAIN edges' /\ edges'[Len(edges) + i] = e
      BY <1>6, <2>1, <2>2, <3>1
    <3> QED
      BY <3>2
  <2> QED
    BY <2>1, <2>2, <2>3, <2>4, <2>5 DEF GrowsBy
<1>8. SolveInv' /\ spc' = "search" /\ useUtility' = TRUE
  BY <1>2, SolveStartInv DEF SolveStart
<1>9. GraphInv'
  <2>1. edges' \in Seq(Edges)
    BY <1>7 DEF GrowsBy
  <2> QED
    BY <1>2, <1>3, <1>8, <2>1 DEF GraphInv
<1>10. ReachInv'
  <2>1. Reachable \subseteq Reachable'
    BY <1>3, <1>7, GrowReach
  <2> QED
    BY <1>2, <1>3, <2>1 DEF ReachInv
<1>11. EdgeInv'
  <2>1. \A e : EdgeFits(e) => EdgeFits(e)'
    BY <1>2 DEF EdgeFits
  <2>2. ASSUME NEW e \in M PROVE EdgeFits(e)'
    <3>1. e.trg = Goal
      OBVIOUS
    <3> QED
      BY <1>2, <3>1 DEF EdgeFits
  <2> QED
    BY <1>3, <1>7, <2>1, <2>2, GrowFits
<1>12. PhaseInv' /\ PlanInv'
  BY <1>2, <1>3, <1>8 DEF PhaseInv, PlanInv
<1> QED
  BY <1>8, <1>9, <1>10, <1>11, <1>12 DEF IInv, SolveInv

LEMMA SolveIInv ==
  ASSUME IInv, solve
  PROVE  IInv'
<1>1. /\ SearchStep(h)
      /\ UNCHANGED <<better, dist, nodes, queue, node, toAsk, asked, hasGoal, edges, pc, plan>>
  BY DEF solve, worldVars, genVars, graphVars
<1>2. /\ spc \in {"search", "trace"} /\ spc' \in {"search", "trace", "found", "nil"}
      /\ UNCHANGED useUtility
  BY <1>1 DEF SearchStep, Pop, GiveUp, Relax, resolvePath
<1>3. SolveInv'
  BY <1>1, SolveStepInv DEF IInv, SolveInv
<1>4. ReachInv'
  BY <1>1, SameGraph DEF IInv
<1>5. GraphInv' /\ EdgeInv' /\ PhaseInv' /\ PlanInv'
  BY <1>1, <1>2 DEF IInv, GraphInv, EdgeInv, EdgeFits, PhaseInv, PlanInv
<1> QED
  BY <1>3, <1>4, <1>5 DEF IInv, SolveInv

\* The first edge of a path that needs no actuator leaves a state that is good
\* enough.
LEMMA FinishInv ==
  ASSUME IInv, FinishPlan
  PROVE  IInv'
<1>1. /\ pc = "solve" /\ spc \in {"found", "nil"} /\ plan' = finalPlan(actions) /\ pc' = "done"
      /\ UNCHANGED <<better, dist, nodes, queue, node, toAsk, asked, hasGoal, edges,
                     spc, useUtility, open, gScore, data, current, todo, path, actions>>
  BY DEF FinishPlan, worldVars, genVars, graphVars, searchVars
<1>2. ReachInv' /\ GraphInv' /\ EdgeInv' /\ PhaseInv'
  BY <1>1, SameGraph DEF IInv, GraphInv, EdgeInv, EdgeFits, PhaseInv
<1>3. SolveInv'
  <2>1. SearchInv'
    BY <1>1 DEF IInv, SearchInv, TableInv, RootInv, LinkInv, AcyclicInv, FrontierInv, TraceInv,
                Reached, LinkedBy, Expanded, cost
  <2>2. HopsInv'
    BY <1>1, WaysStay DEF IInv, HopsInv
  <2>3. Injective'
    BY <1>1 DEF IInv, Injective
  <2> QED
    BY <2>1, <2>2, <2>3 DEF SolveInv
<1>4. PlanInv'
  <2> SUFFICES ASSUME hasGoal, finalPlan(actions) = <<>> PROVE Start \in better
    BY <1>1 DEF PlanInv
  <2>1. spc = "found"
    BY <1>1, NilMeansNone DEF IInv, ReachInv
  <2>2. /\ actions \in Seq(Labels) /\ Len(actions) >= 1 /\ path[1] = Start
        /\ \A i \in 1 .. Len(actions) : \E j \in DOMAIN edges :
             /\ edges[j].src = path[i] /\ edges[j].trg = path[i+1]
             /\ edges[j].action = actions[i]
    BY <2>1, FoundWay DEF IInv
  <2>3. 1 \in 1 .. Len(actions) /\ actions # <<>>
    BY <2>2
  <2>4. PICK j \in DOMAIN edges : edges[j].src = Start /\ edges[j].action = actions[1]
    BY <2>2, <2>3
  <2>5. actions[1] \notin Actuators
    BY <2>2, <2>3, FinalPlanKeeps
  <2>6. EdgeFits(edges[j])
    BY DEF IInv, EdgeInv
  <2> QED
    BY <2>4, <2>5, <2>6 DEF EdgeFits
<1> QED
  BY <1>2, <1>3, <1>4 DEF IInv, SolveInv

LEMMA NoPlanInv ==
  ASSUME IInv, NoPlan
  PROVE  IInv'
<1>1. /\ pc = "plan" /\ ~hasGoal /\ pc' = "done"
      /\ UNCHANGED <<better, dist, nodes, queue, node, toAsk, asked, hasGoal, edges, plan,
                     spc, useUtility, path>>
  BY DEF NoPlan, worldVars, genVars, graphVars, searchVars
<1>2. spc' = "off" /\ ReachInv' /\ Injective
  BY <1>1, SameGraph DEF IInv, PhaseInv
<1>3. SearchInv' /\ HopsInv' /\ Injective'
  BY <1>1, <1>2, NoSearch
<1>4. GraphInv' /\ EdgeInv' /\ PhaseInv' /\ PlanInv'
  BY <1>1, <1>2 DEF IInv, GraphInv, EdgeInv, EdgeFits, PhaseInv, PlanInv
<1> QED
  BY <1>2, <1>3, <1>4 DEF IInv

LEMMA StutterInv ==
  ASSUME IInv, UNCHANGED plannerVars
  PROVE  IInv'
<1>1. UNCHANGED <<better, dist, nodes, queue, node, toAsk, asked, hasGoal, edges, plan, pc,
                  spc, useUtility, open, gScore, data, current, todo, path, actions>>
  BY DEF plannerVars, worldVars, genVars, graphVars, searchVars
<1>2. ReachInv' /\ GraphInv' /\ EdgeInv' /\ PhaseInv' /\ PlanInv' /\ Injective'
  BY <1>1, SameGraph DEF IInv, GraphInv, EdgeInv, EdgeFits, PhaseInv, PlanInv, Injective
<1>3. SearchInv'
  BY <1>1 DEF IInv, SearchInv, TableInv, RootInv, LinkInv, AcyclicInv, FrontierInv, TraceInv,
              Reached, LinkedBy, Expanded, cost
<1>4. HopsInv'
  BY <1>1, WaysStay DEF IInv, HopsInv, PassedOn, Reached
<1> QED
  BY <1>2, <1>3, <1>4 DEF IInv

LEMMA NextIInv == IInv /\ [PlannerNext]_plannerVars => IInv'
BY TakeNodeInv, AskInv, AddCandidateInv, GraphGrownInv, AddShortcutInv, NoShortcutInv,
   PlanWithGoalInv, NoPlanInv, FinishInv, AdditionalInv, SolveIInv, StutterInv
   DEF PlannerNext, Returned

-----------------------------------------------------------------------------
(* The theorems. *)

\* resolvePath never sees a node twice, whatever the cycles and the costs of the
\* graph, and returns a way from the current to the desired state.
THEOREM PathsAreWays == PlannerSpec => []PathIsWay
<1>1. IInv => PathIsWay
  <2> SUFFICES ASSUME IInv PROVE PathIsWay
    OBVIOUS
  <2>1. ASSUME spc = "found" PROVE DOMAIN actions = 1 .. Len(actions)
    BY <2>1, FoundWay DEF IInv
  <2> QED
    BY <2>1, FoundWay DEF IInv, Injective, PathIsWay
<1> QED
  BY <1>1, InitIInv, NextIInv, PTL DEF PlannerSpec

\* solve gives up only if the desired state cannot be reached, with any
\* heuristic, and hasGoal is set only if it can.
THEOREM NoWayOverlooked == PlannerSpec => []NilOnlyIfNone
<1>1. IInv => NilOnlyIfNone
  BY NilMeansNone DEF IInv, ReachInv, NilOnlyIfNone
<1> QED
  BY <1>1, InitIInv, NextIInv, PTL DEF PlannerSpec

\* The path by which the shortcut is priced has the fewest hops of all.
THEOREM ShortcutPrice == PlannerSpec => []ShortcutIsPriced
<1>1. IInv => ShortcutIsPriced
  <2> SUFFICES ASSUME IInv, pc = "shortcut", spc = "found", NEW k \in 1 .. Len(path) - 2,
                      NEW p \in [0 .. k -> Nodes], IsWay(p, k)
               PROVE  FALSE
    BY DEF ShortcutIsPriced
  <2>1. Len(path) \in Nat /\ path[1] = Start /\ Goal \in Reached
    BY FoundWay DEF IInv
  <2>2. /\ gScore[Start] = 0 /\ gScore[Goal] \in Nat
    BY <2>1 DEF IInv, SearchInv, RootInv, TableInv
  <2>3. gScore[Start] + (Len(path) - 1) * Unit <= gScore[Goal] /\ NoWayIsCheaper
    BY <2>1 DEF IInv, PhaseInv, HopsInv
  <2>4. k \in Nat \ {0} /\ k <= Len(path) - 2
    BY <2>1
  <2>5. gScore[Goal] <= k * Unit
    BY <2>3, <2>4 DEF NoWayIsCheaper
  <2> QED
    BY <2>1, <2>2, <2>3, <2>4, <2>5 DEF Unit
<1> QED
  BY <1>1, InitIInv, NextIInv, PTL DEF PlannerSpec

\* A plan for a graph with a state that is good enough leads to such a state, and
\* is empty only if the current state is one.
THEOREM PlansReachGoal == PlannerSpec => []PlanReachesGoal
<1>1. IInv => PlanReachesGoal
  <2> SUFFICES ASSUME IInv, pc = "done", hasGoal
               PROVE  /\ spc = "found"
                      /\ \/ path[Len(path) - 1] \in better
                         \/ path[Len(path) - 1] = Mid /\ Start \in better
                      /\ plan = <<>> => Start \in better
    BY DEF PlanReachesGoal
  <2>1. spc = "found"
    BY NilMeansNone DEF IInv, PhaseInv, ReachInv
  <2>2. Len(path) - 1 \in 1 .. Len(actions) /\ path[Len(path) - 1 + 1] = Goal
    BY <2>1, FoundWay DEF IInv
  <2>3. PICK j \in DOMAIN edges : edges[j].src = path[Len(path) - 1] /\ edges[j].trg = Goal
    BY <2>1, <2>2, FoundWay DEF IInv
  <2>4. EdgeFits(edges[j])
    BY DEF IInv, EdgeInv
  <2> QED
    BY <2>1, <2>3, <2>4 DEF EdgeFits, IInv, PlanInv
<1> QED
  BY <1>1, InitIInv, NextIInv, PTL DEF PlannerSpec
=============================================================================
