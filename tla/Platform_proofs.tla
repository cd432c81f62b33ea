--------------------------- MODULE Platform_proofs ---------------------------
(***************************************************************************)
(* Proofs about Platform, for all options and power profiles, any number   *)
(* of PODs, of rounds and of events, and paths of any length: an actuator  *)
(* acts once along a path, a current state that looks as desired is so or  *)
(* misses a value, a plan changes the template it was made for, and an     *)
(* actuator answers the same as a plugin and inside the planner.           *)
(*                                                                         *)
(* What carries them is an invariant about the state a path has led to:    *)
(* the marks in it are those of the actions on the path, and what it says  *)
(* of annotations and resources is what the template says.  Both have to   *)
(* survive every copy and every message on the way, so most lemmas are     *)
(* about what StateDeepCopy, the conversions and the actuators' NextState  *)
(* do to a state.  The last part is about two states with the same entries *)
(* in their maps (Same): all that an actuator reads of them is the same.   *)
(***************************************************************************)
EXTENDS Platform, FiniteSetTheorems, WellFoundedInduction, TLAPS

USE PlatformAssumption, NilAssumption

\* A template's containers have a CPU share, and no profile without requests.
Templates ==
    {t \in [annotations : AnnotationMaps \cup {Nil}, requests : ResourceMaps \cup {Nil},
            limits : ResourceMaps] :
       /\ IF t.requests = Nil THEN DOMAIN t.limits = {"cpu"} ELSE "cpu" \in DOMAIN t.requests
       /\ "cpu" \in DOMAIN t.limits}

Actions == {RdtAction(o) : o \in Elements(Options) \cup {"None"}} \cup
           {PowerAction(p) : p \in Elements(PowerProfiles)}

ClusterInv ==
    /\ template \in Templates /\ (settled = Nil \/ settled \in Templates)
    /\ DOMAIN running \subseteq PodNames /\ running \in [DOMAIN running -> Templates]
    /\ config.intent \in Intents /\ config.known \subseteq config.intent
    /\ load \in [config.intent -> {Good, Bad}]

IsState(s) ==
    s = [objectives |-> s.objectives, tolerations |-> s.tolerations, pods |-> s.pods,
         data |-> s.data, resources |-> s.resources, annotations |-> s.annotations]

\* What the actuators do with a state keeps its maps what they are.
StateOK(s) ==
    /\ IsState(s)
    /\ s.annotations \in AnnotationMaps \cup {Nil}
    /\ s.data \in DataMaps \cup {Nil}
    /\ s.resources \in ResourceMaps \cup {Nil}

RoundInv ==
    /\ round = [pc |-> round.pc, state |-> round.state, path |-> round.path, todo |-> round.todo]
    /\ round.path \in Seq(Actions)
    /\ StateOK(round.state)

\* An action on the path has left its mark in the state the path leads to.
MarkedBy(s, action) ==
    /\ action.name = Power => Has(s.data, Power)
    /\ action.name = RDT /\ action # RdtAction("None") => Has(s.annotations, RdtVisited)

MarkInv ==
    round.pc = "planning" => \A i \in DOMAIN round.path : MarkedBy(round.state, round.path[i])

\* For a workload at rest the state shows what the template says, all along the
\* path.
ResourcesOf(t) == IF t.requests = Nil THEN t.limits ELSE t.requests

Shows(s, t) ==
    /\ Has(s.annotations, RdtAnnotation) <=> Has(t.annotations, RdtAnnotation)
    /\ CurrentOption(s) = CurrentOption(t)
    /\ s.resources = ResourcesOf(t)

ShowsInv == round.pc = "planning" /\ settled # Nil => Shows(round.state, settled)

\* An action asks for something else than what a template says.
Changes(action, t) ==
    /\ action.name = RDT => action.properties.option # CurrentOption(t)
    /\ action.name = Power /\ ~config.proactive =>
         LET s == [resources |-> ResourcesOf(t)]
         IN  CurrentProfile(s) # action.properties.profile \/ Outgrown(s)

NewsInv == settled # Nil => \A i \in DOMAIN round.path : Changes(round.path[i], settled)

\* Until the first action the values are those that were measured, which are true
\* or those of a query without an answer; since then the load can only have dropped.
MeasuredInv ==
    round.pc = "planning" /\ round.path = <<>> =>
      \/ \A k \in config.intent \ {"availability"} : load[k] = Good
      \/ /\ DOMAIN round.state.objectives = {k \in config.intent : Has(knownProfiles, k)}
         /\ \A k \in DOMAIN round.state.objectives \ {"availability"} :
              round.state.objectives[k] \in {QueryFailed, 0, load[k]}

IInv == ClusterInv /\ RoundInv /\ MarkInv /\ EachActsOnce /\ ShowsInv /\ NewsInv /\ MeasuredInv

-----------------------------------------------------------------------------
(* Maps. *)

LEMMA MapIn ==
  ASSUME NEW KK, NEW V, NEW m
  PROVE  m \in MapsOf(KK, V) <=> m \in [DOMAIN m -> V] /\ DOMAIN m \subseteq KK
BY DEF MapsOf

LEMMA EmptyIn ==
  /\ DOMAIN Empty = {}
  /\ Empty \in AnnotationMaps /\ Empty \in ResourceMaps /\ Empty \in HostMaps /\ Empty \in DataMaps
<1>1. DOMAIN Empty = {} /\ \A V : Empty \in [DOMAIN Empty -> V]
  BY DEF Empty
<1>2. ASSUME NEW KK, NEW V PROVE Empty \in MapsOf(KK, V)
  <2>1. Empty \in [DOMAIN Empty -> V] /\ DOMAIN Empty \subseteq KK
    BY <1>1
  <2> QED
    BY <2>1, MapIn, Zenon
<1>3. Empty \in AnnotationMaps
  BY <1>2, Zenon DEF AnnotationMaps
<1>4. Empty \in ResourceMaps
  BY <1>2, Zenon DEF ResourceMaps
<1>5. Empty \in HostMaps
  BY <1>2, Zenon DEF HostMaps
<1>6. Empty \in DataMaps
  BY <1>2, Zenon DEF DataMaps
<1> QED
  BY <1>1, <1>3, <1>4, <1>5, <1>6, Zenon

\* An empty map arrives as a nil map, which is an empty one to who reads it.
LEMMA Delivery ==
  ASSUME NEW m
  PROVE  /\ Entries(Delivered(Entries(m))) = Entries(m)
         /\ Entries(Entries(m)) = Entries(m)
BY DEF Entries, Delivered

LEMMA EntriesIn ==
  /\ \A m \in AnnotationMaps \cup {Nil} : Entries(m) \in AnnotationMaps
  /\ \A m \in ResourceMaps \cup {Nil} : Entries(m) \in ResourceMaps
  /\ \A m \in HostMaps \cup {Nil} : Entries(m) \in HostMaps /\ Delivered(m) \in HostMaps \cup {Nil}
  /\ \A m \in DataMaps \cup {Nil} : Entries(m) \in DataMaps
BY EmptyIn DEF Entries, Delivered

\* Two states with the same annotations have the same option.
LEMMA SameOption ==
  ASSUME NEW s, NEW t, Entries(s.annotations) = Entries(t.annotations)
  PROVE  /\ \A k : Has(s.annotations, k) <=> Has(t.annotations, k)
         /\ CurrentOption(s) = CurrentOption(t)
<1>1. \A k : Has(s.annotations, k) <=> Has(t.annotations, k)
  BY DEF Has
<1>2. \A m, k : Has(m, k) => Entries(m) = m
  BY EmptyIn DEF Has, Entries
<1>3. CASE Has(s.annotations, RdtAnnotation)
  <2>1. s.annotations = t.annotations
    BY <1>1, <1>2, <1>3
  <2> QED
    BY <2>1 DEF CurrentOption
<1>4. CASE ~Has(s.annotations, RdtAnnotation)
  BY <1>1, <1>4 DEF CurrentOption
<1> QED
  BY <1>1, <1>3, <1>4

-----------------------------------------------------------------------------
(* Messages and copies keep what the actuators decide by. *)

Sent(s) == toState(deliveredState(toGrpcState(s)))

\* A state like another one, seen by its annotations, data and resources.
Like(s, t) ==
    /\ Entries(s.annotations) = Entries(t.annotations)
    /\ DOMAIN Entries(s.data) = DOMAIN Entries(t.data)
    /\ Entries(s.resources) = Entries(t.resources)

LEMMA DataIn ==
  ASSUME NEW m \in DataMaps
  PROVE  /\ [k \in DOMAIN m |-> Delivered(m[k])] \in DataMaps
         /\ [k \in DOMAIN m |-> Entries(m[k])] \in DataMaps
<1>1. DOMAIN m \subseteq {Renewable, Power} /\ m \in [DOMAIN m -> HostMaps \cup {Nil}]
  BY MapIn DEF DataMaps
<1>2. \A k \in DOMAIN m : /\ Delivered(m[k]) \in HostMaps \cup {Nil}
                          /\ Entries(m[k]) \in HostMaps \cup {Nil}
  BY <1>1, EntriesIn
<1>3. ASSUME NEW d, DOMAIN d = DOMAIN m, d \in [DOMAIN m -> HostMaps \cup {Nil}]
      PROVE  d \in DataMaps
  <2>1. d \in [DOMAIN d -> HostMaps \cup {Nil}] /\ DOMAIN d \subseteq {Renewable, Power}
    BY <1>1, <1>3
  <2> QED
    BY <2>1, MapIn, Zenon DEF DataMaps
<1> QED
  BY <1>2, <1>3

LEMMA SentOK ==
  ASSUME NEW s, StateOK(s)
  PROVE  /\ StateOK(Sent(s)) /\ Like(Sent(s), s)
         /\ Sent(s).resources = Entries(s.resources)
<1> DEFINE D == [k \in DOMAIN Entries(s.data) |-> Delivered(Entries(s.data)[k])]
<1>1. D \in DataMaps /\ D # Nil /\ DOMAIN D = DOMAIN Entries(s.data)
  <2>1. PICK m \in DataMaps : m = Entries(s.data)
    BY EntriesIn DEF StateOK
  <2>2. D = [k \in DOMAIN m |-> Delivered(m[k])]
    BY <2>1
  <2>3. D \in DataMaps
    BY <2>2, DataIn
  <2>4. Nil \notin DataMaps /\ DOMAIN D = DOMAIN Entries(s.data)
    BY NilAssumption
  <2> QED
    BY <2>3, <2>4
<1>2. /\ Sent(s).annotations = Entries(Delivered(Entries(s.annotations)))
      /\ Sent(s).resources = Entries(Delivered(Entries(s.resources)))
      /\ Sent(s).data = Entries(Delivered(D))
      /\ Sent(s) = [objectives |-> Sent(s).objectives, tolerations |-> Sent(s).tolerations,
                    pods |-> Sent(s).pods, data |-> Sent(s).data,
                    resources |-> Sent(s).resources, annotations |-> Sent(s).annotations]
  BY DEF Sent, toState, deliveredState, toGrpcState
<1>3. Entries(Delivered(D)) = D
  <2> HIDE DEF D
  <2> QED
    BY <1>1 DEF Entries, Delivered
<1> HIDE DEF D
<1>4. /\ Sent(s).annotations = Entries(s.annotations) /\ Sent(s).resources = Entries(s.resources)
      /\ Sent(s).data = D /\ Entries(D) = D
  BY <1>1, <1>2, <1>3, Delivery DEF Entries
<1>5. /\ Entries(s.annotations) \in AnnotationMaps /\ Entries(s.resources) \in ResourceMaps
  BY EntriesIn DEF StateOK
<1>6. StateOK(Sent(s))
  BY <1>1, <1>2, <1>4, <1>5 DEF StateOK, IsState
<1>7. Like(Sent(s), s)
  BY <1>1, <1>4, Delivery DEF Like
<1> QED
  BY <1>4, <1>6, <1>7

LEMMA CopyOK ==
  ASSUME NEW s, StateOK(s)
  PROVE  /\ StateOK(StateDeepCopy(s)) /\ Like(StateDeepCopy(s), s)
         /\ StateDeepCopy(s).annotations = s.annotations
         /\ StateDeepCopy(s).resources = s.resources
         /\ StateDeepCopy(s).data \in DataMaps
<1> DEFINE D == [k \in DOMAIN Entries(s.data) |-> Entries(Entries(s.data)[k])]
<1>1. D \in DataMaps /\ D # Nil /\ DOMAIN D = DOMAIN Entries(s.data)
  <2>1. PICK m \in DataMaps : m = Entries(s.data)
    BY EntriesIn DEF StateOK
  <2>2. D = [k \in DOMAIN m |-> Entries(m[k])]
    BY <2>1
  <2>3. D \in DataMaps
    BY <2>2, DataIn
  <2>4. Nil \notin DataMaps /\ DOMAIN D = DOMAIN Entries(s.data)
    BY NilAssumption
  <2> QED
    BY <2>3, <2>4
<1>2. StateDeepCopy(s) = [objectives |-> Entries(s.objectives), tolerations |-> Nil,
                          pods |-> Entries(s.pods), data |-> D,
                          resources |-> s.resources, annotations |-> s.annotations]
  BY DEF StateDeepCopy
<1> HIDE DEF D
<1>3. Entries(D) = D
  BY <1>1 DEF Entries
<1> QED
  BY <1>1, <1>2, <1>3 DEF StateOK, IsState, Like

-----------------------------------------------------------------------------
(* Assignments to a field of a state. *)

LEMMA NewObjectives ==
  ASSUME NEW s, IsState(s), NEW o
  PROVE  [s EXCEPT !.objectives = o] =
           [objectives |-> o, tolerations |-> s.tolerations, pods |-> s.pods,
            data |-> s.data, resources |-> s.resources, annotations |-> s.annotations]
BY SMTT(30) DEF IsState

LEMMA NewAnnotations ==
  ASSUME NEW s, IsState(s), NEW m
  PROVE  [s EXCEPT !.annotations = m] =
           [objectives |-> s.objectives, tolerations |-> s.tolerations, pods |-> s.pods,
            data |-> s.data, resources |-> s.resources, annotations |-> m]
BY SMTT(30) DEF IsState

LEMMA NewData ==
  ASSUME NEW s, IsState(s), NEW m
  PROVE  [s EXCEPT !.data = m] =
           [objectives |-> s.objectives, tolerations |-> s.tolerations, pods |-> s.pods,
            data |-> m, resources |-> s.resources, annotations |-> s.annotations]
BY SMTT(30) DEF IsState

LEMMA NewObjectivesAndData ==
  ASSUME NEW s, IsState(s), NEW o, NEW m
  PROVE  [s EXCEPT !.objectives = o, !.data = m] =
           [objectives |-> o, tolerations |-> s.tolerations, pods |-> s.pods,
            data |-> m, resources |-> s.resources, annotations |-> s.annotations]
<1>1. PICK t : t = [s EXCEPT !.objectives = o]
  OBVIOUS
<1>2. [s EXCEPT !.objectives = o, !.data = m] = [t EXCEPT !.data = m]
  BY <1>1
<1>3. t = [objectives |-> o, tolerations |-> s.tolerations, pods |-> s.pods,
           data |-> s.data, resources |-> s.resources, annotations |-> s.annotations]
  BY <1>1, NewObjectives
<1>4. IsState(t)
  BY <1>3 DEF IsState
<1> QED
  BY <1>2, <1>3, <1>4, NewData

-----------------------------------------------------------------------------
(* What the RDT actuator answers. *)

LEMMA PredictedOK ==
  ASSUME NEW s, StateOK(s), NEW profs, NEW value
  PROVE  /\ StateOK(Predicted(s, profs, value))
         /\ Predicted(s, profs, value).annotations = s.annotations
         /\ Predicted(s, profs, value).resources = s.resources
         /\ DOMAIN Entries(Predicted(s, profs, value).data) = DOMAIN Entries(s.data)
<1> DEFINE c == StateDeepCopy(s)
           o == [k \in DOMAIN c.objectives |-> IF Latency(profs, k) THEN value ELSE c.objectives[k]]
<1>1. Predicted(s, profs, value) = [c EXCEPT !.objectives = o]
  BY DEF Predicted
<1> HIDE DEF c, o
<1>2. StateOK(c) /\ Like(c, s) /\ c.annotations = s.annotations /\ c.resources = s.resources
  BY CopyOK DEF c
<1>3. Predicted(s, profs, value) =
        [objectives |-> o, tolerations |-> c.tolerations, pods |-> c.pods, data |-> c.data,
         resources |-> c.resources, annotations |-> c.annotations]
  BY <1>1, <1>2, NewObjectives DEF StateOK
<1> QED
  BY <1>2, <1>3 DEF StateOK, IsState, Like

\* The mark is set, and nothing else is changed.
LEMMA RdtMarkedOK ==
  ASSUME NEW s, StateOK(s)
  PROVE  /\ StateOK(RdtMarked(s))
         /\ Has(RdtMarked(s).annotations, RdtVisited)
         /\ Has(RdtMarked(s).annotations, RdtAnnotation) <=> Has(s.annotations, RdtAnnotation)
         /\ CurrentOption(RdtMarked(s)) = CurrentOption(s)
         /\ RdtMarked(s).resources = s.resources /\ RdtMarked(s).data = s.data
<1> DEFINE V == {"x", ""} \cup Elements(Options)
           KK == {"other", RdtAnnotation, RdtVisited}
           m == IF Entries(s.annotations) # Empty THEN With(s.annotations, RdtVisited, "")
                ELSE [k \in {RdtVisited} |-> ""]
<1>1. RdtMarked(s) = [objectives |-> s.objectives, tolerations |-> s.tolerations,
                      pods |-> s.pods, data |-> s.data, resources |-> s.resources,
                      annotations |-> m]
  <2>1. RdtMarked(s) = [s EXCEPT !.annotations = m]
    BY DEF RdtMarked
  <2> HIDE DEF m
  <2> QED
    BY <2>1, NewAnnotations DEF StateOK
<1>2. /\ m \in [DOMAIN m -> V] /\ DOMAIN m \subseteq KK
      /\ RdtVisited \in DOMAIN m
      /\ RdtAnnotation \in DOMAIN m <=> Has(s.annotations, RdtAnnotation)
      /\ RdtAnnotation \in DOMAIN m => m[RdtAnnotation] = s.annotations[RdtAnnotation]
  <2>1. RdtAnnotation # RdtVisited
    BY DEF RdtAnnotation, RdtVisited
  <2>2. CASE Entries(s.annotations) # Empty
    <3>1. s.annotations \in AnnotationMaps /\ Entries(s.annotations) = s.annotations
      BY <2>2 DEF StateOK, Entries
    <3>2. s.annotations \in [DOMAIN s.annotations -> V] /\ DOMAIN s.annotations \subseteq KK
      <4>1. s.annotations \in MapsOf(KK, V)
        BY <3>1 DEF AnnotationMaps
      <4> HIDE DEF V, KK
      <4> QED
        BY <4>1, MapIn, Zenon
    <3>3. m = [k \in DOMAIN s.annotations \cup {RdtVisited} |->
                 IF k = RdtVisited THEN "" ELSE s.annotations[k]]
      BY <1>1, <2>2 DEF With
    <3> QED
      BY <2>1, <3>1, <3>2, <3>3, ZenonT(30) DEF Has
  <2>3. CASE Entries(s.annotations) = Empty
    <3>1. ~Has(s.annotations, RdtAnnotation)
      BY <2>3, EmptyIn DEF Has
    <3>2. m = [k \in {RdtVisited} |-> ""]
      BY <1>1, <2>3
    <3> QED
      BY <2>1, <3>1, <3>2
  <2> QED
    BY <2>2, <2>3
<1>3. m \in AnnotationMaps /\ m # Nil
  <2>1. m \in AnnotationMaps
    <3> HIDE DEF V, KK, m
    <3>1. m \in MapsOf(KK, V)
      BY <1>2, MapIn, Zenon
    <3> QED
      BY <3>1 DEF AnnotationMaps, V, KK
  <2> QED
    BY <2>1, NilAssumption
<1> HIDE DEF m, V, KK
<1>4. Entries(m) = m
  BY <1>3 DEF Entries
<1>5. StateOK(RdtMarked(s))
  BY <1>1, <1>3 DEF StateOK, IsState
<1>6. \A k : Has(RdtMarked(s).annotations, k) <=> k \in DOMAIN m
  BY <1>1, <1>4 DEF Has
<1>7. CurrentOption(RdtMarked(s)) = CurrentOption(s)
  BY <1>1, <1>2, <1>6 DEF CurrentOption
<1> QED
  BY <1>1, <1>2, <1>5, <1>6, <1>7

LEMMA RdtStates ==
  ASSUME NEW s, StateOK(s), NEW g, NEW profs, NEW prediction,
         NEW x \in RdtNextState(s, g, profs, prediction)
  PROVE  /\ StateOK(x.state)
         /\ ~Has(s.annotations, RdtVisited)
         /\ \E o \in Elements(Options) : x.action = RdtAction(o) /\ o # CurrentOption(s)
         /\ x.action # RdtAction("None") => Has(x.state.annotations, RdtVisited)
         /\ Has(x.state.annotations, RdtAnnotation) <=> Has(s.annotations, RdtAnnotation)
         /\ CurrentOption(x.state) = CurrentOption(s)
         /\ DOMAIN Entries(x.state.data) = DOMAIN Entries(s.data)
         /\ x.state.resources = s.resources
<1>1. ~Has(s.annotations, RdtVisited) /\ x \in RdtFindStates(s, g, profs, CurrentOption(s), prediction)
  BY DEF RdtNextState
<1>2. PICK i \in DOMAIN Options :
        /\ Options[i] # CurrentOption(s) /\ x.action = RdtAction(Options[i])
        /\ \/ x.action = RdtAction("None") /\ x.state = Predicted(s, profs, prediction[i])
           \/ x.state = RdtMarked(Predicted(s, profs, prediction[i]))
  <2> DEFINE current    == CurrentOption(s)
             asks       == \E k \in DOMAIN Entries(s.objectives) : Latency(profs, k)
             found(j)   == asks => prediction[j] # QueryFailed
             after      == [j \in DOMAIN Options |-> Predicted(s, profs, prediction[j])]
             better     == [j \in DOMAIN Options |-> IsBetter(after[j], g, profs)]
             none       == [j \in DOMAIN Options |-> Options[j] = "None" /\ better[j] /\ found(j)]
             fits       == [j \in DOMAIN Options |-> asks /\ found(j) /\ prediction[j] <= Good /\ ~none[j]]
             tried      == {k \in DOMAIN Options :
                              \A j \in 1 .. k - 1 : ~none[j] /\ ~(fits[j] /\ better[j])}
  <2>1. \/ x \in {[state |-> after[j], action |-> RdtAction("None")] :
                    j \in {k \in tried : none[k] /\ Offers("None", current)}}
        \/ x \in {[state |-> RdtMarked(after[j]), action |-> RdtAction(Options[j])] :
                    j \in {k \in tried : fits[k] /\ Offers(Options[k], current)}}
    BY <1>1 DEF RdtFindStates
  <2>2. /\ \A j \in DOMAIN Options : after[j] = Predicted(s, profs, prediction[j])
        /\ \A j \in DOMAIN Options : none[j] => Options[j] = "None"
        /\ tried \subseteq DOMAIN Options
    OBVIOUS
  <2> HIDE DEF asks, after, better, none, fits, tried
  <2>3. CASE x \in {[state |-> after[j], action |-> RdtAction("None")] :
                      j \in {k \in tried : none[k] /\ Offers("None", current)}}
    <3>1. PICK j \in tried : /\ x = [state |-> after[j], action |-> RdtAction("None")]
                             /\ none[j] /\ Offers("None", current)
      BY <2>3
    <3> QED
      BY <2>2, <3>1 DEF Offers
  <2>4. CASE x \in {[state |-> RdtMarked(after[j]), action |-> RdtAction(Options[j])] :
                      j \in {k \in tried : fits[k] /\ Offers(Options[k], current)}}
    <3>1. PICK j \in tried : /\ x = [state |-> RdtMarked(after[j]), action |-> RdtAction(Options[j])]
                             /\ Offers(Options[j], current)
      BY <2>4
    <3> QED
      BY <2>2, <3>1 DEF Offers
  <2> QED
    BY <2>1, <2>3, <2>4
<1>3. Options[i] \in Elements(Options)
  BY DEF Elements
<1> DEFINE p == Predicted(s, profs, prediction[i])
<1>4. /\ StateOK(p) /\ p.annotations = s.annotations /\ p.resources = s.resources
      /\ DOMAIN Entries(p.data) = DOMAIN Entries(s.data)
  BY PredictedOK
<1>5. /\ Has(p.annotations, RdtAnnotation) <=> Has(s.annotations, RdtAnnotation)
      /\ CurrentOption(p) = CurrentOption(s)
  BY <1>4, SameOption
<1> HIDE DEF p
<1>6. CASE x.action = RdtAction("None") /\ x.state = p
  BY <1>1, <1>2, <1>3, <1>4, <1>5, <1>6
<1>7. CASE x.state = RdtMarked(p)
  BY <1>1, <1>2, <1>3, <1>4, <1>5, <1>7, RdtMarkedOK
<1> QED
  BY <1>2, <1>6, <1>7 DEF p

-----------------------------------------------------------------------------
(* A set of natural numbers that is not empty has a least element, as the    *)
(* intervals below its elements are ordered by inclusion; if it is bounded   *)
(* it has a greatest one.                                                    *)

LEMMA Least ==
  ASSUME NEW S \in SUBSET Nat, S # {}
  PROVE  \E n \in S : \A m \in S : n <= m
<1>1. PICK n \in S : TRUE
  OBVIOUS
<1> DEFINE R == StrictSubsetOrdering(0 .. n)
           T == {0 .. m : m \in {k \in S : k <= n}}
<1>2. IsWellFoundedOn(R, SUBSET (0 .. n))
  <2>0. 0 \in Int /\ n \in Int
    OBVIOUS
  <2>1. IsFiniteSet(0 .. n)
    BY <2>0, FS_Interval, ZenonT(30)
  <2>2. IsWellFoundedOn(R, FiniteSubsetsOf(0 .. n))
    BY FS_StrictSubsetOrderingWellFounded
  <2>3. FiniteSubsetsOf(0 .. n) = SUBSET (0 .. n)
    BY <2>1, FS_FiniteSubsetsOfFinite
  <2> QED
    BY <2>2, <2>3
<1>3. T \subseteq SUBSET (0 .. n) /\ T # {}
  OBVIOUS
<1>4. PICK x \in T : \A y \in T : ~(<<y, x>> \in R)
  <2> HIDE DEF R, T
  <2> QED
    BY <1>2, <1>3, WFMin
<1>5. PICK m \in S : m <= n /\ x = 0 .. m
  OBVIOUS
<1>6. ASSUME NEW k \in S, k < m PROVE FALSE
  <2>1. 0 .. k \in T
    BY <1>5, <1>6
  <2>2. 0 .. k \subseteq 0 .. m /\ 0 .. k # 0 .. m
    <3>1. m \in 0 .. m /\ m \notin 0 .. k
      BY <1>6
    <3> QED
      BY <1>6, <3>1
  <2>3. <<0 .. k, x>> \in R
    BY <1>5, <1>6, <2>2 DEF StrictSubsetOrdering
  <2> QED
    BY <1>4, <2>1, <2>3
<1> QED
  BY <1>5, <1>6

LEMMA Greatest ==
  ASSUME NEW n \in Nat, NEW S \in SUBSET (1 .. n), S # {}
  PROVE  \E i \in S : \A j \in S : i >= j
<1> DEFINE T == {n - i : i \in S}
<1>1. T \in SUBSET Nat /\ T # {}
  <2>1. \A i \in S : n - i \in Nat /\ n - i \in T
    OBVIOUS
  <2>2. ASSUME NEW t \in T PROVE t \in Nat
    BY <2>1
  <2>3. T # {}
    BY <2>1, Zenon
  <2> HIDE DEF T
  <2> QED
    BY <2>2, <2>3
<1>2. PICK m \in T : \A k \in T : m <= k
  <2> HIDE DEF T
  <2> QED
    BY <1>1, Least
<1>3. PICK i \in S : m = n - i
  OBVIOUS
<1>4. ASSUME NEW j \in S PROVE i >= j
  <2>1. n - j \in T
    OBVIOUS
  <2>2. n - i <= n - j
    BY <1>2, <1>3, <2>1
  <2> QED
    BY <2>2
<1> QED
  BY <1>4

-----------------------------------------------------------------------------
(* What the energy actuator answers. *)

LEMMA ProfileIndex == DOMAIN PowerProfiles = 1 .. Len(PowerProfiles) /\ Len(PowerProfiles) \in Nat \ {0}
OBVIOUS

\* Without proactive candidates there is one profile to choose at most, and all
\* candidates are profiles of the configuration.
LEMMA ProfileChoices ==
  ASSUME NEW objectives, NEW onlyPower \in BOOLEAN, NEW forecast
  PROVE  Cardinality(findProfile(objectives, onlyPower, forecast)) > 1 =>
           /\ config.proactive
           /\ \A c \in findProfile(objectives, onlyPower, forecast) : c.profile \in Elements(PowerProfiles)
<1> DEFINE fitting == IF objectives = {} THEN {}
                      ELSE {i \in DOMAIN PowerProfiles : forecast[i] <= Good}
           first   == CHOOSE i \in fitting : \A j \in fitting : i <= j
           last    == CHOOSE i \in fitting : \A j \in fitting : i >= j
           option(i) == [profile |-> PowerProfiles[i], value |-> forecast[i]]
           options == {option(i) : i \in {j \in DOMAIN PowerProfiles : \A k \in DOMAIN PowerProfiles :
                                            k > j => PowerProfiles[k] # PowerProfiles[j]}}
<1>1. findProfile(objectives, onlyPower, forecast) =
        CASE forecast = Nil -> {}
          [] forecast # Nil /\ onlyPower ->
               {IF fitting = {} THEN [profile |-> "None", value |-> 0] ELSE option(last)}
          [] forecast # Nil /\ ~onlyPower /\ fitting # {} -> {option(first)}
          [] OTHER -> IF config.proactive THEN options ELSE {}
  BY DEF findProfile
<1>2. \A c \in options : c.profile \in Elements(PowerProfiles)
  BY DEF Elements
<1> HIDE DEF fitting, first, last, option, options
<1>3. PICK c : c = findProfile(objectives, onlyPower, forecast)
  OBVIOUS
<1>4. c = {} \/ (\E x : c = {x}) \/ (config.proactive /\ c = options)
  BY <1>1, <1>3
<1>5. CASE c = {}
  <2>1. Cardinality(c) = 0
    BY <1>5, FS_EmptySet
  <2> QED
    BY <1>3, <2>1
<1>6. CASE \E x : c = {x}
  <2>1. Cardinality(c) = 1
    BY <1>6, FS_Singleton
  <2> QED
    BY <1>3, <2>1
<1> QED
  BY <1>2, <1>3, <1>4, <1>5, <1>6

LEMMA SteppedDownIn ==
  ASSUME NEW p
  PROVE  SteppedDown(p) \in Elements(PowerProfiles)
<1> DEFINE having == {i \in DOMAIN PowerProfiles : PowerProfiles[i] = p}
           index  == CHOOSE i \in having : \A j \in having : i <= j
<1>1. having # {} => index \in having
  <2>1. having \in SUBSET Nat
    BY ProfileIndex
  <2> HIDE DEF having
  <2> QED
    BY <2>1, Least
<1>2. having \subseteq 1 .. Len(PowerProfiles)
  BY ProfileIndex
<1>3. SteppedDown(p) = IF having # {} /\ index - 1 - StepDown >= 1
                         THEN PowerProfiles[index - StepDown] ELSE PowerProfiles[1]
  BY DEF SteppedDown
<1> HIDE DEF having, index
<1>4. having # {} /\ index - 1 - StepDown >= 1 => index - StepDown \in DOMAIN PowerProfiles
  <2>1. StepDown \in Nat
    BY PlatformAssumption
  <2>2. ASSUME NEW i \in 1 .. Len(PowerProfiles), i - 1 - StepDown >= 1
        PROVE  i - StepDown \in 1 .. Len(PowerProfiles)
    BY <2>1, <2>2, ProfileIndex
  <2> QED
    BY <1>1, <1>2, <2>2, ProfileIndex
<1>5. 1 \in DOMAIN PowerProfiles
  BY ProfileIndex
<1> QED
  BY <1>3, <1>4, <1>5 DEF Elements

LEMMA PowerMarkedOK ==
  ASSUME NEW s, StateOK(s), NEW objectives, NEW value
  PROVE  /\ StateOK(PowerMarked(s, objectives, value))
         /\ Has(PowerMarked(s, objectives, value).data, Power)
         /\ PowerMarked(s, objectives, value).annotations = s.annotations
         /\ PowerMarked(s, objectives, value).resources = s.resources
<1> DEFINE c == StateDeepCopy(s)
           o == [k \in DOMAIN c.objectives \cup objectives |->
                   IF k \in objectives THEN value ELSE c.objectives[k]]
           mark == [x \in {Power} |-> 1]
           d == With(c.data, Power, mark)
<1>1. StateOK(c) /\ c.annotations = s.annotations /\ c.resources = s.resources /\ c.data \in DataMaps
  BY CopyOK
<1>2. PowerMarked(s, objectives, value) = [c EXCEPT !.objectives = o, !.data = d]
  BY DEF PowerMarked
<1> HIDE DEF c, o
<1>3. mark \in HostMaps
  <2>1. mark \in [DOMAIN mark -> {0, 1}] /\ DOMAIN mark \subseteq {"host", Power}
    OBVIOUS
  <2> HIDE DEF mark
  <2> QED
    BY <2>1, MapIn, Zenon DEF HostMaps
<1> HIDE DEF mark
<1>4. d \in DataMaps /\ Power \in DOMAIN d
  <2> DEFINE V == HostMaps \cup {Nil}
  <2>1. c.data \in [DOMAIN c.data -> V] /\ DOMAIN c.data \subseteq {Renewable, Power}
    BY <1>1, MapIn DEF DataMaps
  <2>2. d = [k \in DOMAIN c.data \cup {Power} |-> IF k = Power THEN mark ELSE c.data[k]]
    BY DEF With
  <2>3. d \in [DOMAIN d -> V] /\ DOMAIN d \subseteq {Renewable, Power} /\ Power \in DOMAIN d
    BY <1>3, <2>1, <2>2
  <2> HIDE DEF d
  <2> QED
    BY <2>3, MapIn, Zenon DEF DataMaps
<1> HIDE DEF d
<1>5. Entries(d) = d
  BY <1>4, NilAssumption DEF Entries
<1>6. PowerMarked(s, objectives, value) =
        [objectives |-> o, tolerations |-> c.tolerations, pods |-> c.pods, data |-> d,
         resources |-> c.resources, annotations |-> c.annotations]
  BY <1>1, <1>2, NewObjectivesAndData DEF StateOK
<1> QED
  BY <1>1, <1>4, <1>5, <1>6 DEF StateOK, IsState, Has

\* A profile that is found in a name is one of the configuration, and one that
\* can be told from the others is found.
LEMMA FoundIn ==
  ASSUME NEW name, \E p \in Elements(PowerProfiles) : <<name, p>> \in Contains
  PROVE  /\ ProfileIn(name) \in Elements(PowerProfiles)
         /\ TellApart /\ name \in Elements(PowerProfiles) \ {"None"} => ProfileIn(name) = name
<1> DEFINE parts == {i \in DOMAIN PowerProfiles : <<name, PowerProfiles[i]>> \in Contains}
           first == CHOOSE i \in parts : \A j \in parts : i <= j
<1>1. parts # {} /\ parts \in SUBSET Nat /\ parts \subseteq DOMAIN PowerProfiles
  <2>1. PICK k \in DOMAIN PowerProfiles : <<name, PowerProfiles[k]>> \in Contains
    BY DEF Elements
  <2>2. k \in parts
    BY <2>1
  <2>3. parts \in SUBSET Nat /\ parts \subseteq DOMAIN PowerProfiles
    BY ProfileIndex
  <2> HIDE DEF parts
  <2> QED
    BY <2>2, <2>3
<1>2. ProfileIn(name) = PowerProfiles[first]
  BY DEF ProfileIn
<1>3. first \in parts /\ \A j \in parts : first <= j
  <2> HIDE DEF parts
  <2>1. \E i \in parts : \A j \in parts : i <= j
    BY <1>1, Least
  <2> QED
    BY <2>1
<1>4. ASSUME TellApart, name \in Elements(PowerProfiles) \ {"None"}
      PROVE  PowerProfiles[first] = name
  <2>1. PICK k \in DOMAIN PowerProfiles : PowerProfiles[k] = name
    BY <1>4 DEF Elements
  <2>2. k \in parts
    BY <1>4, <2>1, ContainsAssumption
  <2>3. first <= k /\ first \in Nat /\ k \in Nat /\ first \in DOMAIN PowerProfiles
    BY <1>1, <1>3, <2>2
  <2>4. <<name, PowerProfiles[first]>> \in Contains
    BY <1>3
  <2> HIDE DEF first, parts
  <2>5. CASE first = k
    BY <2>1, <2>5
  <2>6. CASE first < k
    BY <1>4, <2>1, <2>3, <2>4, <2>6 DEF TellApart
  <2> QED
    BY <2>3, <2>5, <2>6
<1> QED
  BY <1>1, <1>2, <1>3, <1>4 DEF Elements

\* A current profile that was outgrown is one of the configuration.
LEMMA CurrentIn ==
  ASSUME NEW s, Outgrown(s)
  PROVE  CurrentProfile(s) \in Elements(PowerProfiles)
<1>1. ProfileKeys(s) # {}
  BY DEF Outgrown
<1>2. ProfileKey(s) \in ProfileKeys(s)
  BY <1>1 DEF ProfileKey
<1>3. \E p \in Elements(PowerProfiles) : <<ProfileKey(s), p>> \in Contains
  BY <1>2 DEF ProfileKeys
<1> QED
  BY <1>1, <1>3, FoundIn DEF CurrentProfile

LEMMA PowerStates ==
  ASSUME NEW s, StateOK(s), NEW g, NEW profs, NEW forecast,
         NEW x \in PowerNextState(s, g, profs, forecast)
  PROVE  /\ StateOK(x.state)
         /\ ~Has(s.data, Power) /\ Has(x.state.data, Power)
         /\ x.state.annotations = s.annotations /\ x.state.resources = s.resources
         /\ \E p \in Elements(PowerProfiles) :
              /\ x.action = PowerAction(p)
              /\ ~config.proactive => CurrentProfile(s) # p \/ Outgrown(s)
<1> DEFINE objectives == {k \in DOMAIN Entries(g.objectives) : Considered(profs, k)}
           onlyPower  == \A k \in objectives : ~Latency(profs, k)
           choices    == findProfile(objectives, onlyPower, forecast)
           set(p, v)  == [state |-> PowerMarked(s, objectives, v), action |-> PowerAction(p)]
<1>1. Cardinality(choices) > 1 =>
        config.proactive /\ \A c \in choices : c.profile \in Elements(PowerProfiles)
  <2> HIDE DEF objectives
  <2>1. onlyPower \in BOOLEAN
    OBVIOUS
  <2> HIDE DEF onlyPower
  <2> QED
    BY <2>1, ProfileChoices
<1>3. /\ ~Has(s.data, Power)
      /\ x \in IF Cardinality(choices) > 1
                 THEN {set(c.profile, c.value) : c \in {d \in choices : EnoughRenewable(s)}}
               ELSE {set(c.profile, c.value) : c \in {d \in choices : News(s, d.profile) /\ EnoughRenewable(s)}} \cup
                    {set(SteppedDown(c.profile), Good) :
                       c \in {d \in choices : /\ ~EnoughRenewable(s) /\ CurrentProfile(s) # "None"
                                              /\ SteppedDown(d.profile) # CurrentProfile(s)}}
  BY DEF PowerNextState
<1> HIDE DEF objectives, onlyPower, choices
<1>4. PICK p, v : /\ x = set(p, v)
                  /\ \/ Cardinality(choices) > 1 /\ p \in Elements(PowerProfiles)
                     \/ News(s, p)
                     \/ p \in Elements(PowerProfiles) /\ p # CurrentProfile(s)
  <2>1. CASE Cardinality(choices) > 1
    BY <1>1, <1>3, <2>1
  <2>2. CASE x \in {set(c.profile, c.value) : c \in {d \in choices : News(s, d.profile) /\ EnoughRenewable(s)}}
    BY <2>2
  <2>3. CASE x \in {set(SteppedDown(c.profile), Good) :
                      c \in {d \in choices : /\ ~EnoughRenewable(s) /\ CurrentProfile(s) # "None"
                                             /\ SteppedDown(d.profile) # CurrentProfile(s)}}
    BY <2>3, SteppedDownIn
  <2> QED
    BY <1>3, <2>1, <2>2, <2>3
<1>5. ~config.proactive => CurrentProfile(s) # p \/ Outgrown(s)
  BY <1>1, <1>4 DEF News
<1>6. x.state = PowerMarked(s, objectives, v) /\ x.action = PowerAction(p)
  BY <1>4
<1>7. p \in Elements(PowerProfiles)
  BY <1>4, CurrentIn DEF News
<1> QED
  BY <1>3, <1>5, <1>6, <1>7, PowerMarkedOK

-----------------------------------------------------------------------------
(* What arrives of the answers of a plugin. *)

LEMMA ActionSent ==
  ASSUME NEW a \in Actions
  PROVE  toAction(deliveredAction(toGrpcAction(a))) = a
<1>1. PICK n, m : /\ a = [name |-> n, kind |-> "str", properties |-> m]
                  /\ DOMAIN m # {}
  <2>1. ASSUME NEW o, a = RdtAction(o)
        PROVE  \E n, m : a = [name |-> n, kind |-> "str", properties |-> m] /\ DOMAIN m # {}
    <3>1. "option" \in DOMAIN [option |-> o]
      OBVIOUS
    <3>2. DOMAIN [option |-> o] # {}
      BY <3>1
    <3> QED
      BY <2>1, <3>2, Zenon DEF RdtAction
  <2>2. ASSUME NEW p, a = PowerAction(p)
        PROVE  \E n, m : a = [name |-> n, kind |-> "str", properties |-> m] /\ DOMAIN m # {}
    <3>1. "profile" \in DOMAIN [profile |-> p]
      OBVIOUS
    <3>2. DOMAIN [profile |-> p] # {}
      BY <3>1
    <3> QED
      BY <2>2, <3>2, Zenon DEF PowerAction
  <2> QED
    BY <2>1, <2>2, Zenon DEF Actions
<1>2. Delivered(m) = m
  BY <1>1, EmptyIn DEF Delivered
<1>3. toGrpcAction(a) = [name |-> n, type |-> "str", ints |-> Nil, strs |-> m]
  BY <1>1 DEF toGrpcAction
<1> QED
  BY <1>1, <1>2, <1>3 DEF toAction, deliveredAction

LEMMA OptionSent ==
  ASSUME NEW o \in Elements(Options)
  PROVE  toAction(deliveredAction(toGrpcAction(RdtAction(o)))) = RdtAction(o)
BY ActionSent DEF Actions

LEMMA ProfileSent ==
  ASSUME NEW p \in Elements(PowerProfiles)
  PROVE  toAction(deliveredAction(toGrpcAction(PowerAction(p)))) = PowerAction(p)
BY ActionSent DEF Actions

LEMMA Answered ==
  ASSUME NEW s, NEW g, NEW profs, NEW a, NEW answer,
         NEW x \in RemoteNextState(a, NextStateRequest(s, g, profs), answer)
  PROVE  \E goals, known : \E y \in NextStateOf(a, Sent(s), goals, known, answer) :
           /\ x.state = Sent(y.state)
           /\ x.action = toAction(deliveredAction(toGrpcAction(y.action)))
<1> DEFINE r == NextStateRequest(s, g, profs)
<1>1. r.state = Sent(s)
  BY DEF NextStateRequest, Sent
<1> HIDE DEF r
<1>2. PICK y \in NextStateOf(a, r.state, r.goal, r.profiles, answer) :
        x = [state |-> Sent(y.state), action |-> toAction(deliveredAction(toGrpcAction(y.action)))]
  BY DEF RemoteNextState, NextStateResponse, Sent, r
<1> QED
  BY <1>1, <1>2

LEMMA RdtAnswers ==
  ASSUME NEW s, StateOK(s), NEW g, NEW profs, NEW answer,
         NEW x \in RemoteNextState(RDT, NextStateRequest(s, g, profs), answer)
  PROVE  /\ StateOK(x.state)
         /\ ~Has(s.annotations, RdtVisited)
         /\ \E o \in Elements(Options) : x.action = RdtAction(o) /\ o # CurrentOption(s)
         /\ x.action # RdtAction("None") => Has(x.state.annotations, RdtVisited)
         /\ Has(x.state.annotations, RdtAnnotation) <=> Has(s.annotations, RdtAnnotation)
         /\ CurrentOption(x.state) = CurrentOption(s)
         /\ DOMAIN Entries(x.state.data) = DOMAIN Entries(s.data)
         /\ Entries(x.state.resources) = Entries(s.resources)
         /\ x.state.resources = Entries(x.state.resources)
<1>1. PICK goals, known : \E y \in RdtNextState(Sent(s), goals, known, answer) :
           /\ x.state = Sent(y.state)
           /\ x.action = toAction(deliveredAction(toGrpcAction(y.action)))
  BY Answered DEF NextStateOf
<1>2. PICK y \in RdtNextState(Sent(s), goals, known, answer) :
           /\ x.state = Sent(y.state)
           /\ x.action = toAction(deliveredAction(toGrpcAction(y.action)))
  BY <1>1
<1> DEFINE r == Sent(s)
<1>3. StateOK(r) /\ Like(r, s)
  BY SentOK
<1>4. /\ \A k : Has(r.annotations, k) <=> Has(s.annotations, k)
      /\ CurrentOption(r) = CurrentOption(s)
  BY <1>3, SameOption DEF Like
<1> HIDE DEF r
<1>5. /\ StateOK(y.state)
      /\ ~Has(r.annotations, RdtVisited)
      /\ \E o \in Elements(Options) : y.action = RdtAction(o) /\ o # CurrentOption(r)
      /\ y.action # RdtAction("None") => Has(y.state.annotations, RdtVisited)
      /\ Has(y.state.annotations, RdtAnnotation) <=> Has(r.annotations, RdtAnnotation)
      /\ CurrentOption(y.state) = CurrentOption(r)
      /\ DOMAIN Entries(y.state.data) = DOMAIN Entries(r.data)
      /\ y.state.resources = r.resources
  BY <1>3, RdtStates DEF r
<1>6. /\ StateOK(x.state) /\ Like(x.state, y.state) /\ x.state.resources = Entries(y.state.resources)
  BY <1>2, <1>5, SentOK
<1>7. /\ \A k : Has(x.state.annotations, k) <=> Has(y.state.annotations, k)
      /\ CurrentOption(x.state) = CurrentOption(y.state)
  BY <1>6, SameOption DEF Like
<1>8. x.action = y.action
  BY <1>2, <1>5, OptionSent
<1>9. Entries(x.state.resources) = Entries(s.resources) /\ x.state.resources = Entries(x.state.resources)
  BY <1>3, <1>5, <1>6, Delivery DEF Like
<1>10. DOMAIN Entries(x.state.data) = DOMAIN Entries(s.data)
  BY <1>3, <1>5, <1>6 DEF Like
<1> QED
  BY <1>4, <1>5, <1>6, <1>7, <1>8, <1>9, <1>10

LEMMA PowerAnswers ==
  ASSUME NEW s, StateOK(s), NEW g, NEW profs, NEW answer,
         NEW x \in RemoteNextState(Power, NextStateRequest(s, g, profs), answer)
  PROVE  /\ StateOK(x.state)
         /\ ~Has(s.data, Power) /\ Has(x.state.data, Power)
         /\ \A k : Has(x.state.annotations, k) <=> Has(s.annotations, k)
         /\ CurrentOption(x.state) = CurrentOption(s)
         /\ Entries(x.state.resources) = Entries(s.resources)
         /\ x.state.resources = Entries(x.state.resources)
         /\ \E p \in Elements(PowerProfiles) :
              /\ x.action = PowerAction(p)
              /\ ~config.proactive => CurrentProfile(Sent(s)) # p \/ Outgrown(Sent(s))
<1>1. Power # RDT
  BY DEF Power, RDT
<1>2. PICK goals, known : \E y \in PowerNextState(Sent(s), goals, known, answer) :
           /\ x.state = Sent(y.state)
           /\ x.action = toAction(deliveredAction(toGrpcAction(y.action)))
  BY <1>1, Answered DEF NextStateOf
<1>3. PICK y \in PowerNextState(Sent(s), goals, known, answer) :
           /\ x.state = Sent(y.state)
           /\ x.action = toAction(deliveredAction(toGrpcAction(y.action)))
  BY <1>2
<1> DEFINE r == Sent(s)
<1>4. StateOK(r) /\ Like(r, s)
  BY SentOK
<1> HIDE DEF r
<1>5. /\ StateOK(y.state)
      /\ ~Has(r.data, Power) /\ Has(y.state.data, Power)
      /\ y.state.annotations = r.annotations /\ y.state.resources = r.resources
      /\ \E p \in Elements(PowerProfiles) :
           /\ y.action = PowerAction(p)
           /\ ~config.proactive => CurrentProfile(r) # p \/ Outgrown(r)
  BY <1>4, PowerStates DEF r
<1>6. /\ StateOK(x.state) /\ Like(x.state, y.state) /\ x.state.resources = Entries(y.state.resources)
  BY <1>3, <1>5, SentOK
<1>7. Entries(x.state.annotations) = Entries(s.annotations)
  BY <1>4, <1>5, <1>6 DEF Like
<1>8. /\ \A k : Has(x.state.annotations, k) <=> Has(s.annotations, k)
      /\ CurrentOption(x.state) = CurrentOption(s)
  BY <1>7, SameOption
<1>9. x.action = y.action
  BY <1>3, <1>5, ProfileSent
<1>10. Entries(x.state.resources) = Entries(s.resources) /\ x.state.resources = Entries(x.state.resources)
  BY <1>4, <1>5, <1>6, Delivery DEF Like
<1>11. ~Has(s.data, Power) /\ Has(x.state.data, Power)
  BY <1>4, <1>5, <1>6 DEF Like, Has
<1> QED
  BY <1>5, <1>6, <1>8, <1>9, <1>10, <1>11 DEF r

-----------------------------------------------------------------------------
(* What the controller sees of the PODs. *)

LEMMA Listed ==
  ASSUME ClusterInv, NEW listed \in Listings, listed # Nil
  PROVE  /\ listed \in Seq({PodRecord(p) : p \in DOMAIN running})
         /\ \A p \in DOMAIN running : \E i \in DOMAIN listed : listed[i] = PodRecord(p)
<1>1. PICK order \in [1 .. Cardinality(DOMAIN running) -> DOMAIN running] :
        Elements(order) = DOMAIN running /\ listed = [i \in DOMAIN order |-> PodRecord(order[i])]
  BY DEF Listings
<1>2. Cardinality(DOMAIN running) \in Nat
  <2>1. IsFiniteSet(DOMAIN running)
    BY PlatformAssumption, FS_Subset DEF ClusterInv
  <2> QED
    BY <2>1, FS_CardinalityType
<1>3. listed \in Seq({PodRecord(p) : p \in DOMAIN running})
  <2> DEFINE R == {PodRecord(p) : p \in DOMAIN running}
  <2>1. \A i \in 1 .. Cardinality(DOMAIN running) : PodRecord(order[i]) \in R
    BY <1>1
  <2>2. PICK n \in Nat : n = Cardinality(DOMAIN running)
    BY <1>2
  <2>3. listed \in [1 .. n -> R]
    <3> HIDE DEF R
    <3> QED
      BY <1>1, <2>1, <2>2
  <2> HIDE DEF R
  <2>4. listed \in Seq(R)
    BY <2>3
  <2> QED
    BY <2>4 DEF R
<1>4. ASSUME NEW p \in DOMAIN running PROVE \E i \in DOMAIN listed : listed[i] = PodRecord(p)
  <2>1. PICK i \in DOMAIN order : order[i] = p
    BY <1>1 DEF Elements
  <2> QED
    BY <1>1, <2>1
<1> QED
  BY <1>3, <1>4

\* The annotations and the resources in a state are those of some POD.
LEMMA AnnotationsSeen ==
  ASSUME NEW R, NEW listed \in Seq(R)
  PROVE  \/ getAnnotations(listed) = Nil /\ (listed = <<>> \/ AnnotationCount(listed[1]) = 0)
         \/ \E i \in DOMAIN listed : getAnnotations(listed) = listed[i].annotations
<1> DEFINE last  == {i \in DOMAIN listed : \A j \in i .. Len(listed) :
                       AnnotationCount(listed[j]) = AnnotationCount(listed[Len(listed)])}
           first == CHOOSE i \in last : \A j \in last : i <= j
<1> SUFFICES ASSUME listed # <<>>
             PROVE  \/ getAnnotations(listed) = Nil /\ AnnotationCount(listed[1]) = 0
                    \/ \E i \in DOMAIN listed : getAnnotations(listed) = listed[i].annotations
  BY DEF getAnnotations
<1>1. Len(listed) \in Nat /\ Len(listed) >= 1 /\ DOMAIN listed = 1 .. Len(listed)
  OBVIOUS
<1>2. last # {} /\ last \in SUBSET Nat /\ last \subseteq DOMAIN listed
  <2>1. Len(listed) \in last
    BY <1>1
  <2> QED
    BY <1>1, <2>1
<1>3. first \in last
  <2> HIDE DEF last
  <2>1. \E i \in last : \A j \in last : i <= j
    BY <1>2, Least
  <2> QED
    BY <2>1
<1>4. getAnnotations(listed) = IF listed = <<>> \/ (first = 1 /\ AnnotationCount(listed[1]) = 0) THEN Nil
                               ELSE listed[first].annotations
  BY DEF getAnnotations
<1> HIDE DEF first, last
<1> QED
  BY <1>2, <1>3, <1>4

LEMMA ResourcesSeen ==
  ASSUME NEW R, NEW listed \in Seq(R)
  PROVE  \/ getPodResources(listed) = Empty /\ \A i \in DOMAIN listed : listed[i].resources = Empty
         \/ \E i \in DOMAIN listed : getPodResources(listed) = listed[i].resources
<1> DEFINE having == {i \in DOMAIN listed : listed[i].resources # Empty}
           first  == CHOOSE i \in having : \A j \in having : i <= j
<1>1. having # {} => first \in having
  <2>1. having \in SUBSET Nat
    OBVIOUS
  <2> HIDE DEF having
  <2>2. having # {} => \E i \in having : \A j \in having : i <= j
    BY <2>1, Least
  <2> QED
    BY <2>2
<1>2. getPodResources(listed) = IF having = {} THEN Empty ELSE listed[first].resources
  BY DEF getPodResources
<1>3. /\ having \subseteq DOMAIN listed
      /\ having = {} => \A i \in DOMAIN listed : listed[i].resources = Empty
  OBVIOUS
<1> HIDE DEF first, having
<1> QED
  BY <1>1, <1>2, <1>3

\* PODs with the same annotations: without any, a nil map may be seen instead.
LEMMA SameAnnotationsSeen ==
  ASSUME NEW R, NEW listed \in Seq(R), listed # <<>>, NEW a \in AnnotationMaps,
         \A i \in DOMAIN listed : listed[i].annotations = a
  PROVE  getAnnotations(listed) = a \/ (getAnnotations(listed) = Nil /\ DOMAIN a = {})
<1>1. CASE \E i \in DOMAIN listed : getAnnotations(listed) = listed[i].annotations
  BY <1>1
<1>2. CASE getAnnotations(listed) = Nil /\ AnnotationCount(listed[1]) = 0
  <2>1. listed[1].annotations = a
    OBVIOUS
  <2>2. Entries(a) = a
    BY NilAssumption DEF Entries
  <2>3. Cardinality(DOMAIN a) = 0
    BY <1>2, <2>1, <2>2 DEF AnnotationCount
  <2>4. IsFiniteSet(DOMAIN a)
    <3> DEFINE KK == {"other", RdtAnnotation, RdtVisited}
               V == {"x", ""} \cup Elements(Options)
    <3>1. DOMAIN a \subseteq KK
      <4>1. a \in MapsOf(KK, V)
        BY DEF AnnotationMaps
      <4> HIDE DEF KK, V
      <4> QED
        BY <4>1, MapIn, Zenon
    <3>2. IsFiniteSet(KK)
      <4>1. IsFiniteSet({}) /\ \A S, x : IsFiniteSet(S) => IsFiniteSet(S \cup {x})
        BY FS_EmptySet, FS_AddElement
      <4>2. IsFiniteSet((({} \cup {"other"}) \cup {RdtAnnotation}) \cup {RdtVisited})
        BY <4>1
      <4>3. KK = (({} \cup {"other"}) \cup {RdtAnnotation}) \cup {RdtVisited}
        OBVIOUS
      <4> QED
        BY <4>2, <4>3
    <3> HIDE DEF KK
    <3> QED
      BY <3>1, <3>2, FS_Subset
  <2>5. DOMAIN a = {}
    BY <2>3, <2>4, FS_EmptySet
  <2> QED
    BY <1>2, <2>5
<1> QED
  BY <1>1, <1>2, AnnotationsSeen

-----------------------------------------------------------------------------
(* What a step of planning says of the template.                             *)

\* Two states with the same resources have the same profile and units.
LEMMA SameProfile ==
  ASSUME NEW s, NEW t, s.resources = t.resources
  PROVE  CurrentProfile(s) = CurrentProfile(t) /\ (Outgrown(s) <=> Outgrown(t))
<1>1. ProfileKeys(s) = ProfileKeys(t)
  BY DEF ProfileKeys
<1>2. ProfileKey(s) = ProfileKey(t)
  BY <1>1 DEF ProfileKey
<1> QED
  BY <1>1, <1>2 DEF CurrentProfile, Outgrown

LEMMA ResourcesThere ==
  ASSUME NEW t \in Templates
  PROVE  Entries(ResourcesOf(t)) = ResourcesOf(t)
BY NilAssumption DEF Templates, ResourcesOf, Entries

\* An actuator's answer to a state that shows a template changes the template,
\* and the next state shows it again.
LEMMA RdtShows ==
  ASSUME NEW s, StateOK(s), NEW g, NEW profs, NEW answer,
         NEW x \in RemoteNextState(RDT, NextStateRequest(s, g, profs), answer),
         NEW t \in Templates, Shows(s, t)
  PROVE  Shows(x.state, t) /\ Changes(x.action, t)
<1>1. RDT # Power
  BY DEF RDT, Power
<1>2. /\ Has(x.state.annotations, RdtAnnotation) <=> Has(s.annotations, RdtAnnotation)
      /\ CurrentOption(x.state) = CurrentOption(s)
      /\ Entries(x.state.resources) = Entries(s.resources)
      /\ x.state.resources = Entries(x.state.resources)
  BY RdtAnswers
<1>3. PICK o : x.action = RdtAction(o) /\ o # CurrentOption(s)
  BY RdtAnswers
<1>4. x.state.resources = ResourcesOf(t)
  <2>1. Entries(s.resources) = ResourcesOf(t)
    BY ResourcesThere DEF Shows
  <2> QED
    BY <1>2, <2>1
<1>5. Shows(x.state, t)
  BY <1>2, <1>4 DEF Shows
<1>6. x.action.name = RDT /\ x.action.properties.option = o
  BY <1>3 DEF RdtAction
<1>7. Changes(x.action, t)
  BY <1>1, <1>3, <1>6 DEF Changes, Shows
<1> QED
  BY <1>5, <1>7

LEMMA PowerShows ==
  ASSUME NEW s, StateOK(s), NEW g, NEW profs, NEW answer,
         NEW x \in RemoteNextState(Power, NextStateRequest(s, g, profs), answer),
         NEW t \in Templates, Shows(s, t)
  PROVE  Shows(x.state, t) /\ Changes(x.action, t)
<1>1. RDT # Power
  BY DEF RDT, Power
<1>2. /\ Has(x.state.annotations, RdtAnnotation) <=> Has(s.annotations, RdtAnnotation)
      /\ CurrentOption(x.state) = CurrentOption(s)
      /\ Entries(x.state.resources) = Entries(s.resources)
      /\ x.state.resources = Entries(x.state.resources)
  BY PowerAnswers
<1>3. PICK p : /\ x.action = PowerAction(p)
               /\ ~config.proactive => CurrentProfile(Sent(s)) # p \/ Outgrown(Sent(s))
  BY PowerAnswers
<1>4. Entries(s.resources) = ResourcesOf(t)
  BY ResourcesThere DEF Shows
<1>5. Shows(x.state, t)
  BY <1>2, <1>4 DEF Shows
<1>6. x.action.name = Power /\ x.action.properties.profile = p
  BY <1>3 DEF PowerAction
<1>7. ASSUME ~config.proactive
      PROVE  CurrentProfile([resources |-> ResourcesOf(t)]) # p \/ Outgrown([resources |-> ResourcesOf(t)])
  <2>1. PICK r : r = [resources |-> ResourcesOf(t)]
    OBVIOUS
  <2>2. Sent(s).resources = r.resources
    BY <1>4, <1>7, <2>1, SentOK
  <2>3. CurrentProfile(Sent(s)) = CurrentProfile(r) /\ (Outgrown(Sent(s)) <=> Outgrown(r))
    BY <2>2, SameProfile
  <2> QED
    BY <1>3, <1>7, <2>1, <2>3
<1>8. Changes(x.action, t)
  BY <1>1, <1>6, <1>7 DEF Changes
<1> QED
  BY <1>5, <1>8

LEMMA PlanSent ==
  ASSUME NEW path \in Seq(Actions)
  PROVE  PerformRequest(path) = path
<1>1. \A i \in DOMAIN path : toAction(deliveredAction(toGrpcAction(path[i]))) = path[i]
  BY ActionSent
<1>2. path = [i \in DOMAIN path |-> path[i]]
  OBVIOUS
<1> QED
  BY <1>1, <1>2 DEF PerformRequest

-----------------------------------------------------------------------------
(* Templates. *)

LEMMA MapWith ==
  ASSUME NEW KK, NEW V, NEW m \in MapsOf(KK, V), NEW k \in KK, NEW v \in V, NEW removed
  PROVE  With(m, k, v) \in MapsOf(KK, V) /\ Without(m, removed) \in MapsOf(KK, V)
<1>1. m \in [DOMAIN m -> V] /\ DOMAIN m \subseteq KK
  BY MapIn, Zenon
<1>2. PICK w : w = With(m, k, v)
  OBVIOUS
<1>3. w \in [DOMAIN w -> V] /\ DOMAIN w \subseteq KK
  BY <1>1, <1>2 DEF With
<1>4. PICK o : o = Without(m, removed)
  OBVIOUS
<1>5. o \in [DOMAIN o -> V] /\ DOMAIN o \subseteq KK
  BY <1>1, <1>4 DEF Without
<1> QED
  BY <1>2, <1>3, <1>4, <1>5, MapIn, Zenon

LEMMA AnnotationsWith ==
  ASSUME NEW m \in AnnotationMaps, NEW o \in Elements(Options)
  PROVE  /\ With(m, RdtAnnotation, o) \in AnnotationMaps
         /\ Without(m, {RdtAnnotation}) \in AnnotationMaps
<1> DEFINE KK == {"other", RdtAnnotation, RdtVisited}
           V == {"x", ""} \cup Elements(Options)
<1>1. m \in MapsOf(KK, V) /\ RdtAnnotation \in KK /\ o \in V
  BY DEF AnnotationMaps
<1> HIDE DEF KK, V
<1>2. With(m, RdtAnnotation, o) \in MapsOf(KK, V) /\ Without(m, {RdtAnnotation}) \in MapsOf(KK, V)
  BY <1>1, MapWith
<1> QED
  BY <1>2 DEF AnnotationMaps, KK, V

LEMMA ResourcesWith ==
  ASSUME NEW m \in ResourceMaps, NEW k \in ResourceNames, NEW v \in {1, 2},
         NEW removed
  PROVE  With(m, k, v) \in ResourceMaps /\ Without(m, removed) \in ResourceMaps
<1> DEFINE KK == ResourceNames
           V == {1, 2}
<1>1. m \in MapsOf(KK, V) /\ k \in KK /\ v \in V
  BY DEF ResourceMaps
<1> HIDE DEF KK, V
<1>2. With(m, k, v) \in MapsOf(KK, V) /\ Without(m, removed) \in MapsOf(KK, V)
  BY <1>1, MapWith
<1> QED
  BY <1>2 DEF ResourceMaps, KK, V

LEMMA Unit ==
  ASSUME NEW m \in ResourceMaps, "cpu" \in DOMAIN m
  PROVE  m["cpu"] \in {1, 2}
<1> DEFINE KK == ResourceNames
           V == {1, 2}
<1>1. m \in MapsOf(KK, V)
  BY DEF ResourceMaps
<1> HIDE DEF KK, V
<1>2. m \in [DOMAIN m -> V]
  BY <1>1, MapIn, Zenon
<1> QED
  BY <1>2 DEF V

LEMMA TemplateFields ==
  ASSUME NEW t \in Templates
  PROVE  /\ t = [annotations |-> t.annotations, requests |-> t.requests, limits |-> t.limits]
         /\ t.annotations \in AnnotationMaps \cup {Nil}
         /\ t.requests \in ResourceMaps \cup {Nil} /\ t.limits \in ResourceMaps
         /\ IF t.requests = Nil THEN DOMAIN t.limits = {"cpu"} ELSE "cpu" \in DOMAIN t.requests
         /\ "cpu" \in DOMAIN t.limits
BY DEF Templates

LEMMA TemplateOf ==
  ASSUME NEW a \in AnnotationMaps \cup {Nil}, NEW r \in ResourceMaps \cup {Nil}, NEW l \in ResourceMaps,
         IF r = Nil THEN DOMAIN l = {"cpu"} ELSE "cpu" \in DOMAIN r, "cpu" \in DOMAIN l
  PROVE  [annotations |-> a, requests |-> r, limits |-> l] \in Templates
BY DEF Templates

LEMMA NewResources ==
  ASSUME NEW t \in Templates, NEW r, NEW l
  PROVE  [t EXCEPT !.requests = r, !.limits = l] =
           [annotations |-> t.annotations, requests |-> r, limits |-> l]
<1>1. PICK u : u = [t EXCEPT !.requests = r]
  OBVIOUS
<1>2. [t EXCEPT !.requests = r, !.limits = l] = [u EXCEPT !.limits = l]
  BY <1>1
<1>3. u = [annotations |-> t.annotations, requests |-> r, limits |-> t.limits]
  BY <1>1, TemplateFields
<1> QED
  BY <1>2, <1>3

\* What the actions of a plan for an actuator look like.
LEMMA ActionFields ==
  ASSUME RoundInv, NEW i \in DOMAIN round.path
  PROVE  /\ round.path[i].name = RDT =>
              /\ round.path[i].properties.option \in Elements(Options) \cup {"None"}
              /\ round.path[i] = RdtAction(round.path[i].properties.option)
         /\ round.path[i].name = Power =>
              /\ round.path[i].properties.profile \in Elements(PowerProfiles)
              /\ round.path[i] = PowerAction(round.path[i].properties.profile)
<1>1. PICK a \in Actions : a = round.path[i]
  BY DEF RoundInv
<1>2. CASE \E o \in Elements(Options) \cup {"None"} : a = RdtAction(o)
  BY <1>1, <1>2 DEF RdtAction, RDT, Power
<1>3. CASE \E p \in Elements(PowerProfiles) : a = PowerAction(p)
  BY <1>1, <1>3 DEF PowerAction, RDT, Power
<1> QED
  BY <1>1, <1>2, <1>3 DEF Actions

LEMMA ExtremeActions ==
  ASSUME RoundInv, NEW a, Mine(a) # {}
  PROVE  /\ (CHOOSE i \in Mine(a) : \A j \in Mine(a) : i >= j) \in Mine(a)
         /\ (CHOOSE i \in Mine(a) : \A j \in Mine(a) : i <= j) \in Mine(a)
<1>1. DOMAIN round.path = 1 .. Len(round.path) /\ Len(round.path) \in Nat
  BY DEF RoundInv
<1>2. Mine(a) \in SUBSET (1 .. Len(round.path)) /\ Mine(a) \in SUBSET Nat
  BY <1>1 DEF Mine
<1>3. \E i \in Mine(a) : \A j \in Mine(a) : i >= j
  BY <1>1, <1>2, Greatest
<1>4. \E i \in Mine(a) : \A j \in Mine(a) : i <= j
  BY <1>2, Least
<1> QED
  BY <1>3, <1>4

\* The template with another option.
LEMMA RdtUpdatedOK ==
  ASSUME RoundInv, template \in Templates, Mine(RDT) # {}
  PROVE  /\ RdtUpdated \in Templates
         /\ \E i \in Mine(RDT) : AskedOption = round.path[i].properties.option
<1> DEFINE last == CHOOSE i \in Mine(RDT) : \A j \in Mine(RDT) : i >= j
<1>1. PICK i \in Mine(RDT) : i = last
  BY ExtremeActions
<1>2. i \in DOMAIN round.path /\ round.path[i].name = RDT
  BY DEF Mine
<1>3. PICK o \in Elements(Options) \cup {"None"} : o = round.path[i].properties.option
  BY <1>2, ActionFields
<1> DEFINE a == IF o # "None" THEN With(template.annotations, RdtAnnotation, o)
                ELSE Without(template.annotations, {RdtAnnotation})
<1>4. RdtUpdated = IF template.annotations = Nil THEN template
                   ELSE [template EXCEPT !.annotations = a]
  BY <1>1, <1>3 DEF RdtUpdated, AskedOption
<1>5. CASE template.annotations = Nil
  BY <1>1, <1>4, <1>5 DEF AskedOption
<1>6. CASE template.annotations # Nil
  <2>1. template.annotations \in AnnotationMaps
    BY <1>6, TemplateFields
  <2>2. a \in AnnotationMaps
    <3>1. CASE o # "None"
      BY <2>1, <3>1, AnnotationsWith
    <3>2. CASE o = "None"
      <4>1. Options[1] \in Elements(Options)
        BY DEF Elements
      <4> QED
        BY <2>1, <3>2, <4>1, AnnotationsWith
    <3> QED
      BY <3>1, <3>2
  <2> HIDE DEF a
  <2>5. RdtUpdated = [annotations |-> a, requests |-> template.requests, limits |-> template.limits]
    BY <1>4, <1>6, TemplateFields
  <2>6. RdtUpdated \in Templates
    BY <2>2, <2>5, TemplateFields, TemplateOf
  <2> QED
    BY <1>1, <2>6 DEF AskedOption
<1> QED
  BY <1>5, <1>6

\* The template with another profile, or with none.
LEMMA PowerUpdatedOK ==
  ASSUME RoundInv, template \in Templates, Mine(Power) # {}, PowerCan
  PROVE  /\ PowerUpdated \in Templates
         /\ \E i \in Mine(Power) : AskedProfile = round.path[i].properties.profile
         /\ template.requests # Nil =>
              /\ PowerUpdated.requests # Nil
              /\ ~Outgrown([resources |-> PowerUpdated.requests])
              /\ TellApart => CurrentProfile([resources |-> PowerUpdated.requests]) = AskedProfile
<1>1. PICK i \in Mine(Power) : AskedProfile = round.path[i].properties.profile
  BY ExtremeActions DEF AskedProfile
<1>2. i \in DOMAIN round.path /\ round.path[i].name = Power
  BY DEF Mine
<1>3. PICK p \in Elements(PowerProfiles) : p = AskedProfile
  BY <1>1, <1>2, ActionFields
<1>4. ASSUME NEW m \in ResourceMaps, "cpu" \in DOMAIN m
      PROVE  /\ Without(m, Elements(PowerProfiles)) \in ResourceMaps
             /\ DOMAIN Without(m, Elements(PowerProfiles)) = {"cpu"}
             /\ Without(m, Elements(PowerProfiles))["cpu"] = m["cpu"]
  <2>1. Without(m, Elements(PowerProfiles)) \in ResourceMaps
    <3>1. "cpu" \in ResourceNames
      BY DEF ResourceNames
    <3> QED
      BY <3>1, ResourcesWith
  <2>2. DOMAIN m \subseteq ResourceNames
    <3> DEFINE V == {1, 2}
    <3>1. m \in MapsOf(ResourceNames, V)
      BY DEF ResourceMaps
    <3> HIDE DEF V
    <3> QED
      BY <3>1, MapIn, Zenon
  <2>3. "cpu" \notin Elements(PowerProfiles)
    BY ContainsAssumption
  <2>4. DOMAIN Without(m, Elements(PowerProfiles)) = {"cpu"}
    BY <1>4, <2>2, <2>3 DEF Without, ResourceNames
  <2> QED
    BY <1>4, <2>1, <2>3, <2>4 DEF Without
<1>5. CASE template.requests = Nil
  <2>1. p = "None"
    BY <1>3, <1>5 DEF PowerCan
  <2>2. PICK l : l = Without(template.limits, Elements(PowerProfiles))
    OBVIOUS
  <2>3. template.limits # Nil
    BY TemplateFields, NilAssumption
  <2>4. PowerUpdated = [template EXCEPT !.requests = Nil, !.limits = l]
    BY <1>3, <1>5, <2>1, <2>2, <2>3 DEF PowerUpdated
  <2>5. l \in ResourceMaps /\ DOMAIN l = {"cpu"}
    BY <1>4, <2>2, TemplateFields
  <2>6. PowerUpdated = [annotations |-> template.annotations, requests |-> Nil, limits |-> l]
    BY <2>4, NewResources
  <2>7. PowerUpdated \in Templates
    BY <2>5, <2>6, TemplateFields, TemplateOf
  <2> QED
    BY <1>1, <1>5, <2>7
<1>6. CASE template.requests # Nil
  <2>1. PICK unit \in {1, 2} : unit = template.requests["cpu"]
    BY <1>6, TemplateFields, Unit
  <2> DEFINE having(m) == IF p = "None" THEN Without(m, Elements(PowerProfiles))
                          ELSE With(Without(m, Elements(PowerProfiles)), p, unit)
             r == having(template.requests)
             l == having(template.limits)
  <2>2. template.requests \in ResourceMaps /\ template.limits \in ResourceMaps
        /\ "cpu" \in DOMAIN template.requests /\ "cpu" \in DOMAIN template.limits
        /\ template.limits # Nil
    BY <1>6, TemplateFields, NilAssumption
  <2>3. PowerUpdated = [template EXCEPT !.requests = r, !.limits = l]
    BY <1>3, <1>6, <2>1, <2>2 DEF PowerUpdated
  <2>4. ASSUME NEW m \in ResourceMaps, "cpu" \in DOMAIN m
        PROVE  having(m) \in ResourceMaps /\ DOMAIN having(m) = {"cpu"} \cup ({p} \ {"None"})
    <3>1. PICK n : n = Without(m, Elements(PowerProfiles))
      OBVIOUS
    <3>2. n \in ResourceMaps /\ DOMAIN n = {"cpu"}
      BY <1>4, <2>4, <3>1
    <3>3. CASE p = "None"
      BY <3>1, <3>2, <3>3
    <3>4. CASE p # "None"
      <4>1. p \in ResourceNames
        BY <3>4 DEF ResourceNames
      <4>2. With(n, p, unit) \in ResourceMaps
        BY <3>2, <4>1, ResourcesWith
      <4>3. DOMAIN With(n, p, unit) = {"cpu", p}
        BY <3>2 DEF With
      <4> QED
        BY <3>1, <3>4, <4>2, <4>3
    <3> QED
      BY <3>3, <3>4
  <2>5. /\ r \in ResourceMaps /\ DOMAIN r = {"cpu"} \cup ({p} \ {"None"})
        /\ l \in ResourceMaps /\ "cpu" \in DOMAIN l
    <3> HIDE DEF having
    <3>1. r \in ResourceMaps /\ DOMAIN r = {"cpu"} \cup ({p} \ {"None"})
      BY <2>2, <2>4, Zenon
    <3>2. l \in ResourceMaps /\ DOMAIN l = {"cpu"} \cup ({p} \ {"None"})
      BY <2>2, <2>4, Zenon
    <3> QED
      BY <3>1, <3>2
  <2>6. r["cpu"] = unit /\ (p # "None" => r[p] = unit)
    <3>1. PICK n : n = Without(template.requests, Elements(PowerProfiles))
      OBVIOUS
    <3>2. DOMAIN n = {"cpu"} /\ n["cpu"] = unit
      BY <1>4, <2>1, <2>2, <3>1
    <3>3. r = IF p = "None" THEN n ELSE With(n, p, unit)
      BY <3>1
    <3> QED
      BY <3>2, <3>3 DEF With
  <2> HIDE DEF having, r, l
  <2>7. PowerUpdated = [annotations |-> template.annotations, requests |-> r, limits |-> l]
    BY <2>3, NewResources
  <2>8. r # Nil /\ Entries(r) = r
    BY <2>5, NilAssumption DEF Entries
  <2>9. PowerUpdated \in Templates
    BY <2>5, <2>7, <2>8, TemplateFields, TemplateOf
  <2>10. PICK s : s = [resources |-> r]
    OBVIOUS
  <2>11. ProfileKeys(s) = {p} \ {"None"}
    <3>1. DOMAIN Entries(s.resources) = {"cpu"} \cup ({p} \ {"None"})
      BY <2>5, <2>8, <2>10
    <3>2. \A q : <<"cpu", q>> \notin Contains
      BY ContainsAssumption
    <3>3. p # "None" => <<p, p>> \in Contains
      BY ContainsAssumption
    <3> QED
      BY <3>1, <3>2, <3>3 DEF ProfileKeys
  <2>12. CASE p = "None"
    <3>1. ProfileKeys(s) = {}
      BY <2>11, <2>12
    <3>2. CurrentProfile(s) = p /\ ~Outgrown(s)
      BY <2>12, <3>1 DEF CurrentProfile, Outgrown
    <3> QED
      BY <1>1, <1>3, <2>7, <2>8, <2>9, <2>10, <3>2
  <2>13. CASE p # "None"
    <3>1. ProfileKeys(s) = {p}
      BY <2>11, <2>13
    <3>2. ProfileKey(s) = p
      BY <3>1 DEF ProfileKey
    <3>3. ~Outgrown(s)
      <4>1. Has(s.resources, "cpu") /\ s.resources = r
        BY <2>5, <2>8, <2>10 DEF Has
      <4> QED
        BY <2>6, <2>13, <3>2, <4>1 DEF Outgrown
    <3>4. TellApart => CurrentProfile(s) = p
      <4>1. <<p, p>> \in Contains
        BY <2>13, ContainsAssumption
      <4>2. TellApart => ProfileIn(p) = p
        BY <2>13, <4>1, FoundIn
      <4> QED
        BY <3>1, <3>2, <4>2 DEF CurrentProfile
    <3> QED
      BY <1>1, <1>3, <2>7, <2>8, <2>9, <2>10, <3>3, <3>4
  <2> QED
    BY <2>12, <2>13
<1> QED
  BY <1>5, <1>6

LEMMA RescaledOK ==
  ASSUME template \in Templates
  PROVE  [template EXCEPT !.requests = IF @ = Nil THEN Nil ELSE With(@, "cpu", 2),
                          !.limits = With(@, "cpu", 2)] \in Templates
<1> DEFINE r == IF template.requests = Nil THEN Nil ELSE With(template.requests, "cpu", 2)
           l == With(template.limits, "cpu", 2)
<1>1. [template EXCEPT !.requests = IF @ = Nil THEN Nil ELSE With(@, "cpu", 2),
                       !.limits = With(@, "cpu", 2)]
        = [template EXCEPT !.requests = r, !.limits = l]
  OBVIOUS
<1>2. \A m \in ResourceMaps : With(m, "cpu", 2) \in ResourceMaps /\ DOMAIN With(m, "cpu", 2) = DOMAIN m \cup {"cpu"}
  <2>1. "cpu" \in ResourceNames
    BY DEF ResourceNames
  <2> QED
    BY <2>1, ResourcesWith DEF With
<1>3. /\ r \in ResourceMaps \cup {Nil}
      /\ IF r = Nil THEN DOMAIN l = {"cpu"} ELSE "cpu" \in DOMAIN r
      /\ l \in ResourceMaps /\ "cpu" \in DOMAIN l
  <2>1. template.limits \in ResourceMaps
    BY TemplateFields
  <2>2. l \in ResourceMaps /\ DOMAIN l = DOMAIN template.limits \cup {"cpu"}
    BY <1>2, <2>1
  <2> HIDE DEF l
  <2>3. CASE template.requests = Nil
    BY <2>2, <2>3, TemplateFields
  <2>4. CASE template.requests # Nil
    <3>1. template.requests \in ResourceMaps
      BY <2>4, TemplateFields
    <3>2. r \in ResourceMaps /\ DOMAIN r = DOMAIN template.requests \cup {"cpu"}
      BY <1>2, <2>4, <3>1
    <3>3. r # Nil
      BY <3>2, NilAssumption
    <3> QED
      BY <2>2, <3>2, <3>3
  <2> QED
    BY <2>3, <2>4
<1> HIDE DEF r, l
<1>4. [template EXCEPT !.requests = r, !.limits = l]
        = [annotations |-> template.annotations, requests |-> r, limits |-> l]
  BY NewResources
<1>5. [annotations |-> template.annotations, requests |-> r, limits |-> l] \in Templates
  BY <1>3, TemplateFields, TemplateOf
<1> QED
  BY <1>1, <1>4, <1>5, Zenon

-----------------------------------------------------------------------------
(* The invariant holds at first. *)

LEMMA NoStateOK == StateOK(NoState)
BY DEF NoState, getDesiredState, StateOK, IsState

LEMMA FirstTemplate ==
  /\ [{"other"} -> {"x"}] \subseteq AnnotationMaps
  /\ [{"cpu"} -> {1}] \subseteq ResourceMaps
<1>1. ASSUME NEW m \in [{"other"} -> {"x"}] PROVE m \in AnnotationMaps
  <2> DEFINE KK == {"other", RdtAnnotation, RdtVisited}
             V == {"x", ""} \cup Elements(Options)
  <2>1. m \in [DOMAIN m -> V] /\ DOMAIN m \subseteq KK
    OBVIOUS
  <2> HIDE DEF KK, V
  <2>2. m \in MapsOf(KK, V)
    BY <2>1, MapIn, Zenon
  <2> QED
    BY <2>2 DEF AnnotationMaps, KK, V
<1>2. ASSUME NEW m \in [{"cpu"} -> {1}] PROVE m \in ResourceMaps
  <2> DEFINE KK == ResourceNames
             V == {1, 2}
  <2>1. m \in [DOMAIN m -> V] /\ DOMAIN m \subseteq KK
    BY DEF ResourceNames
  <2> HIDE DEF KK, V
  <2>2. m \in MapsOf(KK, V)
    BY <2>1, MapIn, Zenon
  <2> QED
    BY <2>2 DEF ResourceMaps, KK, V
<1> QED
  BY <1>1, <1>2

LEMMA InitIInv ==
  ASSUME PlatformInit
  PROVE  IInv
<1>1. template \in Templates
  <2>1. PICK a \in {Nil, [other |-> "x"]}, r \in {Nil, [cpu |-> 1]}, l \in {[cpu |-> 1]} :
          template = [annotations |-> a, requests |-> r, limits |-> l]
    BY DEF PlatformInit
  <2>2. [other |-> "x"] \in AnnotationMaps
    <3>1. [other |-> "x"] \in [{"other"} -> {"x"}]
      OBVIOUS
    <3> QED
      BY <3>1, FirstTemplate
  <2>3. PICK m : m = [cpu |-> 1]
    OBVIOUS
  <2>4. m \in ResourceMaps /\ "cpu" \in DOMAIN m
    <3>1. m \in [{"cpu"} -> {1}]
      BY <2>3
    <3> QED
      BY <3>1, FirstTemplate
  <2>5. a \in AnnotationMaps \cup {Nil} /\ r \in ResourceMaps \cup {Nil} /\ l \in ResourceMaps
    BY <2>1, <2>2, <2>3, <2>4
  <2>6. (IF r = Nil THEN DOMAIN l = {"cpu"} ELSE "cpu" \in DOMAIN r) /\ "cpu" \in DOMAIN l
    BY <2>1, <2>3, <2>4
  <2>7. [annotations |-> a, requests |-> r, limits |-> l] \in Templates
    BY <2>5, <2>6, TemplateOf
  <2> QED
    BY <2>1, <2>7
<1>2. DOMAIN running \subseteq PodNames /\ running \in [DOMAIN running -> Templates]
  <2>1. PICK S \in {{}, PodNames} : running = [p \in S |-> template]
    BY DEF PlatformInit
  <2> QED
    BY <1>1, <2>1
<1>3. config.intent \in Intents /\ config.known \subseteq config.intent
  BY DEF PlatformInit
<1>4. load \in [config.intent -> {Good, Bad}]
  BY DEF PlatformInit
<1>5. ClusterInv
  BY <1>1, <1>2, <1>3, <1>4 DEF ClusterInv, PlatformInit
<1>6. round = [pc |-> "idle", state |-> NoState, path |-> <<>>, todo |-> {}]
  BY DEF PlatformInit, NoRound
<1>7. RoundInv
  BY <1>6, NoStateOK DEF RoundInv
<1>8. settled = Nil
  BY DEF PlatformInit
<1> QED
  BY <1>5, <1>6, <1>7, <1>8 DEF IInv, MarkInv, EachActsOnce, ShowsInv, NewsInv, MeasuredInv

-----------------------------------------------------------------------------
(* Steps that leave the round alone, and steps that end it. *)

LEMMA RoundKept ==
  ASSUME IInv, UNCHANGED <<round, config, settled>>,
         load' = load \/ load' = [k \in config.intent |-> Good]
  PROVE  (RoundInv /\ MarkInv /\ EachActsOnce /\ ShowsInv /\ NewsInv /\ MeasuredInv)'
<1>1. RoundInv' /\ MarkInv' /\ EachActsOnce'
  BY DEF IInv, RoundInv, MarkInv, EachActsOnce
<1>2. ShowsInv' /\ NewsInv'
  BY DEF IInv, ShowsInv, NewsInv, Changes
<1>3. MeasuredInv'
  <2>1. CASE load' = load
    BY <2>1 DEF IInv, MeasuredInv, knownProfiles
  <2>2. CASE load' = [k \in config.intent |-> Good]
    BY <2>2 DEF MeasuredInv
  <2> QED
    BY <2>1, <2>2
<1> QED
  BY <1>1, <1>2, <1>3

LEMMA RoundGoesOn ==
  ASSUME IInv, UNCHANGED <<config, settled>>,
         round'.pc # "planning", StateOK(round'.state),
         round' = [pc |-> round'.pc, state |-> round'.state, path |-> round'.path, todo |-> round'.todo],
         round'.path = round.path \/ round'.path = <<>>
  PROVE  (RoundInv /\ MarkInv /\ EachActsOnce /\ ShowsInv /\ NewsInv /\ MeasuredInv)'
<1>1. RoundInv'
  <2>1. round'.path \in Seq(Actions)
    <3>1. <<>> \in Seq(Actions) /\ round.path \in Seq(Actions)
      BY DEF IInv, RoundInv
    <3> QED
      BY <3>1
  <2> QED
    BY <2>1 DEF RoundInv
<1>2. MarkInv' /\ ShowsInv' /\ MeasuredInv'
  BY DEF MarkInv, ShowsInv, MeasuredInv
<1>3. EachActsOnce' /\ NewsInv'
  BY DEF IInv, EachActsOnce, NewsInv, Changes
<1> QED
  BY <1>1, <1>2, <1>3

LEMMA Returns ==
  ASSUME IInv, UNCHANGED <<config, settled>>, round.pc = "perform", NEW a, PerformReturns(a)
  PROVE  (RoundInv /\ MarkInv /\ EachActsOnce /\ ShowsInv /\ NewsInv /\ MeasuredInv)'
<1>1. CASE round.todo = {a}
  <2>1. round' = [pc |-> "idle", state |-> NoState, path |-> <<>>, todo |-> {}]
    BY <1>1 DEF PerformReturns, NoRound
  <2>2. StateOK(round'.state)
    BY <2>1, NoStateOK
  <2> QED
    BY <2>1, <2>2, RoundGoesOn
<1>2. CASE round.todo # {a}
  <2>1. round = [pc |-> round.pc, state |-> round.state, path |-> round.path, todo |-> round.todo]
    BY DEF IInv, RoundInv
  <2>2. round' = [round EXCEPT !.todo = @ \ {a}]
    BY <1>2 DEF PerformReturns
  <2>3. round' = [pc |-> round.pc, state |-> round.state, path |-> round.path, todo |-> round.todo \ {a}]
    BY <2>1, <2>2
  <2>4. StateOK(round'.state)
    BY <2>3 DEF IInv, RoundInv
  <2> QED
    BY <2>3, <2>4, RoundGoesOn
<1> QED
  BY <1>1, <1>2

LEMMA TemplateChanged ==
  ASSUME ClusterInv, template' \in Templates, UNCHANGED <<running, config, load, settled>>
  PROVE  ClusterInv'
BY DEF ClusterInv

LEMMA PerformIInv ==
  ASSUME IInv, NEW a,
         RdtPerform \/ PowerPerform \/ PowerPanics \/ PerformFails(a)
  PROVE  IInv'
<1>1. ClusterInv /\ RoundInv /\ template \in Templates
  BY DEF IInv, ClusterInv
<1>2. ASSUME RdtPerform PROVE IInv'
  <2>1. template' \in Templates /\ UNCHANGED <<running, config, load, settled>>
    BY <1>1, <1>2, RdtUpdatedOK DEF RdtPerform
  <2>2. UNCHANGED <<config, settled>> /\ round.pc = "perform" /\ PerformReturns(RDT)
    BY <1>2 DEF RdtPerform
  <2> QED
    BY <1>1, <2>1, <2>2, TemplateChanged, Returns DEF IInv
<1>3. ASSUME PowerPerform PROVE IInv'
  <2>1. template' \in Templates /\ UNCHANGED <<running, config, load, settled>>
    BY <1>1, <1>3, PowerUpdatedOK DEF PowerPerform
  <2>2. UNCHANGED <<config, settled>> /\ round.pc = "perform" /\ PerformReturns(Power)
    BY <1>3 DEF PowerPerform
  <2> QED
    BY <1>1, <2>1, <2>2, TemplateChanged, Returns DEF IInv
<1>4. ASSUME PowerPanics PROVE IInv'
  <2>1. template' \in Templates /\ UNCHANGED <<running, config, load, settled>>
    BY <1>1, <1>4 DEF PowerPanics
  <2>2. UNCHANGED <<config, settled>> /\ round.pc = "perform" /\ PerformReturns(Power)
    BY <1>4 DEF PowerPanics
  <2> QED
    BY <1>1, <2>1, <2>2, TemplateChanged, Returns DEF IInv
<1>5. ASSUME PerformFails(a) PROVE IInv'
  <2>1. template' \in Templates /\ UNCHANGED <<running, config, load, settled>>
    BY <1>1, <1>5 DEF PerformFails
  <2>2. UNCHANGED <<config, settled>> /\ round.pc = "perform" /\ PerformReturns(a)
    BY <1>5 DEF PerformFails
  <2> QED
    BY <1>1, <2>1, <2>2, TemplateChanged, Returns DEF IInv
<1> QED
  BY <1>2, <1>3, <1>4, <1>5

LEMMA ClusterIInv ==
  ASSUME IInv, NEW p, RollOut(p) \/ PodFails(p) \/ Rescale \/ LoadDrops
  PROVE  IInv'
<1>1. ClusterInv /\ template \in Templates
  BY DEF IInv, ClusterInv
<1>2. UNCHANGED <<round, config, settled>> /\ (load' = load \/ load' = [k \in config.intent |-> Good])
  BY DEF RollOut, PodFails, Rescale, LoadDrops
<1>3. (RoundInv /\ MarkInv /\ EachActsOnce /\ ShowsInv /\ NewsInv /\ MeasuredInv)'
  BY <1>2, RoundKept
<1>4. CASE RollOut(p)
  <2>1. running' = [running EXCEPT ![p] = template] /\ UNCHANGED <<template, config, load, settled>>
    BY <1>4 DEF RollOut
  <2>2. DOMAIN running' = DOMAIN running /\ running' \in [DOMAIN running' -> Templates]
    BY <1>1, <2>1 DEF ClusterInv
  <2> QED
    BY <1>1, <1>3, <2>1, <2>2 DEF IInv, ClusterInv
<1>5. CASE PodFails(p)
  BY <1>1, <1>3, <1>5, TemplateChanged DEF PodFails, IInv
<1>6. CASE Rescale
  <2>1. template' \in Templates
    BY <1>1, <1>6, RescaledOK DEF Rescale
  <2>2. UNCHANGED <<running, config, load, settled>>
    BY <1>6 DEF Rescale
  <2> QED
    BY <1>1, <1>3, <2>1, <2>2, TemplateChanged DEF IInv
<1>7. CASE LoadDrops
  <2>1. load' \in [config.intent -> {Good, Bad}] /\ UNCHANGED <<template, running, config, settled>>
    BY <1>7 DEF LoadDrops
  <2> QED
    BY <1>1, <1>3, <2>1 DEF IInv, ClusterInv
<1> QED
  BY <1>4, <1>5, <1>6, <1>7

LEMMA PlanFoundIInv ==
  ASSUME IInv, PlanFound
  PROVE  IInv'
<1>1. ClusterInv /\ RoundInv /\ template \in Templates
  BY DEF IInv, ClusterInv
<1>2. UNCHANGED <<running, config, load, settled, template>>
  BY DEF PlanFound
<1>3. ClusterInv'
  BY <1>1, <1>2, TemplateChanged
<1>4. CASE round.path = <<>>
  <2>1. round' = [pc |-> "idle", state |-> NoState, path |-> <<>>, todo |-> {}]
    BY <1>4 DEF PlanFound, NoRound
  <2>2. StateOK(round'.state)
    BY <2>1, NoStateOK
  <2> QED
    BY <1>2, <1>3, <2>1, <2>2, RoundGoesOn DEF IInv
<1>5. CASE round.path # <<>>
  <2>1. PerformRequest(round.path) = round.path
    BY <1>1, PlanSent DEF RoundInv
  <2>2. round' = [round EXCEPT !.pc = "perform", !.state = NoState, !.path = round.path, !.todo = alive]
    BY <1>5, <2>1 DEF PlanFound
  <2>3. round = [pc |-> round.pc, state |-> round.state, path |-> round.path, todo |-> round.todo]
    BY <1>1 DEF RoundInv
  <2>4. round' = [pc |-> "perform", state |-> NoState, path |-> round.path, todo |-> alive]
    <3>1. PICK q : q = [round EXCEPT !.pc = "perform", !.state = NoState]
      OBVIOUS
    <3>2. PICK r : r = [round EXCEPT !.pc = "perform"]
      OBVIOUS
    <3>3. r = [pc |-> "perform", state |-> round.state, path |-> round.path, todo |-> round.todo]
      BY <2>3, <3>2
    <3>4. q = [r EXCEPT !.state = NoState]
      BY <3>1, <3>2
    <3>5. q = [pc |-> "perform", state |-> NoState, path |-> round.path, todo |-> round.todo]
      BY <3>3, <3>4
    <3>6. PICK w : w = [q EXCEPT !.path = round.path]
      OBVIOUS
    <3>7. w = [pc |-> "perform", state |-> NoState, path |-> round.path, todo |-> round.todo]
      BY <3>5, <3>6
    <3>8. round' = [w EXCEPT !.todo = alive]
      BY <2>2, <3>1, <3>6
    <3> QED
      BY <3>7, <3>8
  <2>5. StateOK(round'.state)
    BY <2>4, NoStateOK
  <2> QED
    BY <1>2, <1>3, <2>4, <2>5, RoundGoesOn DEF IInv
<1> QED
  BY <1>4, <1>5

-----------------------------------------------------------------------------
(* An actuator is asked for follow-up states. *)

LEMMA PathGrows ==
  ASSUME RoundInv, NEW s, StateOK(s), NEW a \in Actions,
         round' = [round EXCEPT !.state = s, !.path = Append(@, a)]
  PROVE  /\ RoundInv' /\ round'.pc = round.pc /\ round'.state = s
         /\ \A i \in DOMAIN round'.path :
              \/ i \in DOMAIN round.path /\ round'.path[i] = round.path[i]
              \/ round'.path[i] = a /\ \A j \in DOMAIN round'.path : j <= i
         /\ DOMAIN round'.path \subseteq Nat /\ round'.path # <<>>
<1>1. PICK q : q = [round EXCEPT !.state = s]
  OBVIOUS
<1>2. q = [pc |-> round.pc, state |-> s, path |-> round.path, todo |-> round.todo]
  BY <1>1 DEF RoundInv
<1>3. round' = [q EXCEPT !.path = Append(round.path, a)]
  BY <1>1
<1>4. round' = [pc |-> round.pc, state |-> s, path |-> Append(round.path, a), todo |-> round.todo]
  BY <1>2, <1>3
<1>5. PICK path \in Seq(Actions) : path = round.path
  BY DEF RoundInv
<1>6. PICK n \in Nat : n = Len(path) /\ DOMAIN path = 1 .. n
  OBVIOUS
<1>7. PICK longer : longer = Append(path, a)
  OBVIOUS
<1>8. /\ longer \in Seq(Actions) /\ DOMAIN longer = 1 .. n + 1 /\ longer[n + 1] = a
      /\ \A i \in 1 .. n : longer[i] = path[i]
      /\ longer # <<>>
  BY <1>6, <1>7
<1>9. round'.path = longer /\ round'.state = s /\ round'.pc = round.pc
  BY <1>4, <1>5, <1>7
<1>10. RoundInv'
  <2>1. round' = [pc |-> round'.pc, state |-> round'.state, path |-> round'.path, todo |-> round'.todo]
    BY <1>4
  <2>2. StateOK(round'.state)
    BY <1>9
  <2>3. round'.path \in Seq(Actions)
    BY <1>8, <1>9
  <2> QED
    BY <2>1, <2>2, <2>3 DEF RoundInv
<1>11. ASSUME NEW i \in 1 .. n + 1
       PROVE  (i \in 1 .. n /\ longer[i] = path[i]) \/ (longer[i] = a /\ \A j \in 1 .. n + 1 : j <= i)
  <2>1. i \in 1 .. n \/ i = n + 1
    OBVIOUS
  <2>2. \A j \in 1 .. n + 1 : j <= n + 1
    OBVIOUS
  <2> QED
    BY <1>8, <2>1, <2>2
<1> QED
  BY <1>5, <1>6, <1>8, <1>9, <1>10, <1>11, SMTT(30)

\* The marks say that the actuator has not acted before.
LEMMA ActsOnce ==
  ASSUME IInv, round.pc = "planning", NEW s, StateOK(s), NEW a \in Actions,
         round' = [round EXCEPT !.state = s, !.path = Append(@, a)],
         MarkedBy(s, a),
         \A i \in DOMAIN round.path : MarkedBy(s, round.path[i]),
         \A i \in DOMAIN round.path : round.path[i].name = a.name => round.path[i] = RdtAction("None")
  PROVE  MarkInv' /\ EachActsOnce'
<1>1. /\ round'.pc = round.pc /\ round'.state = s
      /\ \A i \in DOMAIN round'.path :
           \/ i \in DOMAIN round.path /\ round'.path[i] = round.path[i]
           \/ round'.path[i] = a /\ \A j \in DOMAIN round'.path : j <= i
      /\ DOMAIN round'.path \subseteq Nat
  BY PathGrows DEF IInv
<1>2. MarkInv'
  <2>1. \A i \in DOMAIN round'.path : MarkedBy(s, round'.path[i])
    BY <1>1
  <2> QED
    BY <1>1, <2>1 DEF MarkInv, MarkedBy
<1>3. ASSUME NEW i \in DOMAIN round'.path, NEW j \in DOMAIN round'.path,
             i < j, round'.path[i].name = round'.path[j].name
      PROVE  round'.path[i] = RdtAction("None")
  <2>1. ~(j <= i)
    BY <1>1, <1>3
  <2>2. i \in DOMAIN round.path /\ round'.path[i] = round.path[i]
    BY <1>1, <2>1
  <2>3. CASE round'.path[j] = a
    BY <1>3, <2>2, <2>3
  <2>4. CASE j \in DOMAIN round.path /\ round'.path[j] = round.path[j]
    BY <1>3, <2>2, <2>4 DEF IInv, EachActsOnce
  <2> QED
    BY <1>1, <2>3, <2>4
<1> QED
  BY <1>2, <1>3 DEF EachActsOnce

LEMMA ExpandIInv ==
  ASSUME IInv, NEW a \in PlatformActuators, Expand(a)
  PROVE  IInv'
<1>1. PICK answer \in Answers(a) :
        \E x \in RemoteNextState(a, NextStateRequest(round.state, goal, knownProfiles), answer) :
          round' = [round EXCEPT !.state = x.state, !.path = Append(@, x.action)]
  BY DEF Expand
<1>2. PICK x \in RemoteNextState(a, NextStateRequest(round.state, goal, knownProfiles), answer) :
        round' = [round EXCEPT !.state = x.state, !.path = Append(@, x.action)]
  BY <1>1
<1>3. /\ round.pc = "planning"
      /\ UNCHANGED <<template, running, config, load, settled>>
  BY DEF Expand
<1>4. PICK s : s = round.state /\ StateOK(s)
  BY DEF IInv, RoundInv
<1>5. RDT # Power
  BY DEF RDT, Power
<1>6. a = RDT \/ a = Power
  BY DEF PlatformActuators
<1> DEFINE Fine == /\ StateOK(x.state) /\ x.action \in Actions
                   /\ MarkedBy(x.state, x.action)
                   /\ \A i \in DOMAIN round.path : MarkedBy(x.state, round.path[i])
                   /\ \A i \in DOMAIN round.path :
                        round.path[i].name = x.action.name => round.path[i] = RdtAction("None")
<1>7. ASSUME a = RDT PROVE Fine
  <2>1. /\ StateOK(x.state)
        /\ ~Has(s.annotations, RdtVisited)
        /\ x.action # RdtAction("None") => Has(x.state.annotations, RdtVisited)
        /\ DOMAIN Entries(x.state.data) = DOMAIN Entries(s.data)
    BY <1>2, <1>4, <1>7, RdtAnswers
  <2>2. PICK o \in Elements(Options) : x.action = RdtAction(o)
    BY <1>2, <1>4, <1>7, RdtAnswers
  <2>3. x.action \in Actions /\ x.action.name = RDT
    BY <2>2 DEF Actions, RdtAction
  <2>4. MarkedBy(x.state, x.action)
    BY <1>5, <2>1, <2>3 DEF MarkedBy
  <2>5. ASSUME NEW i \in DOMAIN round.path
        PROVE  /\ MarkedBy(x.state, round.path[i])
               /\ round.path[i].name = RDT => round.path[i] = RdtAction("None")
    <3>1. MarkedBy(s, round.path[i])
      BY <1>3, <1>4 DEF IInv, MarkInv
    <3> QED
      BY <1>5, <2>1, <3>1 DEF MarkedBy, Has
  <2> QED
    BY <2>1, <2>3, <2>4, <2>5
<1>8. ASSUME a = Power PROVE Fine
  <2>1. /\ StateOK(x.state)
        /\ ~Has(s.data, Power) /\ Has(x.state.data, Power)
        /\ \A k : Has(x.state.annotations, k) <=> Has(s.annotations, k)
    BY <1>2, <1>4, <1>8, PowerAnswers
  <2>2. PICK p \in Elements(PowerProfiles) : x.action = PowerAction(p)
    BY <1>2, <1>4, <1>8, PowerAnswers
  <2>3. x.action \in Actions /\ x.action.name = Power
    BY <2>2 DEF Actions, PowerAction
  <2>4. MarkedBy(x.state, x.action)
    BY <1>5, <2>1, <2>3 DEF MarkedBy
  <2>5. ASSUME NEW i \in DOMAIN round.path
        PROVE  /\ MarkedBy(x.state, round.path[i])
               /\ round.path[i].name # Power
    <3>1. MarkedBy(s, round.path[i])
      BY <1>3, <1>4 DEF IInv, MarkInv
    <3> QED
      BY <1>5, <2>1, <3>1 DEF MarkedBy
  <2> QED
    BY <2>1, <2>3, <2>4, <2>5
<1>9. Fine
  BY <1>6, <1>7, <1>8
<1>10. MarkInv' /\ EachActsOnce'
  BY <1>2, <1>3, <1>9, ActsOnce
<1>11. /\ RoundInv' /\ round'.pc = round.pc /\ round'.state = x.state
       /\ \A i \in DOMAIN round'.path :
              \/ i \in DOMAIN round.path /\ round'.path[i] = round.path[i]
              \/ round'.path[i] = x.action
       /\ round'.path # <<>>
  BY <1>2, <1>9, PathGrows, ZenonT(30) DEF IInv
<1>12. ASSUME settled # Nil PROVE Shows(x.state, settled) /\ Changes(x.action, settled)
  <2>1. Shows(s, settled) /\ settled \in Templates
    BY <1>3, <1>4, <1>12 DEF IInv, ClusterInv, ShowsInv
  <2>2. CASE a = RDT
    BY <1>2, <1>4, <2>1, <2>2, RdtShows
  <2>3. CASE a = Power
    BY <1>2, <1>4, <2>1, <2>3, PowerShows
  <2> QED
    BY <1>6, <2>2, <2>3
<1>13. ShowsInv'
  BY <1>3, <1>11, <1>12 DEF ShowsInv, Shows
<1>14. NewsInv'
  <2>1. settled # Nil => \A i \in DOMAIN round'.path : Changes(round'.path[i], settled)
    BY <1>11, <1>12 DEF IInv, NewsInv
  <2> QED
    BY <1>3, <2>1 DEF NewsInv, Changes
<1>15. MeasuredInv'
  BY <1>11 DEF MeasuredInv
<1>16. ClusterInv'
  BY <1>3, TemplateChanged DEF IInv, ClusterInv
<1> QED
  BY <1>10, <1>11, <1>13, <1>14, <1>15, <1>16 DEF IInv

-----------------------------------------------------------------------------
(* The current state. *)

LEMMA TypeNumbers ==
  /\ ProfileTypeFromText("latency") = 1
  /\ ProfileTypeFromText("availability") = 2
  /\ ProfileTypeFromText("power") = 4
<1>1. /\ DOMAIN ProfileTypes = 1 .. 5
      /\ ProfileTypes[1] = "obsolete" /\ ProfileTypes[2] = "latency" /\ ProfileTypes[3] = "availability"
      /\ ProfileTypes[4] = "throughput" /\ ProfileTypes[5] = "power"
  BY DEF ProfileTypes
<1>2. ASSUME NEW i \in 1 .. 5, NEW text,
             \A j \in 1 .. 5 : ProfileTypes[j] = text <=> j = i
      PROVE  ProfileTypeFromText(text) = i - 1
  BY <1>1, <1>2 DEF ProfileTypeFromText
<1>3. \A j \in 1 .. 5 : j = 1 \/ j = 2 \/ j = 3 \/ j = 4 \/ j = 5
  OBVIOUS
<1>4. /\ \A j \in 1 .. 5 : ProfileTypes[j] = "latency" <=> j = 2
      /\ \A j \in 1 .. 5 : ProfileTypes[j] = "availability" <=> j = 3
      /\ \A j \in 1 .. 5 : ProfileTypes[j] = "power" <=> j = 5
  BY <1>1, <1>3
<1>5. ProfileTypeFromText("latency") = 2 - 1
  BY <1>2, <1>4
<1>6. ProfileTypeFromText("availability") = 3 - 1
  BY <1>2, <1>4
<1>7. ProfileTypeFromText("power") = 5 - 1
  BY <1>2, <1>4
<1> QED
  BY <1>5, <1>6, <1>7

LEMMA KnownProfile ==
  ASSUME ClusterInv, NEW k, Has(knownProfiles, k)
  PROVE  /\ k \in config.intent /\ knownProfiles[k].minimize = (k # "availability")
         /\ k # "availability" => knownProfiles[k].profileType # ProfileTypeFromText("availability")
<1>1. k \in DOMAIN Entries(knownProfiles)
  BY DEF Has
<1>2. k \in config.known
  BY <1>1, EmptyIn DEF Entries, knownProfiles
<1>3. k \in config.intent /\ k \in {"latency", "power", "availability"}
  BY <1>2 DEF ClusterInv
<1>4. knownProfiles[k] = [profileType |-> ProfileTypeFromText(k), minimize |-> k # "availability"]
  BY <1>2, <1>3 DEF knownProfiles, AllProfiles
<1> QED
  BY <1>3, <1>4, TypeNumbers

LEMMA TelemetryIn == Telemetry \subseteq DataMaps
<1>1. ASSUME NEW n \in {0, 1} PROVE [host |-> n] \in HostMaps
  <2>1. PICK m : m = [host |-> n]
    OBVIOUS
  <2>2. m \in [DOMAIN m -> {0, 1}] /\ DOMAIN m \subseteq {"host", Power}
    BY <2>1
  <2>3. m \in HostMaps
    BY <2>2, MapIn, Zenon DEF HostMaps
  <2> QED
    BY <2>1, <2>3
<1>2. ASSUME NEW hosts \in HostMaps PROVE [k \in {Renewable} |-> hosts] \in DataMaps
  <2>1. PICK d : d = [k \in {Renewable} |-> hosts]
    OBVIOUS
  <2>2. d \in [DOMAIN d -> HostMaps \cup {Nil}] /\ DOMAIN d \subseteq {Renewable, Power}
    BY <2>1
  <2>3. d \in DataMaps
    BY <2>2, MapIn, Zenon DEF DataMaps
  <2> QED
    BY <2>1, <2>3
<1>3. /\ Empty \in HostMaps /\ [host |-> 0] \in HostMaps /\ [host |-> 1] \in HostMaps
  BY <1>1, EmptyIn
<1>4. ASSUME NEW d \in Telemetry PROVE d \in DataMaps
  <2>1. PICK hosts \in HostMaps : d = [k \in {Renewable} |-> hosts]
    <3>1. PICK h \in {Empty, [host |-> 0], [host |-> 1]} : d = [k \in {Renewable} |-> h]
      BY DEF Telemetry
    <3>2. h \in HostMaps
      BY <1>3
    <3> QED
      BY <3>1, <3>2
  <2> QED
    BY <1>2, <2>1
<1> QED
  BY <1>4

\* The annotations and resources of a template, as a POD shows them.
LEMMA SeenOK ==
  ASSUME ClusterInv, NEW listed \in Listings, NEW errors
  PROVE  /\ getPods(listed, errors).annotations \in AnnotationMaps \cup {Nil}
         /\ getPods(listed, errors).resources \in ResourceMaps \cup {Nil}
<1>1. CASE listed = Nil
  BY <1>1 DEF getPods
<1>2. CASE listed # Nil
  <2> DEFINE R == {PodRecord(p) : p \in DOMAIN running}
  <2>1. ASSUME NEW r \in R
        PROVE  r.annotations \in AnnotationMaps \cup {Nil} /\ r.resources \in ResourceMaps
    <3>1. PICK p \in DOMAIN running : r = PodRecord(p)
      OBVIOUS
    <3>2. running[p] \in Templates
      BY DEF ClusterInv
    <3> QED
      BY <3>1, <3>2, TemplateFields DEF PodRecord
  <2>2. listed \in Seq(R)
    BY <1>2, Listed
  <2> HIDE DEF R
  <2>3. \A i \in DOMAIN listed : listed[i] \in R
    BY <2>2
  <2>4. getAnnotations(listed) \in AnnotationMaps \cup {Nil}
    BY <2>1, <2>2, <2>3, AnnotationsSeen
  <2>5. getPodResources(listed) \in ResourceMaps
    BY <2>1, <2>2, <2>3, ResourcesSeen, EmptyIn
  <2>6. /\ getPods(listed, errors).annotations = getAnnotations(listed)
        /\ getPods(listed, errors).resources = getPodResources(listed)
    BY <1>2 DEF getPods
  <2> QED
    BY <2>4, <2>5, <2>6
<1> QED
  BY <1>1, <1>2

\* A workload at rest is seen as its template says.
LEMMA SeenAtRest ==
  ASSUME ClusterInv, NEW listed \in Listings, listed # Nil, NEW errors,
         \A p \in PodNames : Has(running, p) /\ running[p] = template,
         NEW s, s.annotations = getPods(listed, errors).annotations,
         s.resources = getPods(listed, errors).resources
  PROVE  Shows(s, template)
<1>1. /\ s.annotations = getAnnotations(listed)
      /\ s.resources = getPodResources(listed)
  BY DEF getPods
<1> DEFINE R == {PodRecord(p) : p \in DOMAIN running}
<1>2. ASSUME NEW r \in R
      PROVE  /\ r.annotations = template.annotations
             /\ r.resources = ResourcesOf(template)
  <2>1. PICK p \in DOMAIN running : r = PodRecord(p)
    OBVIOUS
  <2>2. p \in PodNames /\ running[p] = template
    BY DEF ClusterInv
  <2> QED
    BY <2>1, <2>2 DEF PodRecord, ResourcesOf
<1>3. listed \in Seq(R) /\ listed # <<>>
  <2>1. PICK p : p \in PodNames
    BY PlatformAssumption
  <2>2. Has(running, p)
    BY <2>1
  <2>3. p \in DOMAIN running
    BY <2>2, EmptyIn DEF Has, Entries
  <2>4. PICK i \in DOMAIN listed : TRUE
    BY <2>3, Listed
  <2>5. listed # <<>>
    BY <2>4
  <2> QED
    BY <2>5, Listed
<1> HIDE DEF R
<1>4. 1 \in DOMAIN listed /\ \A i \in DOMAIN listed : listed[i] \in R
  BY <1>3
<1>5. ASSUME template.annotations # Nil
      PROVE  /\ Has(s.annotations, RdtAnnotation) <=> Has(template.annotations, RdtAnnotation)
             /\ CurrentOption(s) = CurrentOption(template)
  <2>1. PICK a \in AnnotationMaps : a = template.annotations
    BY <1>5, TemplateFields DEF ClusterInv
  <2>2. s.annotations = a \/ (s.annotations = Nil /\ DOMAIN a = {})
    BY <1>1, <1>2, <1>3, <1>4, <2>1, SameAnnotationsSeen
  <2>3. CASE s.annotations = a
    BY <2>1, <2>3 DEF CurrentOption
  <2>4. CASE s.annotations = Nil /\ DOMAIN a = {}
    <3>1. ~Has(s.annotations, RdtAnnotation)
      BY <2>4, EmptyIn DEF Has, Entries
    <3>2. ~Has(template.annotations, RdtAnnotation)
      BY <2>1, <2>4, NilAssumption DEF Has, Entries
    <3> QED
      BY <3>1, <3>2 DEF CurrentOption
  <2> QED
    BY <2>2, <2>3, <2>4
<1>6. s.resources = ResourcesOf(template)
  BY <1>1, <1>2, <1>3, <1>4, ResourcesSeen
<1>7. ASSUME template.annotations = Nil PROVE s.annotations = template.annotations
  BY <1>1, <1>2, <1>3, <1>4, <1>7, AnnotationsSeen
<1> QED
  BY <1>5, <1>6, <1>7 DEF Shows, CurrentOption

LEMMA ObserveIInv ==
  ASSUME IInv, Observe
  PROVE  IInv'
<1>1. PICK listed \in Listings, measured \in Measurements, telemetry \in Telemetry :
        /\ round' = [NoRound EXCEPT !.pc = "planning",
                       !.state = getCurrentState(config.intent, listed, errorHistory, knownProfiles,
                                                 measured, telemetry)]
        /\ settled' = IF listed # Nil /\ \A p \in PodNames : Has(running, p) /\ running[p] = template
                        THEN template ELSE Nil
  BY DEF Observe
<1>2. ClusterInv /\ template \in Templates /\ UNCHANGED <<template, running, config, load, errorHistory>>
  BY DEF IInv, ClusterInv, Observe
<1> DEFINE known == {k \in config.intent : Has(knownProfiles, k)}
<1>3. PICK s : s = getCurrentState(config.intent, listed, errorHistory, knownProfiles, measured, telemetry)
  OBVIOUS
<1>4. PICK seen : seen = getPods(listed, errorHistory)
  OBVIOUS
<1>5. s = [objectives |-> [k \in known |->
                             IF knownProfiles[k].profileType = ProfileTypeFromText("availability")
                               THEN PodSetAvailability(seen.pods) ELSE measured[k]],
           tolerations |-> Nil, pods |-> seen.pods, data |-> telemetry,
           resources |-> seen.resources, annotations |-> seen.annotations]
  BY <1>3, <1>4 DEF getCurrentState
<1>6. round' = [pc |-> "planning", state |-> s, path |-> <<>>, todo |-> {}]
  <2>1. PICK q : q = [NoRound EXCEPT !.pc = "planning"]
    OBVIOUS
  <2>2. q = [pc |-> "planning", state |-> NoState, path |-> <<>>, todo |-> {}]
    BY <2>1 DEF NoRound
  <2>3. round' = [q EXCEPT !.state = s]
    BY <1>1, <1>3, <2>1
  <2> QED
    BY <2>2, <2>3
<1>7. StateOK(s)
  <2>1. IsState(s)
    BY <1>5 DEF IsState
  <2>2. telemetry \in DataMaps
    BY TelemetryIn
  <2>3. seen.annotations \in AnnotationMaps \cup {Nil} /\ seen.resources \in ResourceMaps \cup {Nil}
    BY <1>2, <1>4, SeenOK
  <2>4. s.annotations = seen.annotations /\ s.data = telemetry /\ s.resources = seen.resources
    BY <1>5
  <2> QED
    BY <2>1, <2>2, <2>3, <2>4 DEF StateOK
<1>8. RoundInv'
  <2>1. round'.path \in Seq(Actions) /\ StateOK(round'.state)
    BY <1>6, <1>7
  <2>2. round' = [pc |-> round'.pc, state |-> round'.state, path |-> round'.path, todo |-> round'.todo]
    BY <1>6
  <2> QED
    BY <2>1, <2>2 DEF RoundInv
<1>9. round'.path = <<>> /\ round'.state = s /\ round'.pc = "planning"
  BY <1>6
<1>10. MarkInv' /\ EachActsOnce' /\ NewsInv'
  BY <1>9 DEF MarkInv, EachActsOnce, NewsInv
<1>11. ShowsInv'
  <2>1. ASSUME settled' # Nil PROVE Shows(s, settled')
    <3>1. listed # Nil /\ \A p \in PodNames : Has(running, p) /\ running[p] = template
      BY <1>1, <2>1
    <3>2. settled' = template
      BY <1>1, <3>1
    <3>3. s.annotations = seen.annotations /\ s.resources = seen.resources
      BY <1>5
    <3>4. Shows(s, template)
      BY <1>2, <1>4, <3>1, <3>3, SeenAtRest
    <3> QED
      BY <3>2, <3>4
  <2> QED
    BY <1>9, <2>1 DEF ShowsInv, Shows
<1>12. MeasuredInv'
  <2>1. DOMAIN s.objectives = known
    BY <1>5
  <2>2. ASSUME NEW k \in known \ {"availability"} PROVE s.objectives[k] \in {QueryFailed, 0, load[k]}
    <3>1. knownProfiles[k].profileType # ProfileTypeFromText("availability")
      BY <1>2, KnownProfile
    <3>2. s.objectives[k] = measured[k]
      BY <1>5, <3>1
    <3>3. measured[k] \in {QueryFailed, 0, load[k]}
      BY DEF Measurements
    <3> QED
      BY <3>2, <3>3
  <2>3. known = {k \in config'.intent : Has(knownProfiles', k)}
    BY <1>2 DEF knownProfiles
  <2> HIDE DEF known
  <2>4. /\ DOMAIN s.objectives = {k \in config'.intent : Has(knownProfiles', k)}
        /\ \A k \in DOMAIN s.objectives \ {"availability"} : s.objectives[k] \in {QueryFailed, 0, load'[k]}
    BY <1>2, <2>1, <2>2, <2>3
  <2> QED
    BY <1>9, <2>4 DEF MeasuredInv, Has, Entries
<1>13. ClusterInv'
  BY <1>1, <1>2 DEF ClusterInv
<1> QED
  BY <1>8, <1>10, <1>11, <1>12, <1>13 DEF IInv

LEMMA NextIInv ==
  ASSUME IInv, [PlatformNext]_platformVars
  PROVE  IInv'
<1>1. CASE Observe
  BY <1>1, ObserveIInv
<1>2. CASE PlanFound
  BY <1>2, PlanFoundIInv
<1>3. CASE \E a \in PlatformActuators : Expand(a)
  BY <1>3, ExpandIInv
<1>4. CASE \E a \in PlatformActuators : PerformFails(a)
  BY <1>4, PerformIInv
<1>5. CASE RdtPerform \/ PowerPerform \/ PowerPanics
  BY <1>5, PerformIInv
<1>6. CASE ClusterStep
  BY <1>6, ClusterIInv DEF ClusterStep
<1>7. CASE UNCHANGED platformVars
  <2>1. UNCHANGED <<template, running, config, load, round, settled>>
    BY <1>7 DEF platformVars
  <2>2. ClusterInv'
    BY <2>1 DEF IInv, ClusterInv
  <2> QED
    BY <2>1, <2>2, RoundKept DEF IInv
<1> QED
  BY <1>1, <1>2, <1>3, <1>4, <1>5, <1>6, <1>7 DEF PlatformNext, RoundStep

\* The invariant the properties rest on, for every step of every round.
THEOREM PlatformInvariant == PlatformSpec => []IInv
BY InitIInv, NextIInv, PTL DEF PlatformSpec

-----------------------------------------------------------------------------
(* What it shows. *)

\* Along a path of any length the RDT and the energy actuator act once at most:
\* the marks they leave in a state survive the copies and the messages, so that
\* NextState finds them (EachActsOnce).
THEOREM ActuatorsActOnce == PlatformSpec => []EachActsOnce
<1>1. IInv => EachActsOnce
  BY DEF IInv
<1> QED
  BY <1>1, PlatformInvariant, PTL

\* The desired state has every objective of the intent.
LEMMA GoalObjectives ==
  ASSUME config.intent \in Intents
  PROVE  Entries(goal.objectives) = [k \in config.intent |-> 1]
<1>1. PICK d : d = goal.objectives /\ d = [k \in config.intent |-> 1]
  BY DEF goal, getDesiredState
<1>2. d \in ObjectiveMaps
  <2>1. DOMAIN AllProfiles = {"latency", "power", "availability"}
    BY DEF AllProfiles
  <2>2. /\ d \in [DOMAIN d -> {QueryFailed, 0, Good, Bad}]
        /\ DOMAIN d \subseteq DOMAIN AllProfiles
    BY <1>1, <2>1, PlatformAssumption DEF Good
  <2> QED
    BY <2>2, MapIn, Zenon DEF ObjectiveMaps
<1> QED
  BY <1>1, <1>2, NilAssumption DEF Entries

LEMMA Desired ==
  ASSUME IInv, round.pc = "planning", round.path = <<>>, IsBetter(round.state, goal, knownProfiles),
         \A k \in DOMAIN Entries(round.state.objectives) : round.state.objectives[k] \notin {QueryFailed, 0},
         NEW j \in config.intent \ {"availability"}
  PROVE  load[j] = Good
<1>1. ClusterInv
  BY DEF IInv
<1>2. CASE \A k \in config.intent \ {"availability"} : load[k] = Good
  BY <1>2
<1>3. CASE /\ DOMAIN round.state.objectives = {k \in config.intent : Has(knownProfiles, k)}
           /\ \A k \in DOMAIN round.state.objectives \ {"availability"} :
                round.state.objectives[k] \in {QueryFailed, 0, load[k]}
  <2>1. PICK o : o = round.state.objectives
    OBVIOUS
  <2>2. PICK d : d = Entries(goal.objectives) /\ d = [k \in config.intent |-> 1]
    BY <1>1, GoalObjectives DEF ClusterInv
  <2>3. /\ Entries(o) # Empty /\ Cardinality(DOMAIN Entries(o)) = Cardinality(DOMAIN d)
        /\ AllAsGood(Entries(o), d, knownProfiles)
    BY <2>1, <2>2 DEF IsBetter
  <2>4. Entries(o) = o
    BY <2>3 DEF Entries
  <2>5. DOMAIN o = config.intent
    <3>1. IsFiniteSet(config.intent)
      <4>1. \A S, x : IsFiniteSet(S) => IsFiniteSet(S \cup {x})
        BY FS_AddElement
      <4>2. IsFiniteSet((({} \cup {"latency"}) \cup {"power"}) \cup {"availability"})
        BY <4>1, FS_EmptySet
      <4>3. config.intent \subseteq (({} \cup {"latency"}) \cup {"power"}) \cup {"availability"}
        BY <1>1, PlatformAssumption DEF ClusterInv
      <4> QED
        BY <4>2, <4>3, FS_Subset
    <3>2. DOMAIN o \subseteq config.intent
      BY <1>3, <2>1
    <3>3. Cardinality(DOMAIN o) = Cardinality(config.intent)
      BY <2>2, <2>3, <2>4
    <3> QED
      BY <3>1, <3>2, <3>3, FS_Subset
  <2>6. Has(knownProfiles, j)
    BY <1>3, <2>1, <2>5
  <2>7. ProfileOf(knownProfiles, j).minimize = TRUE
    BY <1>1, <2>6, KnownProfile DEF ProfileOf
  <2>8. o[j] <= d[j]
    BY <2>3, <2>4, <2>5, <2>7 DEF AllAsGood
  <2>9. o[j] = load[j]
    BY <1>3, <2>1, <2>4, <2>5
  <2>10. load[j] \in {1, 2} /\ d[j] = 1
    BY <1>1, <2>2 DEF ClusterInv, Good, Bad
  <2> QED
    BY <2>8, <2>9, <2>10 DEF Good
<1> QED
  BY <1>2, <1>3 DEF IInv, MeasuredInv

\* A workload that no round has a plan for, as its current state looks as
\* desired, is as desired, unless a query failed or panicked (SatisfiedOrBlind).
THEOREM NoFalseContentment == PlatformSpec => []SatisfiedOrBlind
<1>1. IInv => SatisfiedOrBlind
  BY Desired, Zenon DEF SatisfiedOrBlind
<1> QED
  BY <1>1, PlatformInvariant, PTL

LEMMA OptionIsNew ==
  ASSUME IInv, settled # Nil, Mine(RDT) # {}, template.annotations = settled.annotations
  PROVE  AskedOption # CurrentOption(template)
<1>1. RoundInv /\ template \in Templates
  BY DEF IInv, ClusterInv
<1>2. PICK i \in Mine(RDT) : AskedOption = round.path[i].properties.option
  BY <1>1, RdtUpdatedOK
<1>3. i \in DOMAIN round.path /\ round.path[i].name = RDT
  BY DEF Mine
<1>4. round.path[i].properties.option # CurrentOption(settled)
  BY <1>3 DEF IInv, NewsInv, Changes
<1>5. CurrentOption(settled) = CurrentOption(template)
  BY DEF CurrentOption
<1> QED
  BY <1>2, <1>4, <1>5

LEMMA ProfileIsNew ==
  ASSUME TellApart, IInv, settled # Nil, Mine(Power) # {}, ~config.proactive,
         template.requests = settled.requests, PowerCan
  PROVE  PowerUpdated # template
<1>1. RoundInv /\ template \in Templates /\ settled \in Templates
  BY DEF IInv, ClusterInv
<1>2. PICK s : s = [resources |-> ResourcesOf(settled)]
  OBVIOUS
<1>3. PICK i \in Mine(Power) : AskedProfile = round.path[i].properties.profile
  BY <1>1, PowerUpdatedOK
<1>4. i \in DOMAIN round.path /\ round.path[i].name = Power
  BY DEF Mine
<1>5. CurrentProfile(s) # AskedProfile \/ Outgrown(s)
  BY <1>2, <1>3, <1>4 DEF IInv, NewsInv, Changes
<1>6. template.requests # Nil
  <2> SUFFICES ASSUME template.requests = Nil PROVE FALSE
    OBVIOUS
  <2>1. AskedProfile = "None"
    BY DEF PowerCan
  <2>2. DOMAIN s.resources = {"cpu"} /\ Entries(s.resources) = s.resources
    <3>1. s.resources = ResourcesOf(settled)
      BY <1>2
    <3> QED
      BY <1>1, <3>1, TemplateFields, ResourcesThere DEF ResourcesOf
  <2>3. ProfileKeys(s) = {}
    <3>1. \A q : <<"cpu", q>> \notin Contains
      BY ContainsAssumption
    <3> QED
      BY <2>2, <3>1 DEF ProfileKeys
  <2> QED
    BY <1>5, <2>1, <2>3 DEF CurrentProfile, Outgrown
<1>7. PICK t : t = [resources |-> PowerUpdated.requests]
  OBVIOUS
<1>8. ~Outgrown(t) /\ CurrentProfile(t) = AskedProfile
  BY <1>1, <1>6, <1>7, PowerUpdatedOK
<1>9. ASSUME PowerUpdated = template PROVE FALSE
  <2>1. s.resources = t.resources
    BY <1>2, <1>6, <1>7, <1>9 DEF ResourcesOf
  <2>2. CurrentProfile(s) = CurrentProfile(t) /\ (Outgrown(s) <=> Outgrown(t))
    BY <2>1, SameProfile
  <2> QED
    BY <1>5, <1>8, <2>2
<1> QED
  BY <1>9

\* A plan for a workload at rest asks for an option that is not set and changes the
\* profile or its allocation (OnlyNews), if the configured profiles can be told
\* apart by the parts of their names: the path was planned from what the template
\* says, and no action on it asks for that.
THEOREM PlansAreNews ==
  ASSUME TellApart
  PROVE  PlatformSpec => []OnlyNews
<1>1. IInv => OnlyNews
  BY TellApart, OptionIsNew, ProfileIsNew, Zenon DEF OnlyNews
<1> QED
  BY <1>1, PlatformInvariant, PTL

-----------------------------------------------------------------------------
(* An actuator answers the same behind its messages. *)

HostData(s) == [k \in DOMAIN Entries(s.data) |-> Entries(Entries(s.data)[k])]

\* Two states nobody who reads their maps can tell apart.
Same(s, t) ==
    /\ Entries(s.objectives) = Entries(t.objectives) /\ Entries(s.pods) = Entries(t.pods)
    /\ HostData(s) = HostData(t)
    /\ Entries(s.resources) = Entries(t.resources)
    /\ Entries(s.annotations) = Entries(t.annotations)

\* Maps with the same entries are equal, unless they have none.
LEMMA SameEntries ==
  ASSUME NEW m, NEW n, Entries(m) = Entries(n)
  PROVE  /\ \A k : Has(m, k) <=> Has(n, k)
         /\ \A k : Has(m, k) => m = n
         /\ Entries(m) # Empty => m = n
<1>1. \A k : Has(m, k) <=> Has(n, k)
  BY DEF Has
<1>2. \A x : Entries(x) # Empty => Entries(x) = x
  BY DEF Entries
<1>3. \A x, k : Has(x, k) => Entries(x) # Empty
  BY EmptyIn DEF Has
<1> QED
  BY <1>1, <1>2, <1>3

LEMMA SameData ==
  ASSUME NEW s, NEW t, HostData(s) = HostData(t)
  PROVE  /\ DOMAIN Entries(s.data) = DOMAIN Entries(t.data)
         /\ \A k \in DOMAIN Entries(s.data) :
              Entries(Entries(s.data)[k]) = Entries(Entries(t.data)[k])
<1>1. \A u : /\ DOMAIN HostData(u) = DOMAIN Entries(u.data)
             /\ \A k \in DOMAIN Entries(u.data) : HostData(u)[k] = Entries(Entries(u.data)[k])
  BY DEF HostData
<1> QED
  BY <1>1

\* A state that was sent is the same to its reader.
LEMMA SentSame ==
  ASSUME NEW s, StateOK(s)
  PROVE  Same(Sent(s), s) /\ Sent(s).tolerations = Nil
<1> DEFINE D == [k \in DOMAIN Entries(s.data) |-> Delivered(Entries(s.data)[k])]
<1>1. D \in DataMaps /\ D # Nil
  <2>1. PICK m \in DataMaps : m = Entries(s.data)
    BY EntriesIn DEF StateOK
  <2>2. D = [k \in DOMAIN m |-> Delivered(m[k])]
    BY <2>1
  <2>3. D \in DataMaps
    BY <2>2, DataIn
  <2> QED
    BY <2>3, NilAssumption
<1>2. /\ Sent(s).objectives = Delivered(s.objectives) /\ Sent(s).tolerations = Nil
      /\ Sent(s).pods = Entries(Delivered(Entries(s.pods)))
      /\ Sent(s).data = Entries(Delivered(D))
  BY DEF Sent, toState, deliveredState, toGrpcState
<1>3. DOMAIN D = DOMAIN Entries(s.data) /\ \A k \in DOMAIN D : D[k] = Delivered(Entries(s.data)[k])
  OBVIOUS
<1> HIDE DEF D
<1>4. Entries(Sent(s).data) = D
  BY <1>1, <1>2 DEF Entries, Delivered
<1>5. \A m : Entries(Delivered(m)) = Entries(m)
  BY DEF Entries, Delivered
<1>6. HostData(Sent(s)) = HostData(s)
  <2>1. \A k \in DOMAIN D : Entries(D[k]) = Entries(Entries(s.data)[k])
    BY <1>3, <1>5
  <2> QED
    BY <1>3, <1>4, <2>1 DEF HostData
<1>7. /\ Entries(Sent(s).objectives) = Entries(s.objectives)
      /\ Entries(Sent(s).pods) = Entries(s.pods)
  BY <1>2, <1>5, Delivery
<1>8. /\ Entries(Sent(s).annotations) = Entries(s.annotations)
      /\ Entries(Sent(s).resources) = Entries(s.resources)
  BY SentOK DEF Like
<1> QED
  BY <1>2, <1>6, <1>7, <1>8 DEF Same

\* The profiles keep their types: the plugin goes from the number to the name and
\* from the name to the number.
LEMMA ProfilesSent ==
  ASSUME ClusterInv
  PROVE  toProfiles(Delivered(toGrpcProfiles(knownProfiles))) = knownProfiles
<1>1. PICK K : K = config.known
  OBVIOUS
<1>2. DOMAIN AllProfiles = {"latency", "power", "availability"}
  BY DEF AllProfiles
<1>3. K \subseteq DOMAIN AllProfiles
  BY <1>1, <1>2, PlatformAssumption DEF ClusterInv
<1>4. PICK P : P = [k \in K |-> AllProfiles[k]]
  OBVIOUS
<1>5. knownProfiles = P
  BY <1>1, <1>4 DEF knownProfiles
<1>6. P \in ProfileMaps /\ P # Nil
  BY <1>3, <1>4, NilAssumption DEF ProfileMaps
<1>7. \A k \in K : P[k] = [profileType |-> P[k].profileType, minimize |-> P[k].minimize]
  BY <1>3, <1>4 DEF AllProfiles
<1>8. toGrpcProfiles(P) = P
  <2>1. toGrpcProfiles(P) = [k \in K |-> toGrpcProfile(P[k])]
    BY <1>4, <1>6 DEF toGrpcProfiles, Entries
  <2>2. \A k \in K : toGrpcProfile(P[k]) = P[k]
    BY <1>7 DEF toGrpcProfile
  <2> QED
    BY <1>4, <2>1, <2>2
<1>9. Entries(Delivered(P)) = P
  BY <1>6 DEF Entries, Delivered
<1>10. \A k \in K : ProfileTypeFromText(ProfileTypeString(P[k].profileType)) = P[k].profileType
  <2>1. /\ ProfileTypeString(1) = "latency" /\ ProfileTypeString(2) = "availability"
        /\ ProfileTypeString(4) = "power"
    BY DEF ProfileTypeString, ProfileTypes
  <2>2. \A k \in K : P[k].profileType \in {1, 2, 4}
    BY <1>2, <1>3, <1>4, TypeNumbers DEF AllProfiles
  <2> QED
    BY <2>1, <2>2, TypeNumbers
<1>11. toProfiles(Delivered(P)) =
         [k \in K |-> [profileType |-> P[k].profileType, minimize |-> P[k].minimize]]
  <2>1. toProfiles(Delivered(P)) =
          [k \in K |-> [profileType |-> ProfileTypeFromText(ProfileTypeString(P[k].profileType)),
                        minimize |-> P[k].minimize]]
    BY <1>4, <1>9 DEF toProfiles
  <2> QED
    BY <1>10, <2>1
<1>12. [k \in K |-> [profileType |-> P[k].profileType, minimize |-> P[k].minimize]] = P
  BY <1>4, <1>7
<1> QED
  BY <1>5, <1>8, <1>11, <1>12

\* The comparison with the goal looks at the entries.
LEMMA SameIsBetter ==
  ASSUME NEW s, NEW t, Entries(s.objectives) = Entries(t.objectives),
         NEW g, NEW h, Entries(g.objectives) = Entries(h.objectives), NEW profs
  PROVE  IsBetter(s, g, profs) <=> IsBetter(t, h, profs)
BY DEF IsBetter

\* Copies of such states differ at most in maps that are missing or empty.
LEMMA SameCopy ==
  ASSUME NEW s, NEW t, Same(s, t)
  PROVE  LET c == StateDeepCopy(s)  d == StateDeepCopy(t) IN
         /\ c = [objectives |-> d.objectives, tolerations |-> Nil, pods |-> d.pods,
                 data |-> d.data, resources |-> s.resources, annotations |-> s.annotations]
         /\ d = [objectives |-> d.objectives, tolerations |-> Nil, pods |-> d.pods,
                 data |-> d.data, resources |-> t.resources, annotations |-> t.annotations]
<1>1. \A u : StateDeepCopy(u) = [objectives |-> Entries(u.objectives), tolerations |-> Nil,
                                 pods |-> Entries(u.pods), data |-> HostData(u),
                                 resources |-> u.resources, annotations |-> u.annotations]
  BY DEF StateDeepCopy, HostData
<1>2. /\ Entries(s.objectives) = Entries(t.objectives) /\ Entries(s.pods) = Entries(t.pods)
      /\ HostData(s) = HostData(t)
  BY DEF Same
<1>3. PICK o, p, m : /\ o = Entries(s.objectives) /\ p = Entries(s.pods) /\ m = HostData(s)
  OBVIOUS
<1>4. /\ StateDeepCopy(s) = [objectives |-> o, tolerations |-> Nil, pods |-> p, data |-> m,
                             resources |-> s.resources, annotations |-> s.annotations]
      /\ StateDeepCopy(t) = [objectives |-> o, tolerations |-> Nil, pods |-> p, data |-> m,
                             resources |-> t.resources, annotations |-> t.annotations]
  BY <1>1, <1>2, <1>3
<1> QED
  BY <1>4

LEMMA SamePredicted ==
  ASSUME NEW s, NEW t, StateOK(s), StateOK(t), Same(s, t), NEW profs, NEW value
  PROVE  /\ Same(Predicted(s, profs, value), Predicted(t, profs, value))
         /\ IsState(Predicted(s, profs, value)) /\ IsState(Predicted(t, profs, value))
         /\ Predicted(s, profs, value).tolerations = Nil
         /\ Predicted(t, profs, value).tolerations = Nil
<1> DEFINE o(u) == [k \in DOMAIN StateDeepCopy(u).objectives |->
                      IF Latency(profs, k) THEN value ELSE StateDeepCopy(u).objectives[k]]
<1>1. ASSUME NEW u, StateOK(u)
      PROVE  /\ Predicted(u, profs, value) =
                  [objectives |-> o(u), tolerations |-> StateDeepCopy(u).tolerations,
                   pods |-> StateDeepCopy(u).pods, data |-> StateDeepCopy(u).data,
                   resources |-> u.resources, annotations |-> u.annotations]
  <2>1. StateOK(StateDeepCopy(u)) /\ StateDeepCopy(u).annotations = u.annotations
        /\ StateDeepCopy(u).resources = u.resources
    BY <1>1, CopyOK
  <2>2. Predicted(u, profs, value) = [StateDeepCopy(u) EXCEPT !.objectives = o(u)]
    BY DEF Predicted
  <2> HIDE DEF o
  <2> QED
    BY <2>1, <2>2, NewObjectives DEF StateOK
<1>2. /\ StateDeepCopy(s).objectives = StateDeepCopy(t).objectives
      /\ StateDeepCopy(s).pods = StateDeepCopy(t).pods
      /\ StateDeepCopy(s).data = StateDeepCopy(t).data
      /\ StateDeepCopy(s).tolerations = Nil /\ StateDeepCopy(t).tolerations = Nil
  BY SameCopy
<1>3. o(s) = o(t)
  BY <1>2
<1> HIDE DEF o
<1>4. PICK p : p = Predicted(s, profs, value)
  OBVIOUS
<1>5. PICK q : q = Predicted(t, profs, value)
  OBVIOUS
<1>6. /\ p = [objectives |-> p.objectives, tolerations |-> Nil, pods |-> p.pods, data |-> p.data,
              resources |-> s.resources, annotations |-> s.annotations]
      /\ q = [objectives |-> p.objectives, tolerations |-> Nil, pods |-> p.pods, data |-> p.data,
              resources |-> t.resources, annotations |-> t.annotations]
  BY <1>1, <1>2, <1>3, <1>4, <1>5
<1>7. Same(p, q) /\ IsState(p) /\ IsState(q) /\ p.tolerations = Nil /\ q.tolerations = Nil
  BY <1>6 DEF Same, HostData, IsState
<1> QED
  BY <1>4, <1>5, <1>7

\* The mark is added to what is there, or is the only annotation.
LEMMA SameMarked ==
  ASSUME NEW s, NEW t, IsState(s), IsState(t), Same(s, t)
  PROVE  /\ Same(RdtMarked(s), RdtMarked(t))
         /\ RdtMarked(s).tolerations = s.tolerations /\ RdtMarked(t).tolerations = t.tolerations
<1> DEFINE mark(m) == IF Entries(m) # Empty THEN With(m, RdtVisited, "")
                      ELSE [k \in {RdtVisited} |-> ""]
<1>1. ASSUME NEW u, IsState(u)
      PROVE  RdtMarked(u) = [objectives |-> u.objectives, tolerations |-> u.tolerations,
                             pods |-> u.pods, data |-> u.data, resources |-> u.resources,
                             annotations |-> mark(u.annotations)]
  <2>1. RdtMarked(u) = [u EXCEPT !.annotations = mark(u.annotations)]
    BY DEF RdtMarked
  <2> HIDE DEF mark
  <2> QED
    BY <1>1, <2>1, NewAnnotations
<1>2. mark(s.annotations) = mark(t.annotations)
  <2>1. Entries(s.annotations) = Entries(t.annotations)
    BY DEF Same
  <2>2. CASE Entries(s.annotations) # Empty
    <3>1. s.annotations = t.annotations
      BY <2>1, <2>2, SameEntries
    <3> QED
      BY <3>1
  <2>3. CASE Entries(s.annotations) = Empty
    BY <2>1, <2>3
  <2> QED
    BY <2>2, <2>3
<1> HIDE DEF mark
<1>3. PICK p : p = RdtMarked(s)
  OBVIOUS
<1>4. PICK q : q = RdtMarked(t)
  OBVIOUS
<1>5. /\ p.objectives = s.objectives /\ p.pods = s.pods /\ p.data = s.data
      /\ p.resources = s.resources /\ p.tolerations = s.tolerations
      /\ q.objectives = t.objectives /\ q.pods = t.pods /\ q.data = t.data
      /\ q.resources = t.resources /\ q.tolerations = t.tolerations
      /\ p.annotations = q.annotations
  BY <1>1, <1>2, <1>3, <1>4
<1> QED
  BY <1>3, <1>4, <1>5 DEF Same, HostData

\* The conditions on the PODs.
LEMMA SamePods ==
  ASSUME NEW s, NEW t, Same(s, t)
  PROVE  (\E p \in DOMAIN Entries(s.pods) : s.pods[p].qos # "Guaranteed")
           <=> (\E p \in DOMAIN Entries(t.pods) : t.pods[p].qos # "Guaranteed")
<1>1. Entries(s.pods) = Entries(t.pods)
  BY DEF Same
<1>2. \A p \in DOMAIN Entries(s.pods) : s.pods = t.pods
  BY <1>1, SameEntries DEF Has
<1> QED
  BY <1>1, <1>2

LEMMA SameRdt ==
  ASSUME NEW s, NEW t, StateOK(s), StateOK(t), Same(s, t),
         NEW g, NEW h, Entries(g.objectives) = Entries(h.objectives),
         NEW profs, NEW prediction, NEW x \in RdtNextState(s, g, profs, prediction)
  PROVE  \E y \in RdtNextState(t, h, profs, prediction) :
           /\ Same(x.state, y.state) /\ y.action = x.action
           /\ x.state.tolerations = Nil /\ y.state.tolerations = Nil
<1> DEFINE asks(u)     == \E k \in DOMAIN Entries(u.objectives) : Latency(profs, k)
           found(u, j) == asks(u) => prediction[j] # QueryFailed
           after(u)    == [j \in DOMAIN Options |-> Predicted(u, profs, prediction[j])]
           better(u, v) == [j \in DOMAIN Options |-> IsBetter(after(u)[j], v, profs)]
           none(u, v)  == [j \in DOMAIN Options |->
                             Options[j] = "None" /\ better(u, v)[j] /\ found(u, j)]
           fits(u, v)  == [j \in DOMAIN Options |->
                             asks(u) /\ found(u, j) /\ prediction[j] <= Good /\ ~none(u, v)[j]]
           tried(u, v) == {i \in DOMAIN Options :
                             \A j \in 1 .. i - 1 : ~none(u, v)[j] /\ ~(fits(u, v)[j] /\ better(u, v)[j])}
           Nones(u, v) == {[state |-> after(u)[i], action |-> RdtAction("None")] :
                             i \in {j \in tried(u, v) : none(u, v)[j] /\ Offers("None", CurrentOption(u))}}
           Others(u, v) == {[state |-> RdtMarked(after(u)[i]), action |-> RdtAction(Options[i])] :
                              i \in {j \in tried(u, v) : fits(u, v)[j] /\ Offers(Options[j], CurrentOption(u))}}
<1>1. ASSUME NEW u, NEW v
      PROVE  RdtFindStates(u, v, profs, CurrentOption(u), prediction) =
               IF \E i \in tried(u, v) : none(u, v)[i] THEN Nones(u, v) ELSE Others(u, v)
  BY DEF RdtFindStates
<1>2. CurrentOption(s) = CurrentOption(t) /\ (Has(s.annotations, RdtVisited) <=> Has(t.annotations, RdtVisited))
  BY SameOption DEF Same
<1>3. asks(s) = asks(t)
  BY DEF Same
<1>4. \A j \in DOMAIN Options :
        /\ Same(after(s)[j], after(t)[j])
        /\ IsState(after(s)[j]) /\ IsState(after(t)[j])
        /\ after(s)[j].tolerations = Nil /\ after(t)[j].tolerations = Nil
  BY SamePredicted
<1> HIDE DEF asks, after
<1>5. \A j \in DOMAIN Options : IsBetter(after(s)[j], g, profs) <=> IsBetter(after(t)[j], h, profs)
  <2>1. ASSUME NEW j \in DOMAIN Options
        PROVE  IsBetter(after(s)[j], g, profs) <=> IsBetter(after(t)[j], h, profs)
    <3>1. Entries(after(s)[j].objectives) = Entries(after(t)[j].objectives)
      BY <1>4 DEF Same
    <3> QED
      BY <3>1, SameIsBetter
  <2> QED
    BY <2>1
<1>6. better(s, g) = better(t, h)
  <2>1. \A j \in DOMAIN Options : /\ IsBetter(after(s)[j], g, profs) \in BOOLEAN
                                  /\ IsBetter(after(t)[j], h, profs) \in BOOLEAN
    BY DEF IsBetter
  <2>2. \A j \in DOMAIN Options : IsBetter(after(s)[j], g, profs) = IsBetter(after(t)[j], h, profs)
    BY <1>5, <2>1, Zenon
  <2> QED
    BY <2>2
<1> HIDE DEF better
<1>7. none(s, g) = none(t, h)
  BY <1>3, <1>6
<1> HIDE DEF none
<1>8. fits(s, g) = fits(t, h)
  BY <1>3, <1>7
<1> HIDE DEF fits
<1>9. tried(s, g) = tried(t, h) /\ tried(t, h) \subseteq DOMAIN Options
  BY <1>6, <1>7, <1>8
<1> HIDE DEF tried
<1>10. RdtNextState(t, h, profs, prediction) = RdtFindStates(t, h, profs, CurrentOption(t), prediction)
       /\ x \in RdtFindStates(s, g, profs, CurrentOption(s), prediction)
  BY <1>2, SamePods DEF RdtNextState
<1>11. CASE \E i \in tried(s, g) : none(s, g)[i]
  <2>1. x \in Nones(s, g) /\ RdtNextState(t, h, profs, prediction) = Nones(t, h)
    BY <1>1, <1>7, <1>9, <1>10, <1>11
  <2>2. PICK i \in tried(s, g) : /\ x = [state |-> after(s)[i], action |-> RdtAction("None")]
                                 /\ none(s, g)[i] /\ Offers("None", CurrentOption(s))
    BY <2>1
  <2>3. [state |-> after(t)[i], action |-> RdtAction("None")] \in Nones(t, h)
    BY <1>2, <1>7, <1>9, <2>2
  <2> HIDE DEF Nones
  <2> QED
    BY <1>4, <1>9, <2>1, <2>2, <2>3
<1>12. CASE ~\E i \in tried(s, g) : none(s, g)[i]
  <2>1. x \in Others(s, g) /\ RdtNextState(t, h, profs, prediction) = Others(t, h)
    BY <1>1, <1>7, <1>9, <1>10, <1>12
  <2>2. PICK i \in tried(s, g) : /\ x = [state |-> RdtMarked(after(s)[i]), action |-> RdtAction(Options[i])]
                                 /\ fits(s, g)[i] /\ Offers(Options[i], CurrentOption(s))
    BY <2>1
  <2>3. [state |-> RdtMarked(after(t)[i]), action |-> RdtAction(Options[i])] \in Others(t, h)
    BY <1>2, <1>8, <1>9, <2>2
  <2>4. /\ Same(RdtMarked(after(s)[i]), RdtMarked(after(t)[i]))
        /\ RdtMarked(after(s)[i]).tolerations = Nil /\ RdtMarked(after(t)[i]).tolerations = Nil
    BY <1>4, <1>9, SameMarked
  <2> HIDE DEF Others
  <2> QED
    BY <2>1, <2>2, <2>3, <2>4, SMTT(30)
<1> QED
  BY <1>11, <1>12

LEMMA SamePowerMarked ==
  ASSUME NEW s, NEW t, StateOK(s), StateOK(t), Same(s, t), NEW objectives, NEW value
  PROVE  /\ Same(PowerMarked(s, objectives, value), PowerMarked(t, objectives, value))
         /\ PowerMarked(s, objectives, value).tolerations = Nil
         /\ PowerMarked(t, objectives, value).tolerations = Nil
<1> DEFINE o(u) == [k \in DOMAIN StateDeepCopy(u).objectives \cup objectives |->
                      IF k \in objectives THEN value ELSE StateDeepCopy(u).objectives[k]]
           d(u) == With(StateDeepCopy(u).data, Power, [x \in {Power} |-> 1])
<1>1. ASSUME NEW u, StateOK(u)
      PROVE  PowerMarked(u, objectives, value) =
               [objectives |-> o(u), tolerations |-> StateDeepCopy(u).tolerations,
                pods |-> StateDeepCopy(u).pods, data |-> d(u),
                resources |-> u.resources, annotations |-> u.annotations]
  <2>1. PICK c : c = StateDeepCopy(u)
    OBVIOUS
  <2>2. IsState(c) /\ c.annotations = u.annotations /\ c.resources = u.resources
    BY <1>1, <2>1, CopyOK DEF StateOK
  <2>3. PowerMarked(u, objectives, value) = [c EXCEPT !.objectives = o(u), !.data = d(u)]
    BY <2>1 DEF PowerMarked
  <2> HIDE DEF o, d
  <2>4. [c EXCEPT !.objectives = o(u), !.data = d(u)] =
          [objectives |-> o(u), tolerations |-> c.tolerations, pods |-> c.pods, data |-> d(u),
           resources |-> c.resources, annotations |-> c.annotations]
    BY <2>2, NewObjectivesAndData
  <2> QED
    BY <2>1, <2>2, <2>3, <2>4
<1>2. /\ StateDeepCopy(s).objectives = StateDeepCopy(t).objectives
      /\ StateDeepCopy(s).pods = StateDeepCopy(t).pods
      /\ StateDeepCopy(s).data = StateDeepCopy(t).data
      /\ StateDeepCopy(s).tolerations = Nil /\ StateDeepCopy(t).tolerations = Nil
  BY SameCopy
<1>3. o(s) = o(t) /\ d(s) = d(t)
  BY <1>2
<1> HIDE DEF o, d
<1>4. PICK p : p = PowerMarked(s, objectives, value)
  OBVIOUS
<1>5. PICK q : q = PowerMarked(t, objectives, value)
  OBVIOUS
<1>6. /\ p.objectives = q.objectives /\ p.pods = q.pods /\ p.data = q.data
      /\ p.tolerations = Nil /\ q.tolerations = Nil
      /\ p.resources = s.resources /\ q.resources = t.resources
      /\ p.annotations = s.annotations /\ q.annotations = t.annotations
  BY <1>1, <1>2, <1>3, <1>4, <1>5
<1> QED
  BY <1>4, <1>5, <1>6 DEF Same, HostData

\* What the energy actuator reads of a state: its profile, whether the profile
\* fits its CPU units, and whether there is renewable energy.
LEMMA SameReadings ==
  ASSUME NEW s, NEW t, Same(s, t)
  PROVE  /\ CurrentProfile(s) = CurrentProfile(t)
         /\ Outgrown(s) <=> Outgrown(t)
         /\ EnoughRenewable(s) <=> EnoughRenewable(t)
         /\ Has(s.data, Power) <=> Has(t.data, Power)
<1>1. /\ \A k : Has(s.resources, k) <=> Has(t.resources, k)
      /\ \A k : Has(s.resources, k) => s.resources = t.resources
  BY SameEntries DEF Same
<1>2. ProfileKeys(s) = ProfileKeys(t) /\ ProfileKey(s) = ProfileKey(t)
  <2>1. ProfileKeys(s) = ProfileKeys(t)
    BY DEF ProfileKeys, Same
  <2> QED
    BY <2>1 DEF ProfileKey
<1>3. /\ CurrentProfile(s) = CurrentProfile(t)
      /\ Outgrown(s) <=> Outgrown(t)
  <2>1. CASE ProfileKeys(s) = {}
    BY <1>2, <2>1 DEF CurrentProfile, Outgrown
  <2>2. CASE ProfileKeys(s) # {}
    <3>1. PICK k : k \in DOMAIN Entries(s.resources)
      BY <2>2 DEF ProfileKeys
    <3>2. s.resources = t.resources
      BY <1>1, <3>1 DEF Has
    <3> QED
      BY <1>2, <3>2 DEF CurrentProfile, Outgrown
  <2> QED
    BY <2>1, <2>2
<1>4. /\ DOMAIN Entries(s.data) = DOMAIN Entries(t.data)
      /\ \A k \in DOMAIN Entries(s.data) :
           Entries(Entries(s.data)[k]) = Entries(Entries(t.data)[k])
  BY SameData DEF Same
<1>5. /\ Has(s.data, Renewable) <=> Has(t.data, Renewable)
      /\ Has(s.data, Power) <=> Has(t.data, Power)
  BY <1>4 DEF Has
<1>6. EnoughRenewable(s) <=> EnoughRenewable(t)
  <2>1. CASE Has(s.data, Renewable)
    <3>1. Entries(s.data) = s.data /\ Entries(t.data) = t.data
      BY <1>5, <2>1, EmptyIn DEF Has, Entries
    <3>2. PICK m, n : m = s.data[Renewable] /\ n = t.data[Renewable]
      OBVIOUS
    <3>3. Entries(m) = Entries(n)
      BY <1>4, <2>1, <3>1, <3>2 DEF Has
    <3>4. \A k \in DOMAIN Entries(m) : m = n
      BY <3>3, SameEntries DEF Has
    <3> QED
      BY <1>5, <2>1, <3>2, <3>3, <3>4 DEF EnoughRenewable
  <2>2. CASE ~Has(s.data, Renewable)
    BY <1>5, <2>2 DEF EnoughRenewable
  <2> QED
    BY <2>1, <2>2
<1> QED
  BY <1>3, <1>5, <1>6

LEMMA SamePower ==
  ASSUME NEW s, NEW t, StateOK(s), StateOK(t), Same(s, t),
         NEW g, NEW h, Entries(g.objectives) = Entries(h.objectives),
         NEW profs, NEW forecast, NEW x \in PowerNextState(s, g, profs, forecast)
  PROVE  \E y \in PowerNextState(t, h, profs, forecast) :
           /\ Same(x.state, y.state) /\ y.action = x.action
           /\ x.state.tolerations = Nil /\ y.state.tolerations = Nil
<1> DEFINE objectives(v) == {k \in DOMAIN Entries(v.objectives) : Considered(profs, k)}
           onlyPower(v)  == \A k \in objectives(v) : ~Latency(profs, k)
           choices(v)    == findProfile(objectives(v), onlyPower(v), forecast)
           set(u, v, p, n) == [state |-> PowerMarked(u, objectives(v), n), action |-> PowerAction(p)]
           many(u, v)    == {set(u, v, c.profile, c.value) : c \in {d \in choices(v) : EnoughRenewable(u)}}
           one(u, v)     == {set(u, v, c.profile, c.value) :
                               c \in {d \in choices(v) : News(u, d.profile) /\ EnoughRenewable(u)}}
           down(u, v)    == {set(u, v, SteppedDown(c.profile), Good) :
                               c \in {d \in choices(v) : /\ ~EnoughRenewable(u) /\ CurrentProfile(u) # "None"
                                                         /\ SteppedDown(d.profile) # CurrentProfile(u)}}
           blocked(u)    == \/ Has(u.data, Power) \/ Entries(u.pods) = Empty
                            \/ \E p \in DOMAIN Entries(u.pods) : u.pods[p].qos # "Guaranteed"
<1>1. ASSUME NEW u, NEW v
      PROVE  PowerNextState(u, v, profs, forecast) =
               IF blocked(u) THEN {}
               ELSE IF Cardinality(choices(v)) > 1 THEN many(u, v)
               ELSE one(u, v) \cup down(u, v)
  BY DEF PowerNextState
<1>2. objectives(g) = objectives(h)
  OBVIOUS
<1> HIDE DEF objectives
<1>3. choices(g) = choices(h)
  BY <1>2
<1> HIDE DEF choices
<1>4. blocked(s) <=> blocked(t)
  BY SamePods, SameReadings DEF Same
<1>5. /\ CurrentProfile(s) = CurrentProfile(t) /\ (EnoughRenewable(s) <=> EnoughRenewable(t))
      /\ \A q : News(s, q) <=> News(t, q)
  BY SameReadings DEF News
<1>6. ~blocked(s) /\ ~blocked(t)
  BY <1>1, <1>4
<1> HIDE DEF blocked
<1>7. ASSUME NEW p, NEW n, x = set(s, g, p, n), set(t, h, p, n) \in PowerNextState(t, h, profs, forecast)
      PROVE  \E y \in PowerNextState(t, h, profs, forecast) :
               /\ Same(x.state, y.state) /\ y.action = x.action
               /\ x.state.tolerations = Nil /\ y.state.tolerations = Nil
  <2>1. /\ x.state = PowerMarked(s, objectives(g), n) /\ x.action = PowerAction(p)
        /\ set(t, h, p, n).state = PowerMarked(t, objectives(g), n)
        /\ set(t, h, p, n).action = PowerAction(p)
    BY <1>2, <1>7
  <2>2. PICK y : y = set(t, h, p, n)
    OBVIOUS
  <2> QED
    BY <1>7, <2>1, <2>2, SamePowerMarked
<1> HIDE DEF set
<1>8. CASE Cardinality(choices(g)) > 1
  <2>1. x \in many(s, g) /\ PowerNextState(t, h, profs, forecast) = many(t, h)
    BY <1>1, <1>3, <1>6, <1>8
  <2>2. PICK c : x = set(s, g, c.profile, c.value) /\ set(t, h, c.profile, c.value) \in many(t, h)
    BY <1>3, <1>5, <2>1
  <2> QED
    BY <1>7, <2>1, <2>2
<1>9. CASE ~(Cardinality(choices(g)) > 1)
  <2>1. /\ x \in one(s, g) \cup down(s, g)
        /\ PowerNextState(t, h, profs, forecast) = one(t, h) \cup down(t, h)
    BY <1>1, <1>3, <1>6, <1>9
  <2>2. CASE x \in one(s, g)
    <3>1. PICK c : x = set(s, g, c.profile, c.value) /\ set(t, h, c.profile, c.value) \in one(t, h)
      BY <1>3, <1>5, <2>2
    <3> QED
      BY <1>7, <2>1, <3>1
  <2>3. CASE x \in down(s, g)
    <3>1. PICK c : /\ x = set(s, g, SteppedDown(c.profile), Good)
                   /\ set(t, h, SteppedDown(c.profile), Good) \in down(t, h)
      BY <1>3, <1>5, <2>3
    <3> QED
      BY <1>7, <2>1, <3>1
  <2> QED
    BY <2>1, <2>2, <2>3
<1> QED
  BY <1>8, <1>9

\* For states that are the same to a reader, an actuator has the same answers.
LEMMA SameAnswers ==
  ASSUME NEW a \in PlatformActuators, NEW s, NEW t, StateOK(s), StateOK(t), Same(s, t),
         NEW g, NEW h, Entries(g.objectives) = Entries(h.objectives),
         NEW profs, NEW answer, NEW x \in NextStateOf(a, s, g, profs, answer)
  PROVE  /\ StateOK(x.state) /\ x.action \in Actions
         /\ \E y \in NextStateOf(a, t, h, profs, answer) :
              /\ Same(x.state, y.state) /\ y.action = x.action
              /\ x.state.tolerations = Nil /\ y.state.tolerations = Nil
<1>1. CASE a = RDT
  <2>1. /\ x \in RdtNextState(s, g, profs, answer)
        /\ NextStateOf(a, t, h, profs, answer) = RdtNextState(t, h, profs, answer)
    BY <1>1 DEF NextStateOf
  <2>2. StateOK(x.state) /\ x.action \in Actions
    BY <2>1, RdtStates DEF Actions
  <2> QED
    BY <2>1, <2>2, SameRdt
<1>2. CASE a = Power
  <2>1. /\ x \in PowerNextState(s, g, profs, answer)
        /\ NextStateOf(a, t, h, profs, answer) = PowerNextState(t, h, profs, answer)
    BY <1>2 DEF NextStateOf, RDT, Power
  <2>2. StateOK(x.state) /\ x.action \in Actions
    BY <2>1, PowerStates DEF Actions
  <2> QED
    BY <2>1, <2>2, SamePower
<1> QED
  BY <1>1, <1>2 DEF PlatformActuators

LEMMA SamePlain ==
  ASSUME NEW x, NEW y, Same(x.state, y.state), x.action = y.action,
         x.state.tolerations = y.state.tolerations
  PROVE  Plain(x) = Plain(y)
BY DEF Same, HostData, Plain

\* What the planner has for a follow-up state x of a plugin.
Reply(x) == [state |-> Sent(x.state), action |-> toAction(deliveredAction(toGrpcAction(x.action)))]

LEMMA ReplySame ==
  ASSUME NEW x, StateOK(x.state), x.action \in Actions
  PROVE  /\ Same(Reply(x).state, x.state) /\ Reply(x).state.tolerations = Nil
         /\ Reply(x).action = x.action
BY SentSame, ActionSent DEF Reply

LEMMA LocalAnswers ==
  ASSUME IInv, NEW a \in PlatformActuators, NEW answer
  PROVE  {Plain(x) : x \in RemoteNextState(a, NextStateRequest(round.state, goal, knownProfiles), answer)}
           = {Plain(x) : x \in NextStateOf(a, round.state, goal, knownProfiles, answer)}
<1> DEFINE s == round.state
           near == NextStateOf(a, s, goal, knownProfiles, answer)
           far  == NextStateOf(a, Sent(s), Sent(goal), knownProfiles, answer)
<1>1. RemoteNextState(a, NextStateRequest(s, goal, knownProfiles), answer) = {Reply(x) : x \in far}
  <2>1. toProfiles(Delivered(toGrpcProfiles(knownProfiles))) = knownProfiles
    BY ProfilesSent DEF IInv
  <2>2. PICK r : r = NextStateRequest(s, goal, knownProfiles)
    OBVIOUS
  <2>3. r.state = Sent(s) /\ r.goal = Sent(goal) /\ r.profiles = knownProfiles
    BY <2>1, <2>2 DEF NextStateRequest, Sent
  <2> QED
    BY <2>2, <2>3 DEF RemoteNextState, NextStateResponse, Reply, Sent
<1>2. StateOK(s) /\ StateOK(Sent(s)) /\ Same(Sent(s), s) /\ Same(s, Sent(s))
  BY SentOK, SentSame DEF IInv, RoundInv, Same
<1>3. Entries(Sent(goal).objectives) = Entries(goal.objectives)
  BY DEF Sent, toState, deliveredState, toGrpcState, Entries, Delivered
<1> HIDE DEF s, near, far
<1>4. ASSUME NEW x \in far
      PROVE  \E y \in near : Plain(Reply(x)) = Plain(y)
  <2>1. /\ StateOK(x.state) /\ x.action \in Actions
        /\ \E y \in near : /\ Same(x.state, y.state) /\ y.action = x.action
                           /\ x.state.tolerations = Nil /\ y.state.tolerations = Nil
    BY <1>2, <1>3, SameAnswers DEF near, far
  <2>2. PICK y \in near : /\ Same(x.state, y.state) /\ y.action = x.action
                          /\ y.state.tolerations = Nil
    BY <2>1
  <2>3. Plain(Reply(x)) = Plain(y)
    <3>1. /\ Same(Reply(x).state, y.state) /\ Reply(x).action = y.action
          /\ Reply(x).state.tolerations = y.state.tolerations
      BY <2>1, <2>2, ReplySame DEF Same
    <3> QED
      BY <3>1, SamePlain
  <2> QED
    BY <2>3
<1>5. ASSUME NEW y \in near
      PROVE  \E x \in far : Plain(Reply(x)) = Plain(y)
  <2>1. PICK x \in far : /\ Same(y.state, x.state) /\ x.action = y.action
                         /\ y.state.tolerations = Nil
    BY <1>2, <1>3, SameAnswers DEF near, far
  <2>2. StateOK(x.state) /\ x.action \in Actions
    BY <1>2, <1>3, SameAnswers DEF near, far
  <2>3. Plain(Reply(x)) = Plain(y)
    <3>1. /\ Same(Reply(x).state, y.state) /\ Reply(x).action = y.action
          /\ Reply(x).state.tolerations = y.state.tolerations
      BY <2>1, <2>2, ReplySame DEF Same
    <3> QED
      BY <3>1, SamePlain
  <2> QED
    BY <2>3
<1>6. {Plain(z) : z \in {Reply(x) : x \in far}} = {Plain(y) : y \in near}
  BY <1>4, <1>5
<1> QED
  BY <1>1, <1>6 DEF s, near

\* In every planning round and for every answer of the prediction services, an
\* actuator behind its messages answers what it would answer inside the planner
\* (RemoteIsLocal): maps that are missing on one side and empty on the other
\* have the same entries, and nothing but these is read.
THEOREM PluginsAreTransparent == PlatformSpec => []RemoteIsLocal
<1>1. IInv => RemoteIsLocal
  BY LocalAnswers DEF RemoteIsLocal
<1> QED
  BY <1>1, PlatformInvariant, PTL
=============================================================================
