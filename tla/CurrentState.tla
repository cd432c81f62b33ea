---------------------------- MODULE CurrentState ----------------------------
(***************************************************************************)
(* The state a planning round starts from: state_helper.go, kpi.go and     *)
(* telemetry.go of pkg/controller, and the comparison with the goal.       *)
(*                                                                         *)
(* Values keep their order only.  An availability is 1 or below (0).  What *)
(* a query answers is chosen by the caller: the value, or QueryFailed for  *)
(* -1, or 0 after a panic that doQuery recovers from; both are below every *)
(* target.                                                                 *)
(***************************************************************************)
EXTENDS Messages

QueryFailed == -1

\* The keys of PODs in the error history and in the state: the monitor uses
\* namespace/name, a POD's own name has no namespace.
MetaNamespaceKey(pod) == <<"namespace", pod>>
PodName(pod) == <<pod>>

\* Any history of errors makes an availability below 1.
podAvailability(errors) == IF errors THEN 0 ELSE 1

\* One POD that is always there is enough; so is none.
PodSetAvailability(pods) ==
    IF Entries(pods) = Empty \/ \E p \in DOMAIN pods : pods[p].availability = 1 THEN 1 ELSE 0

AnnotationCount(pod) == Cardinality(DOMAIN Entries(pod.annotations))

\* A POD with another number of annotations than what was seen so far replaces
\* that: the first of the last PODs with equally many counts.  Nothing is seen
\* at first.
getAnnotations(listed) ==
    LET last  == {i \in DOMAIN listed : \A j \in i .. Len(listed) :
                    AnnotationCount(listed[j]) = AnnotationCount(listed[Len(listed)])}
        first == CHOOSE i \in last : \A j \in last : i <= j
    IN  IF listed = <<>> \/ (first = 1 /\ AnnotationCount(listed[1]) = 0) THEN Nil
        ELSE listed[first].annotations

\* The resources of the first POD that has any.
getPodResources(listed) ==
    LET having == {i \in DOMAIN listed : listed[i].resources # Empty}
        first  == CHOOSE i \in having : \A j \in having : i <= j
    IN  IF having = {} THEN Empty ELSE listed[first].resources

\* podErrors[pod.Name]: the errors a POD is found to have.
ErrorsOf(podErrors, pod) == PodName(pod) \in podErrors

\* listed is the informer's list of the PODs, in any order, or Nil if the
\* workload could not be found.
getPods(listed, podErrors) ==
    IF listed = Nil THEN [pods |-> Nil, annotations |-> Nil, resources |-> Nil]
    ELSE LET pod(name) == CHOOSE x \in {listed[i] : i \in DOMAIN listed} : x.name = name
         IN  [pods |-> [name \in {listed[i].name : i \in DOMAIN listed} |->
                          [availability |-> podAvailability(ErrorsOf(podErrors, name)),
                           qos |-> pod(name).qos]],
              annotations |-> getAnnotations(listed),
              resources |-> getPodResources(listed)]

\* measured answers the queries, telemetry those for the metrics of the hosts.
\* An objective without a profile is left out.
getCurrentState(intent, listed, podErrors, profiles, measured, telemetry) ==
    LET seen == getPods(listed, podErrors)
        known == {k \in intent : Has(profiles, k)}
    IN  [objectives |-> [k \in known |->
                           IF profiles[k].profileType = ProfileTypeFromText("availability")
                             THEN PodSetAvailability(seen.pods) ELSE measured[k]],
         tolerations |-> Nil,
         pods |-> seen.pods, data |-> telemetry,
         resources |-> seen.resources, annotations |-> seen.annotations]

\* Every objective has the target 1.
getDesiredState(intent) ==
    [objectives |-> [k \in intent |-> 1], tolerations |-> Empty,
     pods |-> Nil, data |-> Nil, resources |-> Nil, annotations |-> Nil]

\* All objectives of one are at least as good as those of another.
AllAsGood(objectives, others, profiles) ==
    \A k \in DOMAIN objectives :
      IF ProfileOf(profiles, k).minimize THEN objectives[k] <= others[k]
                                         ELSE objectives[k] >= others[k]

\* Mutant: objectives without a value are passed over.
IsBetterAnyLength(one, another, profiles) ==
    /\ Entries(one.objectives) # Empty
    /\ AllAsGood(Entries(one.objectives), Entries(another.objectives), profiles)

IsBetter(one, another, profiles) ==
    /\ Entries(one.objectives) # Empty
    /\ Cardinality(DOMAIN Entries(one.objectives)) = Cardinality(DOMAIN Entries(another.objectives))
    /\ AllAsGood(Entries(one.objectives), Entries(another.objectives), profiles)
=============================================================================
