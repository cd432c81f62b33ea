------------------------------ MODULE Messages ------------------------------
(***************************************************************************)
(* What travels between the planner and an actuator plugin: states,        *)
(* profiles and actions as the Go program has them (pkg/common/types.go,   *)
(* pkg/planner), and the conversions to and from the gRPC messages on both *)
(* sides (actuator_client_stub.go, actuator_plugin_stub.go).               *)
(*                                                                         *)
(* A Go map is Nil or a function.  Ranging over Nil is ranging over an     *)
(* empty map, and a protobuf message does not tell the two apart: an empty *)
(* map arrives as Nil.  Of an intent there are the objectives and the      *)
(* tolerations; the other fields of a message are copied one by one.       *)
(***************************************************************************)
EXTENDS Integers, Sequences, FiniteSets

CONSTANT Nil

Empty == <<>>

\* What a loop over a map sees, and what a copy of it entry by entry is.
Entries(map) == IF map = Nil THEN Empty ELSE map

\* Serialised and parsed again.
Delivered(map) == IF map = Empty THEN Nil ELSE map

Has(map, key) == key \in DOMAIN Entries(map)

\* An assignment to an entry of a map that is not nil.
With(map, key, value) ==
    [k \in DOMAIN map \cup {key} |-> IF k = key THEN value ELSE map[k]]

Without(map, keys) == [k \in DOMAIN map \ keys |-> map[k]]

-----------------------------------------------------------------------------
(* States. *)

StateDeepCopy(s) ==
    [objectives |-> Entries(s.objectives), tolerations |-> Nil, pods |-> Entries(s.pods),
     data |-> [k \in DOMAIN Entries(s.data) |-> Entries(Entries(s.data)[k])],
     resources |-> s.resources, annotations |-> s.annotations]

\* Mutant: the annotations are forgotten.
toGrpcStateWithoutAnnotations(s) ==
    [objectives |-> s.objectives, pods |-> Entries(s.pods), data |-> Entries(s.data),
     resources |-> Entries(s.resources), annotations |-> Empty]

\* An entry of CurrentData becomes a message with the map as its only field.
toGrpcState(s) ==
    [objectives |-> s.objectives, pods |-> Entries(s.pods), data |-> Entries(s.data),
     resources |-> Entries(s.resources), annotations |-> Entries(s.annotations)]

deliveredState(g) ==
    [objectives |-> Delivered(g.objectives), pods |-> Delivered(g.pods),
     data |-> Delivered([k \in DOMAIN g.data |-> Delivered(g.data[k])]),
     resources |-> Delivered(g.resources), annotations |-> Delivered(g.annotations)]

\* The plugin's toState and the states of getNextStateResponse are the same code.
toState(g) ==
    [objectives |-> g.objectives, tolerations |-> Nil, pods |-> Entries(g.pods),
     data |-> Entries(g.data), resources |-> Entries(g.resources),
     annotations |-> Entries(g.annotations)]

-----------------------------------------------------------------------------
(* Profiles: the type is a number on both sides, and the plugin goes from the *)
(* number to the name and back.                                               *)

ProfileTypes == <<"obsolete", "latency", "availability", "throughput", "power">>

ProfileTypeFromText(text) ==
    IF \E i \in DOMAIN ProfileTypes : ProfileTypes[i] = text
      THEN (CHOOSE i \in DOMAIN ProfileTypes : ProfileTypes[i] = text) - 1
      ELSE 0

ProfileTypeString(number) == ProfileTypes[number + 1]

toGrpcProfile(p) == [profileType |-> p.profileType, minimize |-> p.minimize]

toGrpcProfiles(profiles) ==
    [k \in DOMAIN Entries(profiles) |-> toGrpcProfile(Entries(profiles)[k])]

\* Query, External and Address stay with the controller.
toProfiles(messages) ==
    [k \in DOMAIN Entries(messages) |->
       [profileType |-> ProfileTypeFromText(ProfileTypeString(Entries(messages)[k].profileType)),
        minimize |-> Entries(messages)[k].minimize]]

\* The entry of a Go map that is missing is a zero value.
ProfileOf(profiles, k) ==
    IF Has(profiles, k) THEN profiles[k] ELSE [profileType |-> 0, minimize |-> FALSE]

-----------------------------------------------------------------------------
(* Actions: Properties holds a map of ints, a map of strings, or anything.   *)

\* Mutant: the type of the properties is left at its first value.
toGrpcActionAsInt(a) ==
    [name |-> a.name, type |-> "int",
     ints |-> IF a.kind = "int" THEN a.properties ELSE Nil,
     strs |-> IF a.kind = "str" THEN a.properties ELSE Nil]

\* What is neither is sent as an empty map of strings.
toGrpcAction(a) ==
    [name |-> a.name, type |-> IF a.kind = "int" THEN "int" ELSE "str",
     ints |-> IF a.kind = "int" THEN a.properties ELSE Nil,
     strs |-> IF a.kind = "str" THEN a.properties ELSE Nil]

deliveredAction(g) ==
    [name |-> g.name, type |-> g.type, ints |-> Delivered(g.ints), strs |-> Delivered(g.strs)]

toAction(g) == [name |-> g.name, kind |-> g.type,
                properties |-> IF g.type = "int" THEN g.ints ELSE g.strs]

-----------------------------------------------------------------------------
(* Calls. *)

\* getNextStateRequest, as the plugin's NextState reads it.
NextStateRequest(state, goal, profiles) ==
    [state |-> toState(deliveredState(toGrpcState(state))),
     goal |-> toState(deliveredState(toGrpcState(goal))),
     profiles |-> toProfiles(Delivered(toGrpcProfiles(profiles)))]

\* getNextStateResponseServer, as the stub's NextState reads it: follow-up states
\* with their actions.
NextStateResponse(answers) ==
    {[state |-> toState(deliveredState(toGrpcState(x.state))),
      action |-> toAction(deliveredAction(toGrpcAction(x.action)))] : x \in answers}

\* getPerformRequest, as the plugin's Perform reads it.
PerformRequest(plan) ==
    [i \in DOMAIN plan |-> toAction(deliveredAction(toGrpcAction(plan[i])))]
=============================================================================
