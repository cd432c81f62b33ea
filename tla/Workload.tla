------------------------------ MODULE Workload ------------------------------
(***************************************************************************)
(* What the scaling actuators promise of a workload: a plan asks for a     *)
(* change of the replicas and perhaps for a CPU value, and each of these   *)
(* requests is carried out once, at one instant and on the workload as it  *)
(* is at that instant, or it is dropped.  There are no copies, conflicts   *)
(* or retries here.  Nothing but a user scales to zero.                    *)
(***************************************************************************)
EXTENDS Integers

CONSTANTS Executors, UserReplicas

VARIABLES
    replicas, cpu,  \* the workload's specification
    asked           \* [Executors -> set of requests not decided yet]

workVars == <<replicas, cpu, asked>>

WorkInit ==
    /\ replicas \in UserReplicas /\ cpu = 0
    /\ asked = [e \in Executors |-> {}]

\* A plan: at most one request of a kind.
Ask(e) ==
    /\ asked[e] = {}
    /\ asked' = [asked EXCEPT ![e] = asked'[e]]
    /\ \A p \in asked'[e] : p.kind \in {"add", "set"}
    /\ \A p, q \in asked'[e] : p.kind = q.kind => p = q
    /\ UNCHANGED <<replicas, cpu>>

Decided(e, q) == q \in asked[e] /\ asked' = [asked EXCEPT ![e] = @ \ {q}]

Add(e, q) ==
    /\ Decided(e, q) /\ q.kind = "add"
    /\ replicas + q.n > 0
    /\ replicas' = replicas + q.n
    /\ UNCHANGED cpu

Set(e, q) == Decided(e, q) /\ q.kind = "set" /\ cpu' = q.n /\ UNCHANGED replicas

Drop(e, q) == Decided(e, q) /\ UNCHANGED <<replicas, cpu>>

Scale == replicas' \in UserReplicas /\ UNCHANGED <<cpu, asked>>

WorkNext ==
    \/ \E e \in Executors : Ask(e) \/ \E q \in asked[e] : Add(e, q) \/ Set(e, q) \/ Drop(e, q)
    \/ Scale

WorkSpec == WorkInit /\ [][WorkNext]_workVars
=============================================================================
