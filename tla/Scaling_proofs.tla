--------------------------- MODULE Scaling_proofs ---------------------------
(***************************************************************************)
(* Proofs about Scaling, for any number of plans at a time and of any      *)
(* length, and every configuration of the actuators: no update of the      *)
(* workload is lost, the Perform loops implement Workload, and a plan that *)
(* meets the workload it was made for misses the limits by one at most.    *)
(*                                                                         *)
(* NoLostUpdates is not inductive: an accepted update replaces the whole   *)
(* object by a copy, which has to be known to be the object.  That is      *)
(* FreshInv, which every write keeps by making the other copies stale.     *)
(* The limits are those of the follow-up states, so that they are proved   *)
(* of the search for a plan first, by induction over its length.           *)
(***************************************************************************)
EXTENDS Scaling, FiniteSetTheorems, WellFoundedInduction, TLAPS

UpdateInv ==
    /\ fresh \subseteq Executors
    /\ DOMAIN copy = Executors /\ DOMAIN epc = Executors
    /\ FreshInv
    /\ NoLostUpdates

\* At the beginning nobody has a copy.
LEMMA UpdateInit == ScalingInit => UpdateInv
  BY DEF ScalingInit, UpdateInv, FreshInv, NoLostUpdates

\* A write of executor e's copy, with r replicas and c CPU units: the other
\* copies are stale, or nothing has changed; e's own is given up.
LEMMA WriteKeeps ==
  ASSUME UpdateInv, NEW e \in Executors, NEW r, NEW c, NEW rest,
         Write(e, r, c), Return(e, rest)
  PROVE  /\ fresh' \subseteq Executors
         /\ DOMAIN copy' = Executors /\ DOMAIN epc' = Executors
         /\ FreshInv'
  <1>1. DOMAIN copy' = Executors /\ DOMAIN epc' = Executors
    BY DEF UpdateInv, Return
  <1>2. fresh' \subseteq fresh \ {e}
    BY DEF Write
  <1>3. ASSUME NEW x \in fresh'  PROVE /\ epc'[x] \in Updating
                                       /\ copy'[x] = [replicas |-> replicas', cpu |-> cpu']
    <2>1. x \in fresh /\ x # e /\ r = replicas /\ c = cpu
      BY <1>2, <1>3 DEF Write
    <2>2. copy'[x] = copy[x] /\ epc'[x] = epc[x]
      BY <2>1 DEF Return, UpdateInv
    <2> QED
      BY <2>1, <2>2 DEF Write, UpdateInv, FreshInv
  <1> QED
    BY <1>1, <1>2, <1>3 DEF FreshInv, UpdateInv

\* An executor gives up its copy, and the workload stays as it is.
LEMMA GiveUpKeeps ==
  ASSUME UpdateInv, NEW e \in Executors, UNCHANGED workloadVars, UNCHANGED historyVars,
         fresh' \subseteq fresh, e \notin fresh',
         copy' = [copy EXCEPT ![e] = NoCopy],
         DOMAIN epc' = Executors, \A x \in Executors \ {e} : epc'[x] = epc[x]
  PROVE  UpdateInv'
  BY DEF UpdateInv, FreshInv, NoLostUpdates, workloadVars, historyVars

\* The workload changes behind everybody's back.
LEMMA AllStaleKeeps ==
  ASSUME UpdateInv, fresh' = {}, UNCHANGED <<copy, epc>>, NoLostUpdates'
  PROVE  UpdateInv'
  BY DEF UpdateInv, FreshInv

LEMMA UpdateStep == UpdateInv /\ [ScalingNext]_scalingVars => UpdateInv'
  <1> SUFFICES ASSUME UpdateInv, [ScalingNext]_scalingVars
               PROVE  UpdateInv'
    OBVIOUS
  <1>1. ASSUME NEW e \in Executors, NEW seen \in SeenPods, CreatePlan(e, seen)  PROVE UpdateInv'
    BY <1>1 DEF CreatePlan, UpdateInv, FreshInv, NoLostUpdates, Updating, workloadVars, historyVars
  <1>2. ASSUME NEW e \in Executors, NEW a \in Updating, GetWorkload(e, a)  PROVE UpdateInv'
    BY <1>2 DEF GetWorkload, UpdateInv, FreshInv, NoLostUpdates, workloadVars, historyVars
  <1>3. ASSUME NEW e \in Executors, NEW a \in Updating, CallFails(e, a)  PROVE UpdateInv'
    BY <1>3, GiveUpKeeps DEF CallFails, Return, UpdateInv
  <1>4. ASSUME NEW e \in Executors, UpdateReplicas(e)  PROVE UpdateInv'
    <2> DEFINE r == copy[e].replicas + job[e].factor
    <2>1. /\ Write(e, r, copy[e].cpu) /\ Return(e, left[e])
          /\ expected' = expected + job[e].factor /\ lastCPU' = lastCPU /\ e \in fresh
      BY <1>4 DEF UpdateReplicas, Accepted
    <2>2. copy[e].replicas = replicas /\ copy[e].cpu = cpu
      BY <2>1 DEF UpdateInv, FreshInv
    <2>3. NoLostUpdates'
      BY <2>1, <2>2 DEF Write, UpdateInv, NoLostUpdates
    <2> QED
      BY <2>1, <2>3, WriteKeeps DEF UpdateInv
  <1>5. ASSUME NEW e \in Executors, NothingLeft(e)  PROVE UpdateInv'
    BY <1>5, GiveUpKeeps DEF NothingLeft, Return, UpdateInv
  <1>6. ASSUME NEW e \in Executors, UpdateCPU(e)  PROVE UpdateInv'
    <2>1. /\ Write(e, copy[e].replicas, job[e].cpu) /\ Return(e, left[e])
          /\ expected' = expected /\ lastCPU' = job[e].cpu /\ e \in fresh
      BY <1>6 DEF UpdateCPU, Accepted
    <2>2. copy[e].replicas = replicas
      BY <2>1 DEF UpdateInv, FreshInv
    <2>3. NoLostUpdates'
      BY <2>1, <2>2 DEF Write, UpdateInv, NoLostUpdates
    <2> QED
      BY <2>1, <2>3, WriteKeeps DEF UpdateInv
  <1>7. ASSUME NEW e \in Executors, Conflict(e)  PROVE UpdateInv'
    <2>1. /\ e \notin fresh /\ fresh' = fresh /\ copy' = [copy EXCEPT ![e] = NoCopy]
          /\ UNCHANGED workloadVars /\ UNCHANGED historyVars
      BY <1>7 DEF Conflict, Accepted, Return
    <2>2. DOMAIN epc' = Executors /\ \A x \in Executors \ {e} : epc'[x] = epc[x]
      BY <1>7 DEF Conflict, Return, UpdateInv
    <2> QED
      BY <2>1, <2>2, GiveUpKeeps
  <1>8. ASSUME NEW e \in Executors, DeletePods(e)  PROVE UpdateInv'
    <2>1. /\ fresh' = fresh /\ copy' = [copy EXCEPT ![e] = NoCopy]
          /\ UNCHANGED workloadVars /\ UNCHANGED historyVars
      BY <1>8 DEF DeletePods, Return
    <2>2. e \notin fresh
      BY <1>8 DEF DeletePods, UpdateInv, FreshInv, Updating
    <2> QED
      BY <1>8, <2>1, <2>2, GiveUpKeeps DEF DeletePods, Return, UpdateInv
  <1>9. ASSUME NEW n \in UserReplicas, UserScales(n)  PROVE UpdateInv'
    BY <1>9, AllStaleKeeps DEF UserScales, UpdateInv, NoLostUpdates
  <1>10. CASE Touch
    BY <1>10, AllStaleKeeps DEF Touch, UpdateInv, NoLostUpdates, workloadVars, historyVars
  <1>11. CASE UNCHANGED scalingVars
    BY <1>11 DEF scalingVars, UpdateInv, FreshInv, NoLostUpdates, workloadVars, historyVars
  <1> QED
    BY <1>1, <1>2, <1>3, <1>4, <1>5, <1>6, <1>7, <1>8, <1>9, <1>10, <1>11
    DEF ScalingNext, Performing

\* No update of the workload is lost: neither Perform of the scale-out nor that
\* of the CPU-scale actuator reverts what another plan or a user has written.
THEOREM NothingLost == ScalingSpec => []NoLostUpdates
  <1>1. UpdateInv => NoLostUpdates
    BY DEF UpdateInv
  <1> QED
    BY UpdateInit, UpdateStep, <1>1, PTL DEF ScalingSpec

-----------------------------------------------------------------------------
(* The actuators implement Workload. *)

\* Where an executor is: it has left an actuator's request behind when it works
\* on it, and has none left when it is idle.
PlanInv ==
    /\ left \in [Executors -> SUBSET Actuators] /\ DOMAIN job = Executors
    /\ \A e \in Executors : /\ epc[e] \in {"idle", "iter"} \cup Updating
                            /\ epc[e] = "idle" => left[e] = {}
                            /\ epc[e] \notin left[e]

WorkInv == UpdateInv /\ PlanInv

LEMMA ReturnPlan ==
  ASSUME WorkInv, NEW e \in Executors, Return(e, left'[e]),
         left' = left \/ \E a \in Actuators : left' = [left EXCEPT ![e] = @ \ {a}]
  PROVE  PlanInv'
  <1>1. /\ left' \in [Executors -> SUBSET Actuators]
        /\ \A x \in Executors \ {e} : left'[x] = left[x]
    BY DEF WorkInv, PlanInv
  <1>2. /\ epc'[e] = (IF left'[e] = {} THEN "idle" ELSE "iter")
        /\ \A x \in Executors \ {e} : epc'[x] = epc[x]
        /\ DOMAIN job' = Executors
    BY DEF Return, WorkInv, UpdateInv, PlanInv
  <1> QED
    BY <1>1, <1>2 DEF WorkInv, PlanInv, Actuators

LEMMA PlanStep == WorkInv /\ [ScalingNext]_scalingVars => PlanInv'
  <1> SUFFICES ASSUME WorkInv, [ScalingNext]_scalingVars
               PROVE  PlanInv'
    OBVIOUS
  <1> USE DEF WorkInv
  <1>1. ASSUME NEW e \in Executors, NEW seen \in SeenPods, CreatePlan(e, seen)  PROVE PlanInv'
    BY <1>1 DEF CreatePlan, WithWork, PlanInv, UpdateInv, Actuators, Updating
  <1>2. ASSUME NEW e \in Executors, NEW a \in Updating, GetWorkload(e, a)  PROVE PlanInv'
    BY <1>2 DEF GetWorkload, PlanInv, UpdateInv, Actuators, Updating
  <1>3. ASSUME NEW e \in Executors, NEW a \in Updating, CallFails(e, a)  PROVE PlanInv'
    <2>1. left' = [left EXCEPT ![e] = @ \ {a}] /\ Return(e, left'[e]) /\ a \in Actuators
      BY <1>3 DEF CallFails, PlanInv, Updating, Actuators
    <2> QED
      BY <2>1, ReturnPlan
  <1>4. ASSUME NEW e \in Executors, UpdateReplicas(e) \/ NothingLeft(e) \/ UpdateCPU(e)
        PROVE  PlanInv'
    <2>1. left' = left /\ Return(e, left'[e])
      BY <1>4 DEF UpdateReplicas, NothingLeft, UpdateCPU
    <2> QED
      BY <2>1, ReturnPlan
  <1>5. ASSUME NEW e \in Executors, Conflict(e)  PROVE PlanInv'
    <2>1. CASE UNCHANGED <<epc, job, left>>
      BY <2>1 DEF PlanInv
    <2>2. CASE left' = left /\ Return(e, left'[e])
      BY <2>2, ReturnPlan
    <2> QED
      BY <1>5, <2>1, <2>2 DEF Conflict
  <1>6. ASSUME NEW e \in Executors, DeletePods(e)  PROVE PlanInv'
    <2>1. left' = [left EXCEPT ![e] = @ \ {"rmPod"}] /\ Return(e, left'[e])
      BY <1>6 DEF DeletePods, PlanInv
    <2> QED
      BY <2>1, ReturnPlan DEF Actuators
  <1>7. ASSUME UNCHANGED <<epc, left, job>>  PROVE PlanInv'
    BY <1>7 DEF PlanInv
  <1> QED
    BY <1>1, <1>2, <1>3, <1>4, <1>5, <1>6, <1>7 DEF ScalingNext, Performing, UserScales, Touch, scalingVars

LEMMA RequestsDiffer ==
  ASSUME NEW e, NEW a \in Updating, NEW b \in Updating, a # b
  PROVE  /\ Request(e, a) # Request(e, b)
         /\ Request(e, a).kind # Request(e, b).kind
         /\ Request(e, a).kind \in {"add", "set"}
  <1>1. CASE a = "scaleOut" /\ b = "scaleCPU"
    <2>1. Request(e, a).kind = "add" /\ Request(e, b).kind = "set"
      BY <1>1 DEF Request
    <2> QED
      BY <2>1
  <1>2. CASE a = "scaleCPU" /\ b = "scaleOut"
    <2>1. Request(e, a).kind = "set" /\ Request(e, b).kind = "add"
      BY <1>2 DEF Request
    <2> QED
      BY <2>1
  <1> QED
    BY <1>1, <1>2 DEF Updating

\* An executor leaves an actuator: the request of that actuator is decided, the
\* other one is not.
LEMMA ReturnAsked ==
  ASSUME WorkInv, NEW e \in Executors, NEW a \in Updating, Return(e, left'[e]),
         a \in Undecided(e), left' = [left EXCEPT ![e] = @ \ {a}],
         epc[e] \in {"iter", a}
  PROVE  /\ Request(e, a) \in Asked[e]
         /\ Asked' = [Asked EXCEPT ![e] = @ \ {Request(e, a)}]
  <1>1. /\ \A x \in Executors \ {e} : /\ left'[x] = left[x] /\ epc'[x] = epc[x]
                                      /\ job'[x] = job[x]
        /\ left'[e] = left[e] \ {a}
        /\ epc'[e] \in {"idle", "iter"} /\ (left'[e] # {} => job'[e] = job[e])
    BY DEF Return, WorkInv, UpdateInv, PlanInv
  <1>2. \A x \in Executors \ {e} : Undecided(x)' = Undecided(x)
                                 /\ \A b : Request(x, b)' = Request(x, b)
    BY <1>1 DEF Undecided, Request
  <1>3. \A x \in Executors \ {e} : Asked'[x] = Asked[x]
    BY <1>2 DEF Asked
  <1>4. Undecided(e)' = Undecided(e) \ {a}
    BY <1>1 DEF Undecided, WorkInv, PlanInv, Updating
  <1>5. Undecided(e)' # {} => \A b : Request(e, b)' = Request(e, b)
    BY <1>1 DEF Undecided, Request, Updating
  <1>6. Undecided(e) \subseteq Updating
    BY DEF Undecided
  <1>7. Asked'[e] = {Request(e, b)' : b \in Undecided(e)'} /\ Asked[e] = {Request(e, b) : b \in Undecided(e)}
    BY DEF Asked
  <1>8. Asked'[e] = {Request(e, b) : b \in Undecided(e) \ {a}}
    BY <1>4, <1>5, <1>7
  <1>9. \A b \in Undecided(e) \ {a} : Request(e, b) # Request(e, a)
    BY <1>6, RequestsDiffer
  <1>10. Asked'[e] = Asked[e] \ {Request(e, a)}
    BY <1>7, <1>8, <1>9
  <1>11. Request(e, a) \in Asked[e]
    BY <1>7
  <1> QED
    BY <1>3, <1>10, <1>11 DEF Asked

LEMMA AskedKept ==
  ASSUME UNCHANGED <<epc, job, left>>
  PROVE  Asked' = Asked
  BY DEF Asked, Undecided, Request

LEMMA CreatePlanAsks ==
  ASSUME WorkInv, NEW e \in Executors, NEW seen \in SeenPods, CreatePlan(e, seen)
  PROVE  Work!Ask(e)
  <1>1. /\ epc[e] = "idle" /\ left[e] = {}
        /\ UNCHANGED <<replicas, cpu>>
        /\ \A x \in Executors \ {e} : left'[x] = left[x] /\ epc'[x] = epc[x] /\ job'[x] = job[x]
    BY DEF CreatePlan, WorkInv, PlanInv, UpdateInv, workloadVars
  <1>2. Asked[e] = {}
    BY <1>1 DEF Asked, Undecided, Updating
  <1>3. \A x \in Executors \ {e} : Asked'[x] = Asked[x]
    BY <1>1 DEF Asked, Undecided, Request
  <1>4. Asked' = [Asked EXCEPT ![e] = Asked'[e]]
    BY <1>3 DEF Asked
  <1>5. \A p \in Asked'[e] : \/ p = [kind |-> "add", n |-> job'[e].factor]
                            \/ p = [kind |-> "set", n |-> job'[e].cpu]
    BY DEF Asked, Request
  <1>6. \A p \in Asked'[e] : p.kind \in {"add", "set"}
    BY <1>5
  <1>7. \A p, q \in Asked'[e] : p.kind = q.kind => p = q
    BY <1>5
  <1> QED
    BY <1>1, <1>2, <1>4, <1>6, <1>7 DEF Work!Ask

LEMMA WorkStep == WorkInv /\ [ScalingNext]_scalingVars => [Work!WorkNext]_(Work!workVars)
  <1> SUFFICES ASSUME WorkInv, [ScalingNext]_scalingVars
               PROVE  Work!WorkNext \/ UNCHANGED <<replicas, cpu, Asked>>
    BY DEF Work!workVars
  <1>1. ASSUME NEW e \in Executors, NEW q \in Asked[e],
               Work!Add(e, q) \/ Work!Set(e, q) \/ Work!Drop(e, q)
        PROVE  Work!WorkNext
    BY <1>1 DEF Work!WorkNext
  <1>2. ASSUME NEW e \in Executors, NEW seen \in SeenPods, CreatePlan(e, seen)
        PROVE  Work!WorkNext
    BY <1>2, CreatePlanAsks DEF Work!WorkNext
  <1>3. ASSUME NEW e \in Executors, NEW a \in Updating, GetWorkload(e, a)
        PROVE  UNCHANGED <<replicas, cpu, Asked>>
    <2>1. UNCHANGED <<replicas, cpu, job>>
      BY <1>3 DEF GetWorkload, workloadVars
    <2>2. \A x \in Executors : Undecided(x)' = Undecided(x)
      BY <1>3 DEF GetWorkload, Undecided, WorkInv, PlanInv, UpdateInv, Updating
    <2> QED
      BY <2>1, <2>2 DEF Asked, Request
  <1>4. ASSUME NEW e \in Executors, NEW a \in Updating, CallFails(e, a)
        PROVE  Work!WorkNext
    <2>1. /\ Request(e, a) \in Asked[e]
          /\ Asked' = [Asked EXCEPT ![e] = @ \ {Request(e, a)}]
          /\ UNCHANGED <<replicas, cpu>>
      BY <1>4, ReturnAsked DEF CallFails, Undecided, WorkInv, PlanInv, workloadVars
    <2> QED
      BY <2>1, <1>1 DEF Work!Drop, Work!Decided
  <1>5. ASSUME NEW e \in Executors, NEW a \in Updating, epc[e] = a, left' = left,
               Return(e, left[e])
        PROVE  /\ Request(e, a) \in Asked[e]
               /\ Asked' = [Asked EXCEPT ![e] = @ \ {Request(e, a)}]
    <2>1. left' = [left EXCEPT ![e] = @ \ {a}]
      BY <1>5 DEF WorkInv, PlanInv
    <2> QED
      BY <1>5, <2>1, ReturnAsked DEF Undecided
  <1>6. ASSUME NEW e \in Executors, UpdateReplicas(e)  PROVE Work!WorkNext
    <2>1. /\ Request(e, "scaleOut") \in Asked[e]
          /\ Asked' = [Asked EXCEPT ![e] = @ \ {Request(e, "scaleOut")}]
      BY <1>5, <1>6 DEF UpdateReplicas, Updating
    <2>2. copy[e] = [replicas |-> replicas, cpu |-> cpu]
      BY <1>6 DEF UpdateReplicas, Accepted, WorkInv, UpdateInv, FreshInv
    <2>3. /\ replicas + job[e].factor > 0
          /\ replicas' = replicas + job[e].factor /\ cpu' = cpu
      BY <1>6, <2>2 DEF UpdateReplicas, WorthUpdating, Write
    <2>4. Request(e, "scaleOut").kind = "add" /\ Request(e, "scaleOut").n = job[e].factor
      BY DEF Request
    <2>5. Work!Add(e, Request(e, "scaleOut"))
      BY <2>1, <2>3, <2>4 DEF Work!Add, Work!Decided
    <2> QED
      BY <1>1, <2>1, <2>5
  <1>7. ASSUME NEW e \in Executors, UpdateCPU(e)  PROVE Work!WorkNext
    <2>1. /\ Request(e, "scaleCPU") \in Asked[e]
          /\ Asked' = [Asked EXCEPT ![e] = @ \ {Request(e, "scaleCPU")}]
      BY <1>5, <1>7 DEF UpdateCPU, Updating
    <2>2. copy[e] = [replicas |-> replicas, cpu |-> cpu]
      BY <1>7 DEF UpdateCPU, Accepted, WorkInv, UpdateInv, FreshInv
    <2>3. replicas' = replicas /\ cpu' = job[e].cpu
      BY <1>7, <2>2 DEF UpdateCPU, Write
    <2>4. Request(e, "scaleCPU").kind = "set" /\ Request(e, "scaleCPU").n = job[e].cpu
      BY DEF Request
    <2>5. Work!Set(e, Request(e, "scaleCPU"))
      BY <2>1, <2>3, <2>4 DEF Work!Set, Work!Decided
    <2> QED
      BY <1>1, <2>1, <2>5
  <1>8. ASSUME NEW e \in Executors, NothingLeft(e)  PROVE Work!WorkNext
    <2>1. /\ Request(e, "scaleOut") \in Asked[e]
          /\ Asked' = [Asked EXCEPT ![e] = @ \ {Request(e, "scaleOut")}]
          /\ UNCHANGED <<replicas, cpu>>
      BY <1>5, <1>8 DEF NothingLeft, Updating, workloadVars
    <2> QED
      BY <2>1, <1>1 DEF Work!Drop, Work!Decided
  <1>9. ASSUME NEW e \in Executors, Conflict(e)
        PROVE  Work!WorkNext \/ UNCHANGED <<replicas, cpu, Asked>>
    <2>1. CASE UNCHANGED <<epc, job>>
      BY <1>9, <2>1, AskedKept DEF Conflict, workloadVars
    <2>2. CASE Return(e, left[e])
      <3>1. /\ Request(e, epc[e]) \in Asked[e]
            /\ Asked' = [Asked EXCEPT ![e] = @ \ {Request(e, epc[e])}]
            /\ UNCHANGED <<replicas, cpu>>
        BY <1>5, <1>9, <2>2 DEF Conflict, workloadVars
      <3> QED
        BY <3>1, <1>1 DEF Work!Drop, Work!Decided
    <2> QED
      BY <1>9, <2>1, <2>2 DEF Conflict
  <1>10. ASSUME NEW e \in Executors, DeletePods(e)
         PROVE  UNCHANGED <<replicas, cpu, Asked>>
    <2>1. /\ \A x \in Executors \ {e} : left'[x] = left[x] /\ epc'[x] = epc[x] /\ job'[x] = job[x]
          /\ left'[e] = left[e] \ {"rmPod"} /\ epc[e] = "iter"
          /\ epc'[e] \in {"idle", "iter"} /\ (left'[e] # {} => job'[e] = job[e])
          /\ UNCHANGED <<replicas, cpu>>
      BY <1>10 DEF DeletePods, Return, WorkInv, UpdateInv, PlanInv, workloadVars
    <2>2. ASSUME NEW x \in Executors  PROVE Asked'[x] = Asked[x]
      <3>1. /\ Asked'[x] = {Request(x, b)' : b \in Undecided(x)'}
            /\ Asked[x] = {Request(x, b) : b \in Undecided(x)}
        BY DEF Asked
      <3>2. Undecided(x)' = Undecided(x)
        BY <2>1 DEF Undecided, Updating
      <3>3. Undecided(x) # {} => \A b : Request(x, b)' = Request(x, b)
        BY <2>1 DEF Undecided, Request, Updating
      <3> QED
        BY <3>1, <3>2, <3>3
    <2> QED
      BY <2>1, <2>2 DEF Asked
  <1>11. ASSUME NEW r \in UserReplicas, UserScales(r)  PROVE Work!WorkNext
    BY <1>11, AskedKept DEF UserScales, Work!WorkNext, Work!Scale
  <1>12. CASE Touch
    BY <1>12, AskedKept DEF Touch, workloadVars
  <1>13. CASE UNCHANGED scalingVars
    BY <1>13, AskedKept DEF scalingVars, workloadVars
  <1> QED
    BY <1>2, <1>3, <1>4, <1>6, <1>7, <1>8, <1>9, <1>10, <1>11, <1>12, <1>13
    DEF ScalingNext, Performing

\* The Perform loops of several plans implement Workload: each request of a plan
\* is carried out once and at one instant, or dropped.
THEOREM ScalingImplementsWorkload == ScalingSpec => ImplementsWorkload
  <1>1. ScalingInit => WorkInv /\ Work!WorkInit
    <2> SUFFICES ASSUME ScalingInit  PROVE WorkInv /\ Work!WorkInit
      OBVIOUS
    <2>1. PlanInv
      BY DEF ScalingInit, PlanInv
    <2>2. Asked = [e \in Executors |-> {}]
      BY DEF ScalingInit, Asked, Undecided, Updating
    <2> QED
      BY <2>1, <2>2, UpdateInit DEF WorkInv, ScalingInit, Work!WorkInit
  <1>2. WorkInv /\ [ScalingNext]_scalingVars => WorkInv'
    BY UpdateStep, PlanStep DEF WorkInv
  <1> QED
    BY <1>1, <1>2, WorkStep, PTL DEF ScalingSpec, ImplementsWorkload, Work!WorkSpec

-----------------------------------------------------------------------------
(* Natural numbers: a set that is not empty has a least element, as the      *)
(* intervals below its elements are ordered by inclusion.                    *)

LEMMA Least ==
  ASSUME NEW S \in SUBSET Nat, S # {}
  PROVE  \E n \in S : \A m \in S : n <= m
<1>1. PICK n \in S : TRUE
  OBVIOUS
<1> DEFINE R == StrictSubsetOrdering(0 .. n)
           T == {0 .. m : m \in {k \in S : k <= n}}
<1>2. IsWellFoundedOn(R, SUBSET (0 .. n))
  <2>0. 0 \in Int /\ n \in Int
    OBVIOUS
  <2>1. IsFiniteSet(0 .. n)
    BY <2>0, FS_Interval, ZenonT(30)
  <2>2. IsWellFoundedOn(R, FiniteSubsetsOf(0 .. n))
    BY FS_StrictSubsetOrderingWellFounded
  <2>3. FiniteSubsetsOf(0 .. n) = SUBSET (0 .. n)
    BY <2>1, FS_FiniteSubsetsOfFinite
  <2> QED
    BY <2>2, <2>3
<1>3. T \subseteq SUBSET (0 .. n) /\ T # {}
  OBVIOUS
<1>4. PICK x \in T : \A y \in T : ~(<<y, x>> \in R)
  <2> HIDE DEF R, T
  <2> QED
    BY <1>2, <1>3, WFMin
<1>5. PICK m \in S : m <= n /\ x = 0 .. m
  OBVIOUS
<1>6. ASSUME NEW k \in S, k < m PROVE FALSE
  <2>1. 0 .. k \in T
    BY <1>5, <1>6
  <2>2. 0 .. k \subseteq 0 .. m /\ 0 .. k # 0 .. m
    <3>1. m \in 0 .. m /\ m \notin 0 .. k
      BY <1>6
    <3> QED
      BY <1>6, <3>1
  <2>3. <<0 .. k, x>> \in R
    BY <1>5, <1>6, <2>2 DEF StrictSubsetOrdering
  <2> QED
    BY <1>4, <2>1, <2>3
<1> QED
  BY <1>5, <1>6

\* Induction up to a bound, as a fact about sets.
LEMMA UpTo ==
  ASSUME NEW n \in Nat, NEW S, 0 \in S,
         \A i \in 1 .. n : i - 1 \in S => i \in S
  PROVE  \A i \in 0 .. n : i \in S
<1> SUFFICES ASSUME NEW b \in 0 .. n, b \notin S PROVE FALSE
  OBVIOUS
<1> DEFINE B == {i \in 0 .. n : i \notin S}
<1>1. PICK m \in B : \A i \in B : m <= i
  <2>1. B \in SUBSET Nat /\ B # {}
    OBVIOUS
  <2> HIDE DEF B
  <2> QED
    BY <2>1, Least
<1>2. m # 0 /\ m \in 1 .. n
  BY <1>1
<1>3. m - 1 \in S
  BY <1>1, <1>2
<1> QED
  BY <1>1, <1>2, <1>3

-----------------------------------------------------------------------------
(* The limits.  A plan is found by following states, so that what it may ask *)
(* for is an invariant of that search: by induction over the plan's length.  *)

\* The PODs a plan's follow-up state has without the one that is only there for
\* the planner.
Resulting(j) == j.seen + j.out - j.rm
Extra(j) == IF j.extra THEN 1 ELSE 0

PlanOf(seen) ==
    [seen : {seen}, seenCPU : Int, latency : BOOLEAN, size : Int,
     out : Nat, rm : Nat, cpu : Nat \cup {NoValue}, extra : BOOLEAN]

\* The size counts the planner's POD, which is added at most once; and the last
\* POD that was added or removed met a limit.
PlanWithin(j, seen) ==
    /\ j \in PlanOf(seen)
    /\ j.size = Resulting(j) + Extra(j)
    /\ j.extra => j.cpu # NoValue
    /\ j.out > 0 => Resulting(j) <= MaxPods + 1
    /\ j.rm > 0 => Resulting(j) >= MinPods - Extra(j)

LEMMA Constants ==
  /\ MaxPods \in Nat /\ MinPods \in Nat /\ MaxLen \in Nat
  /\ CPURounding \in Nat \ {0} /\ MaxProActiveCPU \in Nat /\ CPUIncrement \in Nat
  /\ Predictions \subseteq Nat /\ SeenPods \subseteq Nat
  BY ScalingAssumption DEF CPUIncrement

LEMMA StepWithin ==
  ASSUME NEW seen \in Nat, NEW j, PlanWithin(j, seen),
         NEW k \in ScaleOutNextState(j) \cup RmPodNextState(j) \cup CPUNextState(j)
  PROVE  PlanWithin(k, seen)
  <1> USE DEF PlanWithin, Resulting, Extra, NoValue
  <1>0. /\ j.size \in Int /\ j.out \in Nat /\ j.rm \in Nat /\ j.cpu \in Nat \cup {NoValue}
        /\ j.extra \in BOOLEAN /\ j.seen = seen
    BY DEF PlanOf
  <1>1. CASE k \in ScaleOutNextState(j)
    <2>1. PICK size \in j.size + 1 .. MaxPods + 1 :
            k = [j EXCEPT !.size = size, !.out = @ + (size - j.size)]
      BY <1>1 DEF ScaleOutNextState
    <2>2. size \in Int /\ j.size < size /\ size <= MaxPods + 1
      BY <1>0, <2>1, Constants
    <2>3. /\ k \in PlanOf(seen) /\ k.size = size /\ k.out = j.out + (size - j.size)
          /\ k.rm = j.rm /\ k.extra = j.extra /\ k.cpu = j.cpu /\ k.seen = j.seen
      <3>1. k = [seen |-> seen, seenCPU |-> j.seenCPU, latency |-> j.latency, size |-> size,
                out |-> j.out + (size - j.size), rm |-> j.rm, cpu |-> j.cpu, extra |-> j.extra]
        BY <1>0, <2>1 DEF PlanOf
      <3>2. j.out + (size - j.size) \in Nat
        BY <1>0, <2>2
      <3> QED
        BY <1>0, <2>2, <3>1, <3>2 DEF PlanOf
    <2> QED
      BY <1>0, <2>2, <2>3, Constants
  <1>2. CASE k \in RmPodNextState(j)
    <2>1. k = [j EXCEPT !.size = @ - 1, !.rm = @ + 1] /\ j.size - 1 >= MinPods
      BY <1>2 DEF RmPodNextState, MayRemove
    <2>2. /\ k \in PlanOf(seen) /\ k.size = j.size - 1 /\ k.rm = j.rm + 1
          /\ k.out = j.out /\ k.extra = j.extra /\ k.cpu = j.cpu /\ k.seen = j.seen
      <3>1. k = [seen |-> seen, seenCPU |-> j.seenCPU, latency |-> j.latency, size |-> j.size - 1,
                out |-> j.out, rm |-> j.rm + 1, cpu |-> j.cpu, extra |-> j.extra]
        BY <1>0, <2>1 DEF PlanOf
      <3>2. j.size - 1 \in Int /\ j.rm + 1 \in Nat
        BY <1>0
      <3> QED
        BY <1>0, <3>1, <3>2 DEF PlanOf
    <2> QED
      BY <1>0, <2>1, <2>2, Constants
  <1>3. CASE k \in CPUNextState(j)
    <2>1. j.cpu = NoValue /\ ~j.extra
      BY <1>3 DEF CPUNextState
    <2>2. CASE k \in CPUFindStates(j)
      <3>1. PICK p \in Predictions : k = [j EXCEPT !.cpu = roundUpCores(p)]
        BY <2>2 DEF CPUFindStates
      <3>2. roundUpCores(p) \in Nat
        <4>1. p \in Nat /\ CPURounding \in Nat \ {0}
          BY Constants
        <4>2. p \div CPURounding \in Nat
          BY <4>1
        <4> QED
          BY <4>1, <4>2 DEF roundUpCores
      <3>3. /\ k \in PlanOf(seen) /\ k.size = j.size /\ k.rm = j.rm
            /\ k.out = j.out /\ k.extra = j.extra /\ k.seen = j.seen
        BY <3>1, <3>2 DEF PlanOf
      <3> QED
        BY <2>1, <3>3
    <2>3. CASE k \in CPUProactive(j)
      <3>1. PICK v \in ProactiveValues(j) :
              k = [j EXCEPT !.cpu = v, !.size = @ + 1, !.extra = TRUE]
        BY <2>3 DEF CPUProactive
      <3>2. v \in Nat
        BY Constants DEF ProactiveValues
      <3>3. /\ k \in PlanOf(seen) /\ k.size = j.size + 1 /\ k.rm = j.rm
            /\ k.out = j.out /\ k.extra = TRUE /\ k.cpu = v /\ k.seen = j.seen
        <4>1. k = [seen |-> seen, seenCPU |-> j.seenCPU, latency |-> j.latency, size |-> j.size + 1,
                  out |-> j.out, rm |-> j.rm, cpu |-> v, extra |-> TRUE]
          BY <1>0, <3>1 DEF PlanOf
        <4>2. j.size + 1 \in Int /\ v \in Nat /\ TRUE \in BOOLEAN
          BY <1>0, <3>2
        <4> QED
          BY <1>0, <4>1, <4>2 DEF PlanOf
      <3> QED
        BY <1>0, <2>1, <3>2, <3>3, Constants
    <2> QED
      BY <1>3, <2>2, <2>3 DEF CPUNextState
  <1> QED
    BY <1>1, <1>2, <1>3

\* Plans of any length are within the limits.
LEMMA PlansWithin ==
  ASSUME NEW seen \in Nat, NEW seenCPU \in Int, NEW latency \in BOOLEAN,
         NEW j \in Plans(seen, seenCPU, latency)
  PROVE  PlanWithin(j, seen)
  <1> DEFINE N == MaxLen
             start == [seen |-> seen, seenCPU |-> seenCPU, latency |-> latency, size |-> seen,
                       out |-> 0, rm |-> 0, cpu |-> NoValue, extra |-> FALSE]
             Step(x) == x \cup UNION {ScaleOutNextState(i) \cup RmPodNextState(i) \cup CPUNextState(i) :
                                      i \in x}
             Body(f) == [k \in 0 .. N |-> IF k = 0 THEN {start} ELSE Step(f[k-1])]
             Good(f, n) == f[0] = {start} /\ \A k \in 1 .. n : f[k] = Step(f[k-1])
             S == {n \in 0 .. N : \E f : Good(f, n)}
             F == CHOOSE f : f = Body(f)
  <1>1. N \in Nat
    BY Constants
  <1>2. j \in F[N]
    BY DEF Plans
  <1>3. PlanWithin(start, seen)
    BY DEF PlanWithin, PlanOf, Resulting, Extra, NoValue
  <1>4. ASSUME NEW x, \A i \in x : PlanWithin(i, seen)
        PROVE  \A i \in Step(x) : PlanWithin(i, seen)
    BY <1>4, StepWithin
  <1> HIDE DEF start, Step, N
  \* The recursive definition has a solution.
  <1>5. 0 \in S
    <2>1. Good([k \in 0 .. 0 |-> {start}], 0)
      OBVIOUS
    <2>2. 0 \in 0 .. N
      BY <1>1
    <2> QED
      BY <2>1, <2>2
  <1>6. ASSUME NEW n \in 1 .. N, n - 1 \in S PROVE n \in S
    <2>1. PICK f : Good(f, n - 1)
      BY <1>6
    <2> DEFINE g == [k \in 0 .. n |-> IF k = n THEN Step(f[n-1]) ELSE f[k]]
    <2>2. g[0] = {start}
      BY <2>1, <1>1
    <2>3. ASSUME NEW k \in 1 .. n PROVE g[k] = Step(g[k-1])
      <3>1. g[k-1] = f[k-1]
        BY <1>1
      <3>2. CASE k = n
        BY <3>1, <3>2
      <3>3. CASE k # n
        <4>1. k \in 1 .. (n - 1) /\ g[k] = f[k]
          BY <1>1, <3>3
        <4> QED
          BY <2>1, <3>1, <4>1
      <3> QED
        BY <3>2, <3>3
    <2> HIDE DEF g
    <2>4. Good(g, n) /\ n \in 0 .. N
      BY <1>1, <2>2, <2>3
    <2> QED
      BY <2>4
  <1>7. \E f : f = Body(f)
    <2>1. \A n \in 0 .. N : n \in S
      <3> HIDE DEF S
      <3> QED
        BY <1>1, <1>5, <1>6, UpTo
    <2>2. PICK f : Good(f, N)
      <3>1. N \in S
        <4>1. N \in 0 .. N
          BY <1>1
        <4> QED
          BY <2>1, <4>1
      <3> HIDE DEF Good
      <3> QED
        BY <3>1
    <2> DEFINE g == [k \in 0 .. N |-> f[k]]
    <2>3. ASSUME NEW k \in 0 .. N
          PROVE  g[k] = IF k = 0 THEN {start} ELSE Step(g[k-1])
      <3>1. CASE k = 0
        BY <2>2, <3>1
      <3>2. CASE k # 0
        <4>1. k \in 1 .. N /\ k - 1 \in 0 .. N
          BY <1>1, <3>2
        <4>2. g[k] = f[k] /\ g[k-1] = f[k-1]
          BY <4>1
        <4> QED
          BY <2>2, <3>2, <4>1, <4>2
      <3> QED
        BY <3>1, <3>2
    <2>4. g = Body(g)
      BY <2>3
    <2> QED
      BY <2>4
  <1>8. F = Body(F)
    <2> HIDE DEF Body
    <2> QED
      BY <1>7
  <1> HIDE DEF F
  \* What each of its values contains, by induction.
  <1> DEFINE Fine == {n \in 0 .. N : \A i \in F[n] : PlanWithin(i, seen)}
  <1>9. 0 \in Fine
    <2>1. 0 \in 0 .. N
      BY <1>1
    <2>2. F[0] = {start}
      BY <1>8, <2>1
    <2> QED
      BY <1>3, <2>1, <2>2
  <1>10. ASSUME NEW n \in 1 .. N, n - 1 \in Fine PROVE n \in Fine
    <2>1. n \in 0 .. N /\ n # 0
      BY <1>1
    <2>2. F[n] = Step(F[n-1])
      BY <1>8, <2>1
    <2>3. \A i \in F[n-1] : PlanWithin(i, seen)
      BY <1>10
    <2> QED
      BY <1>4, <2>1, <2>2, <2>3
  <1>11. N \in Fine
    <2>1. \A n \in 0 .. N : n \in Fine
      <3> HIDE DEF Fine
      <3> QED
        BY <1>1, <1>9, <1>10, UpTo
    <2>2. N \in 0 .. N
      BY <1>1
    <2> HIDE DEF Fine
    <2> QED
      BY <2>1, <2>2
  <1> QED
    BY <1>2, <1>11

\* What an executor keeps of a plan is within the limits, too, and while it has
\* the CPU request before it there is a value for it.
JobWithin(j) ==
    /\ j \in [seen : Nat, factor : Int, cpu : Nat \cup {NoValue}, extra : BOOLEAN]
    /\ j.factor > 0 => j.seen + j.factor <= MaxPods + 1
    /\ j.factor < 0 => j.seen + j.factor >= MinPods - Extra(j)

JobInv == \A e \in Executors : /\ JobWithin(job[e])
                               /\ "scaleCPU" \in Undecided(e) => job[e].cpu # NoValue

WithinInv == WorkInv /\ ScalingTypeOK /\ JobInv

LEMMA NoJobWithin == JobWithin(NoJob)
  BY DEF JobWithin, NoJob, NoValue

\* An executor leaves an actuator, or the plan.
LEMMA ReturnWithin ==
  ASSUME WithinInv, NEW e \in Executors, Return(e, left'[e]), NoLostUpdates',
         left' = left \/ \E a \in Actuators : left' = [left EXCEPT ![e] = @ \ {a}],
         fresh' \subseteq Executors, replicas' \in Nat, cpu' \in Nat, plans' = plans
  PROVE  ScalingTypeOK' /\ JobInv'
  <1> USE DEF WithinInv, ScalingTypeOK
  <1>1. /\ left' \in [Executors -> SUBSET Actuators] /\ left'[e] \subseteq left[e]
        /\ \A x \in Executors \ {e} : left'[x] = left[x]
    OBVIOUS
  <1>2. /\ epc' \in [Executors -> {"idle", "iter"} \cup Updating] /\ epc'[e] \in {"idle", "iter"}
        /\ \A x \in Executors \ {e} : epc'[x] = epc[x]
    BY DEF Return
  <1>3. /\ job' \in [Executors -> [seen : Nat, factor : Int, cpu : Nat \cup {NoValue}, extra : BOOLEAN]]
        /\ \A x \in Executors \ {e} : job'[x] = job[x]
        /\ IF left'[e] = {} THEN job'[e] = NoJob ELSE job'[e] = job[e]
    BY DEF Return, NoJob, NoValue
  <1>4. copy' \in [Executors -> [replicas : Nat, cpu : Nat] \cup {NoCopy}]
    BY DEF Return
  <1>5. tries' \in [Executors -> Nat] /\ \A x \in Executors : tries'[x] < Retries
    <2>1. 0 < Retries
      BY ScalingAssumption
    <2> QED
      BY <2>1 DEF Return
  <1>6. expected' \in Int /\ lastCPU' \in Nat
    BY DEF NoLostUpdates
  <1>7. JobInv'
    <2>1. \A x \in Executors \ {e} : Undecided(x)' = Undecided(x)
      BY <1>1, <1>2 DEF Undecided
    <2>2. Undecided(e)' \subseteq Undecided(e) /\ (left'[e] = {} => Undecided(e)' = {})
      BY <1>1, <1>2 DEF Undecided, Updating
    <2> QED
      BY <1>3, <2>1, <2>2, NoJobWithin DEF JobInv
  <1> QED
    BY <1>1, <1>2, <1>3, <1>4, <1>5, <1>6, <1>7

\* A new plan is one of Plans.
LEMMA CreatePlanWithin ==
  ASSUME WithinInv, NEW e \in Executors, NEW seen \in SeenPods, CreatePlan(e, seen)
  PROVE  ScalingTypeOK' /\ JobInv'
  <1> USE DEF WithinInv, ScalingTypeOK
  <1>1. PICK j \in UNION {Plans(seen, cpu, latency) : latency \in BOOLEAN} :
          /\ job' = [job EXCEPT ![e] = [seen |-> seen, factor |-> Factor(j), cpu |-> j.cpu,
                                        extra |-> j.extra]]
          /\ left' = [left EXCEPT ![e] = WithWork(j)]
    BY Zenon DEF CreatePlan, getResourceValues
  <1>2. PICK latency \in BOOLEAN : j \in Plans(seen, cpu, latency)
    OBVIOUS
  <1>3. seen \in Nat
    BY Constants
  <1>4. PlanWithin(j, seen)
    BY <1>2, <1>3, PlansWithin
  <1> DEFINE k == [seen |-> seen, factor |-> Factor(j), cpu |-> j.cpu, extra |-> j.extra]
  <1>5. JobWithin(k)
    <2>1. /\ j.out \in Nat /\ j.rm \in Nat /\ j.cpu \in Nat \cup {NoValue} /\ j.extra \in BOOLEAN
          /\ j.seen = seen
      BY <1>4 DEF PlanWithin, PlanOf
    <2>2. /\ Factor(j) \in Int /\ seen + Factor(j) = Resulting(j)
          /\ Factor(j) > 0 => j.out > 0
          /\ Factor(j) < 0 => j.rm > 0
      BY <1>3, <2>1 DEF Factor, Resulting
    <2>3. /\ k \in [seen : Nat, factor : Int, cpu : Nat \cup {NoValue}, extra : BOOLEAN]
          /\ k.seen = seen /\ k.factor = Factor(j) /\ k.extra = j.extra /\ Extra(k) = Extra(j)
      BY <1>3, <2>1, <2>2 DEF Extra
    <2> HIDE DEF k
    <2> QED
      BY <1>4, <2>2, <2>3 DEF JobWithin, PlanWithin
  <1>6. k.cpu = j.cpu
    OBVIOUS
  <1>7. job' = [job EXCEPT ![e] = k]
    BY <1>1
  <1> HIDE DEF k
  <1>8. WithWork(j) \subseteq Actuators /\ ("scaleCPU" \in WithWork(j) => k.cpu # NoValue)
    BY <1>6 DEF WithWork, Actuators
  <1>9. /\ epc' = [epc EXCEPT ![e] = "iter"] /\ plans < MaxPlans /\ plans' = plans + 1
        /\ UNCHANGED <<replicas, cpu, fresh, copy, tries, expected, lastCPU>>
    BY DEF CreatePlan, workloadVars, historyVars
  <1>10. plans' \in 0 .. MaxPlans
    BY <1>9, ScalingAssumption
  <1>11. job' \in [Executors -> [seen : Nat, factor : Int, cpu : Nat \cup {NoValue}, extra : BOOLEAN]]
    BY <1>5, <1>7 DEF JobWithin
  <1>12. left' \in [Executors -> SUBSET Actuators]
    BY <1>1, <1>8
  <1>13. JobInv'
    <2>1. \A x \in Executors \ {e} : Undecided(x)' = Undecided(x) /\ job'[x] = job[x]
      BY <1>1, <1>9 DEF Undecided
    <2>2. "scaleCPU" \in Undecided(e)' => "scaleCPU" \in WithWork(j)
      BY <1>1, <1>9 DEF Undecided
    <2>3. job'[e] = k
      BY <1>7
    <2> QED
      BY <1>5, <1>8, <2>1, <2>2, <2>3 DEF JobInv
  <1>14. epc' \in [Executors -> {"idle", "iter"} \cup Updating]
    BY <1>9
  <1> QED
    BY <1>9, <1>10, <1>11, <1>12, <1>13, <1>14

LEMMA WithinStep ==
  ASSUME WithinInv, [ScalingNext]_scalingVars
  PROVE  ScalingTypeOK' /\ JobInv'
  <1> USE DEF WithinInv
  <1>0. UpdateInv'
    BY UpdateStep DEF WorkInv
  <1>1. fresh' \subseteq Executors /\ NoLostUpdates'
    BY <1>0 DEF UpdateInv
  <1>2. ASSUME NEW e \in Executors, NEW seen \in SeenPods, CreatePlan(e, seen)
        PROVE  ScalingTypeOK' /\ JobInv'
    BY <1>2, CreatePlanWithin
  <1>3. ASSUME NEW e \in Executors, NEW a \in Updating, GetWorkload(e, a)
        PROVE  ScalingTypeOK' /\ JobInv'
    <2>1. /\ UNCHANGED <<replicas, cpu, job, tries, plans, expected, lastCPU>>
          /\ epc' = [epc EXCEPT ![e] = a] /\ left' = [left EXCEPT ![e] = @ \ {a}]
          /\ copy' = [copy EXCEPT ![e] = [replicas |-> replicas, cpu |-> cpu]]
          /\ a \in Undecided(e)
      BY <1>3 DEF GetWorkload, workloadVars, historyVars, Undecided
    <2>2. ScalingTypeOK'
      BY <1>1, <2>1 DEF ScalingTypeOK
    <2>3. \A x \in Executors : Undecided(x)' \subseteq Undecided(x)
      BY <2>1 DEF Undecided, ScalingTypeOK
    <2>4. JobInv'
      BY <2>1, <2>3 DEF JobInv
    <2> QED
      BY <2>2, <2>4
  <1>4. ASSUME NEW e \in Executors, NEW a \in Updating, CallFails(e, a)
        PROVE  ScalingTypeOK' /\ JobInv'
    <2>1. /\ left' = [left EXCEPT ![e] = @ \ {a}] /\ Return(e, left'[e]) /\ a \in Actuators
          /\ UNCHANGED <<replicas, cpu, plans>>
      BY <1>4 DEF CallFails, workloadVars, ScalingTypeOK, Updating, Actuators
    <2> QED
      BY <1>1, <2>1, ReturnWithin DEF ScalingTypeOK
  <1>5. ASSUME NEW e \in Executors, UpdateReplicas(e)
        PROVE  ScalingTypeOK' /\ JobInv'
    <2>1. /\ copy[e] = [replicas |-> replicas, cpu |-> cpu]
          /\ left' = left /\ Return(e, left'[e]) /\ plans' = plans
          /\ replicas' = copy[e].replicas + job[e].factor /\ cpu' = copy[e].cpu
          /\ copy[e].replicas + job[e].factor > 0
      BY <1>5 DEF UpdateReplicas, Accepted, Write, WorthUpdating, WorkInv, UpdateInv, FreshInv
    <2>2. replicas' \in Nat /\ cpu' \in Nat
      <3>1. job[e].factor \in Int /\ replicas \in Nat /\ cpu \in Nat
        BY DEF ScalingTypeOK
      <3> QED
        BY <2>1, <3>1
    <2> QED
      BY <1>1, <2>1, <2>2, ReturnWithin
  <1>6. ASSUME NEW e \in Executors, UpdateCPU(e)
        PROVE  ScalingTypeOK' /\ JobInv'
    <2>1. /\ copy[e] = [replicas |-> replicas, cpu |-> cpu]
          /\ left' = left /\ Return(e, left'[e]) /\ plans' = plans
          /\ replicas' = copy[e].replicas /\ cpu' = job[e].cpu
          /\ "scaleCPU" \in Undecided(e)
      BY <1>6 DEF UpdateCPU, Accepted, Write, WorkInv, UpdateInv, FreshInv, Undecided, Updating
    <2>2. replicas' \in Nat /\ cpu' \in Nat
      BY <2>1 DEF ScalingTypeOK, JobInv
    <2> QED
      BY <1>1, <2>1, <2>2, ReturnWithin
  <1>7. ASSUME NEW e \in Executors, NothingLeft(e)
        PROVE  ScalingTypeOK' /\ JobInv'
    <2>1. left' = left /\ Return(e, left'[e]) /\ UNCHANGED <<replicas, cpu, plans>>
      BY <1>7 DEF NothingLeft, workloadVars
    <2> QED
      BY <1>1, <2>1, ReturnWithin DEF ScalingTypeOK
  <1>8. ASSUME NEW e \in Executors, Conflict(e)
        PROVE  ScalingTypeOK' /\ JobInv'
    <2>1. left' = left /\ UNCHANGED <<replicas, cpu, plans, fresh, expected, lastCPU>>
      BY <1>8 DEF Conflict, workloadVars, historyVars
    <2>2. CASE Return(e, left[e])
      BY <1>1, <2>1, <2>2, ReturnWithin DEF ScalingTypeOK
    <2>3. CASE /\ tries[e] + 1 < Retries
               /\ tries' = [tries EXCEPT ![e] = @ + 1]
               /\ copy' = [copy EXCEPT ![e] = NoCopy]
               /\ UNCHANGED <<epc, job>>
      <3>1. tries' \in [Executors -> Nat] /\ \A x \in Executors : tries'[x] < Retries
        BY <2>3 DEF ScalingTypeOK
      <3>2. ScalingTypeOK'
        BY <2>1, <2>3, <3>1 DEF ScalingTypeOK
      <3>3. JobInv'
        BY <2>1, <2>3 DEF JobInv, Undecided
      <3> QED
        BY <3>2, <3>3
    <2> QED
      BY <1>8, <2>2, <2>3 DEF Conflict
  <1>9. ASSUME NEW e \in Executors, DeletePods(e)
        PROVE  ScalingTypeOK' /\ JobInv'
    <2>1. /\ left' = [left EXCEPT ![e] = @ \ {"rmPod"}] /\ Return(e, left'[e])
          /\ UNCHANGED <<replicas, cpu, plans>> /\ "rmPod" \in Actuators
      BY <1>9 DEF DeletePods, workloadVars, ScalingTypeOK, Actuators
    <2> QED
      BY <1>1, <2>1, ReturnWithin DEF ScalingTypeOK
  <1>10. ASSUME NEW r \in UserReplicas, UserScales(r)
         PROVE  ScalingTypeOK' /\ JobInv'
    <2>1. r \in Nat
      BY ScalingAssumption
    <2> QED
      BY <1>1, <1>10, <2>1 DEF UserScales, ScalingTypeOK, JobInv, Undecided
  <1>11. ASSUME Touch \/ UNCHANGED scalingVars
         PROVE  ScalingTypeOK' /\ JobInv'
    BY <1>1, <1>11 DEF Touch, scalingVars, workloadVars, historyVars, ScalingTypeOK, JobInv, Undecided
  <1> QED
    BY <1>2, <1>3, <1>4, <1>5, <1>6, <1>7, <1>8, <1>9, <1>10, <1>11 DEF ScalingNext, Performing

LEMMA WithinInit == ScalingInit => WithinInv
  <1> SUFFICES ASSUME ScalingInit PROVE WithinInv
    OBVIOUS
  <1>1. PlanInv
    BY DEF ScalingInit, PlanInv
  <1>2. ScalingTypeOK
    <2>1. UserReplicas \subseteq Nat /\ 0 < Retries /\ 0 \in 0 .. MaxPlans
      BY ScalingAssumption
    <2>2. NoJob \in [seen : Nat, factor : Int, cpu : Nat \cup {NoValue}, extra : BOOLEAN]
      BY DEF NoJob, NoValue
    <2> QED
      BY <2>1, <2>2 DEF ScalingInit, ScalingTypeOK
  <1>3. JobInv
    BY NoJobWithin DEF ScalingInit, JobInv, Undecided, Updating
  <1> QED
    BY <1>1, <1>2, <1>3, UpdateInit DEF WithinInv, WorkInv

LEMMA WithinNext == WithinInv /\ [ScalingNext]_scalingVars => WithinInv'
  BY UpdateStep, PlanStep, WithinStep DEF WithinInv, WorkInv

\* The types: no number of replicas or CPU units is negative, and no Perform
\* makes more attempts than it is allowed.
THEOREM ScalingTypes == ScalingSpec => []ScalingTypeOK
  <1>1. WithinInv => ScalingTypeOK
    BY DEF WithinInv
  <1> QED
    BY <1>1, WithinInit, WithinNext, PTL DEF ScalingSpec

\* A step that changes the replicas and ends scaleOut's Perform is the update,
\* of a copy that is the workload.
LEMMA ScaledStep ==
  ASSUME WithinInv, [ScalingNext]_scalingVars, NEW e \in Executors,
         epc[e] = "scaleOut", epc'[e] # "scaleOut", replicas' # replicas,
         e \in fresh
  PROVE  replicas' = replicas + job[e].factor
  <1> USE DEF WithinInv, WorkInv, UpdateInv
  <1>1. ~(\E x \in Executors, seen \in SeenPods : CreatePlan(x, seen))
    BY DEF CreatePlan, workloadVars
  <1>2. ~(\E x \in Executors, a \in Updating : GetWorkload(x, a) \/ CallFails(x, a))
    BY DEF GetWorkload, CallFails, workloadVars
  <1>3. ~(\E x \in Executors : NothingLeft(x) \/ Conflict(x) \/ DeletePods(x))
    BY DEF NothingLeft, Conflict, DeletePods, workloadVars
  <1>4. ~((\E r \in UserReplicas : UserScales(r)) \/ Touch \/ UNCHANGED scalingVars)
    BY DEF UserScales, Touch, scalingVars, workloadVars
  <1>5. PICK x \in Executors : UpdateReplicas(x) \/ UpdateCPU(x)
    BY <1>1, <1>2, <1>3, <1>4 DEF ScalingNext, Performing
  <1>6. x = e
    BY <1>5 DEF UpdateReplicas, UpdateCPU, Return
  <1>7. UpdateReplicas(e)
    BY <1>5, <1>6 DEF UpdateCPU
  <1> QED
    BY <1>7 DEF UpdateReplicas, Write, FreshInv

\* A plan that meets the workload it was made for takes it at most one POD above
\* max_pods, and at most one below min_pods, with an entry of the CPU-scale
\* actuator only, for plans of any length and any number of them.
THEOREM LimitsMissedByOneAtMost == ScalingSpec => MissedByOneAtMost
  <1>1. WithinInv /\ [ScalingNext]_scalingVars
          => [\A e \in Executors :
                /\ epc[e] = "scaleOut" /\ epc'[e] # "scaleOut" /\ replicas' # replicas
                /\ e \in fresh /\ replicas = job[e].seen
                => /\ replicas' > replicas => replicas' <= MaxPods + 1
                   /\ replicas' < replicas
                        => replicas' >= MinPods - (IF job[e].extra THEN 1 ELSE 0)]_scalingVars
    <2> SUFFICES ASSUME WithinInv, [ScalingNext]_scalingVars, NEW e \in Executors,
                        epc[e] = "scaleOut", epc'[e] # "scaleOut", replicas' # replicas,
                        e \in fresh, replicas = job[e].seen
                 PROVE  /\ replicas' > replicas => replicas' <= MaxPods + 1
                        /\ replicas' < replicas
                             => replicas' >= MinPods - (IF job[e].extra THEN 1 ELSE 0)
      OBVIOUS
    <2>1. JobWithin(job[e])
      BY DEF WithinInv, JobInv
    <2>2. job[e].seen \in Nat /\ job[e].factor \in Int
      BY <2>1 DEF JobWithin
    <2>3. PICK r \in Int : replicas' = r /\ r = job[e].seen + job[e].factor
      BY <2>2, ScaledStep
    <2>4. /\ r > job[e].seen => r <= MaxPods + 1
          /\ r < job[e].seen => r >= MinPods - Extra(job[e])
      BY <2>1, <2>2, <2>3 DEF JobWithin
    <2> QED
      BY <2>3, <2>4 DEF Extra
  <1> QED
    BY <1>1, WithinInit, WithinNext, PTL DEF ScalingSpec, MissedByOneAtMost
=============================================================================
