-------------------------- MODULE PodMonitor_proofs --------------------------
(***************************************************************************)
(* Proofs about PodMonitor, for any number of PODs, workers, incidents,    *)
(* outages and failures: each time a POD goes out of order, at most two    *)
(* reports of it reach the controller.  What is left of these two is what  *)
(* the workers and podsWithError can still bring about, and it is paid for *)
(* by the outages.                                                         *)
(***************************************************************************)
EXTENDS PodMonitor, TLAPS

\* The work queue never hands a key to two workers.
OwnerInv ==
    /\ mpc \in [Workers -> {"get", "read", "check", "report", "clear", "mark"}]
    /\ mkey \in [Workers -> Keys \cup {None}]
    /\ \A w \in Workers : mpc[w] # "get" => mkey[w] \in Keys /\ mkey[w] \in processing
    /\ \A v, w \in Workers :
         mpc[v] # "get" /\ mpc[w] # "get" /\ mkey[v] = mkey[w] => v = w

CacheInv ==
    /\ lister \in [Keys -> PodStates \cup {NoObject}]
    /\ mpod \in [Workers -> PodStates \cup {None}]
    /\ cacheMsg \in Messages \cup {None}
    /\ podsWithError \subseteq Keys
    /\ reports \in [Keys -> Nat]
    /\ outages \in [Keys -> Nat]

\* What a worker is about to do: "mark" if it has read a failed POD, "found" if
\* it has read a recovered one and not looked at podsWithError yet.
Place(w) == IF mpc[w] = "check" /\ Failed(mpod[w]) THEN "mark"
            ELSE IF mpc[w] = "check" /\ Recovered(mpod[w]) THEN "found"
            ELSE mpc[w]

Places == {"mark", "found", "report", "clear"}
At(k, place) == \E w \in Workers : Place(w) = place /\ mkey[w] = k

\* The change updatePodCache has in its hands: k is added, or removed.
Marking(k) == cacheMsg = [key |-> k, state |-> TRUE]
Clearing(k) == cacheMsg = [key |-> k, state |-> FALSE]

\* The error of k stays in podsWithError until a worker hands over its removal;
\* it is leaving when that has happened, and then it is found for the last time.
Live(k) == (k \in podsWithError \/ Marking(k)) /\ ~Clearing(k)
Leaving(k) == k \in podsWithError /\ Clearing(k)

\* The reports of k that can still be sent before its POD is seen to fail again.
Due(k) == IF At(k, "mark") THEN 2
          ELSE IF Live(k) THEN IF At(k, "clear") THEN 1 ELSE 2
          ELSE IF Leaving(k) THEN IF At(k, "clear") THEN 0 ELSE 1
          ELSE IF At(k, "report") THEN 1 ELSE 0

\* One that can be sent although the POD of k is out of order again.
Late(k) == At(k, "report") \/ (At(k, "found") /\ (Live(k) \/ Leaving(k)))

Out(k) == Exists(k) /\ Failed(lister[k])

\* A POD that is out of order will cause two reports when it is back.
Owed(k) == IF Out(k) THEN IF Late(k) THEN 3 ELSE 2 ELSE Due(k)
Paid(k) == reports[k] + Owed(k) <= 2 * outages[k]

ReportInv == \A k \in Keys : Paid(k)

PodInv == OwnerInv /\ CacheInv /\ ReportInv

IncidentsInv == incidents \in [Keys -> 0 .. MaxIncidents]

IInv == PodInv /\ IncidentsInv

USE NoneAssumption, BoundsAssumption

LEMMA NoMessage ==
  \A k \in Keys, b \in BOOLEAN : [key |-> k, state |-> b] # None
<1>1. \A k \in Keys, b \in BOOLEAN : [key |-> k, state |-> b] \in Messages
  BY DEF Messages
<1> QED
  BY <1>1

LEMMA DueRange ==
  ASSUME NEW k
  PROVE  Due(k) \in 0 .. 2 /\ Owed(k) \in 0 .. 3
BY DEF Due, Owed

\* At most one worker has k, so the places exclude each other.
LEMMA OnePlace ==
  ASSUME OwnerInv, NEW k \in Keys, NEW p \in Places, NEW q \in Places, At(k, p), At(k, q)
  PROVE  p = q
<1>1. \A w \in Workers : Place(w) \in Places => mpc[w] # "get"
  BY DEF Place, Places
<1> QED
  BY <1>1 DEF At, OwnerInv

\* A report that can be sent any more is due.
LEMMA LateIsDue ==
  ASSUME OwnerInv, NEW k \in Keys, Late(k)
  PROVE  Due(k) >= 1
<1>1. ~At(k, "clear")
  BY OnePlace DEF Late, Places
<1> QED
  BY <1>1 DEF Late, Due

LEMMA InitIInv == Init => IInv
<1> SUFFICES ASSUME Init PROVE IInv
  OBVIOUS
<1>1. OwnerInv /\ CacheInv
  BY DEF Init, InformerInit, OwnerInv, CacheInv
<1>2. ASSUME NEW k \in Keys PROVE Paid(k)
  <2>1. \A p \in Places : ~At(k, p)
    BY DEF Init, At, Place, Places
  <2>2. ~Live(k) /\ ~Leaving(k) /\ ~Out(k)
    BY NoMessage DEF Init, InformerInit, Live, Marking, Leaving, Out, Exists
  <2> QED
    BY <2>1, <2>2 DEF Init, Paid, Owed, Due, Places
<1> QED
  BY <1>1, <1>2 DEF IInv, IncidentsInv, PodInv, ReportInv, Init

-----------------------------------------------------------------------------
(* What a step may do to the workers. *)

\* A worker goes on with its key.
Goes(w, pc) ==
    /\ mpc[w] # "get" /\ mpc' = [mpc EXCEPT ![w] = pc]
    /\ \A v \in Workers \ {w} : mpod'[v] = mpod[v]
    /\ UNCHANGED <<mkey, processing>>

LEMMA GoesOwner ==
  ASSUME OwnerInv, NEW w \in Workers,
         NEW pc \in {"read", "check", "report", "clear", "mark"}, Goes(w, pc)
  PROVE  OwnerInv'
BY DEF Goes, OwnerInv

LEMMA DoneOwner ==
  ASSUME OwnerInv, NEW w \in Workers, mpc[w] # "get", WorkerDone(w),
         processing' = processing \ {mkey[w]}
  PROVE  OwnerInv'
<1>1. /\ mpc' = [mpc EXCEPT ![w] = "get"] /\ mkey' = [mkey EXCEPT ![w] = None]
  BY DEF WorkerDone, GoTo
<1>2. ASSUME NEW v \in Workers, mpc'[v] # "get"
      PROVE  v # w /\ mpc[v] # "get" /\ mkey'[v] = mkey[v] /\ mkey[v] # mkey[w]
  BY <1>1, <1>2 DEF OwnerInv
<1> QED
  BY <1>1, <1>2 DEF OwnerInv

LEMMA GetOwner ==
  ASSUME OwnerInv, NEW w \in Workers, NEW k \in Keys, Get(w, k)
  PROVE  OwnerInv'
<1>1. /\ mpc[w] = "get" /\ k \notin processing /\ processing' = processing \cup {k}
      /\ mpc' = [mpc EXCEPT ![w] = "read"] /\ mkey' = [mkey EXCEPT ![w] = k]
  BY DEF Get, QueueGet, Ready, GoTo
<1>2. \A v \in Workers : v # w /\ mpc[v] # "get" => mkey[v] # k
  BY <1>1 DEF OwnerInv
<1> QED
  BY <1>1, <1>2 DEF OwnerInv

\* A worker that changes its place, with its key or without one, leaves the
\* others where they are.
LEMMA AtGoes ==
  ASSUME OwnerInv, NEW w \in Workers,
         NEW pc \in {"read", "check", "report", "clear", "mark"}, Goes(w, pc),
         NEW k \in Keys, NEW p \in Places
  PROVE  At(k, p)' <=> IF k = mkey[w] THEN p = Place(w)' ELSE At(k, p)
<1>1. \A v \in Workers : /\ mkey'[v] = mkey[v]
                         /\ v # w => Place(v)' = Place(v)
  BY DEF Goes, OwnerInv, Place
<1>2. CASE k = mkey[w]
  <2>1. \A v \in Workers : v # w /\ mkey[v] = k => Place(v) = "get"
    BY <1>2 DEF OwnerInv, Goes, Place
  <2> QED
    BY <1>1, <1>2, <2>1 DEF At, Places
<1>3. CASE k # mkey[w]
  BY <1>1, <1>3 DEF At
<1> QED
  BY <1>2, <1>3

LEMMA AtDone ==
  ASSUME OwnerInv, CacheInv, NEW w \in Workers, mpc[w] # "get", WorkerDone(w),
         NEW k \in Keys, NEW p \in Places
  PROVE  At(k, p)' <=> k # mkey[w] /\ At(k, p)
<1>1. \A v \in Workers : /\ mkey'[v] = IF v = w THEN None ELSE mkey[v]
                         /\ Place(v)' = IF v = w THEN "get" ELSE Place(v)
  BY DEF WorkerDone, GoTo, OwnerInv, CacheInv, Place
<1>2. \A v \in Workers : Place(v) = p => mpc[v] # "get"
  BY DEF Place, Places
<1> QED
  BY <1>1, <1>2 DEF At, OwnerInv, Places

LEMMA AtGet ==
  ASSUME OwnerInv, NEW w \in Workers, NEW j \in Keys, Get(w, j),
         NEW k \in Keys, NEW p \in Places
  PROVE  At(k, p)' <=> At(k, p)
<1>1. /\ Place(w) = "get" /\ Place(w)' = "read"
      /\ \A v \in Workers \ {w} : mkey'[v] = mkey[v] /\ Place(v)' = Place(v)
  BY DEF Get, GoTo, OwnerInv, Place
<1> QED
  BY <1>1 DEF At, Places

-----------------------------------------------------------------------------
(* The actions. *)

\* A key is paid for as long as no more is owed.
LEMMA NoMoreOwed ==
  ASSUME PodInv, NEW k \in Keys, reports'[k] = reports[k], outages'[k] = outages[k],
         Out(k)' <=> Out(k), Late(k)' => Late(k), Due(k)' <= Due(k)
  PROVE  Paid(k)'
<1>1. /\ reports[k] \in Nat /\ outages[k] \in Nat /\ Due(k) \in 0 .. 2 /\ Due(k)' \in 0 .. 2
      /\ reports[k] + Owed(k) <= 2 * outages[k]
  BY DueRange DEF PodInv, CacheInv, ReportInv, Paid, Due
<1>2. Owed(k)' <= Owed(k) /\ Owed(k) \in 0 .. 3 /\ Owed(k)' \in 0 .. 3
  BY <1>1 DEF Owed
<1> QED
  BY <1>1, <1>2 DEF Paid

\* Steps that concern neither the workers nor the cache nor the PODs.
LEMMA Undisturbed ==
  ASSUME PodInv, UNCHANGED <<lister, processing, mpc, mkey, mpod, cacheMsg, podsWithError, reports,
                           outages>>
  PROVE  PodInv'
BY DEF PodInv, OwnerInv, CacheInv, ReportInv, At, Place, Live, Leaving, Marking, Clearing, Paid,
       Owed, Out, Exists, Late, Due

\* ... and steps of the workers that touch neither the cache nor the reports.
LEMMA CacheUndisturbed ==
  ASSUME PodInv, OwnerInv', mpod' \in [Workers -> PodStates \cup {None}],
         UNCHANGED <<lister, cacheMsg, podsWithError, reports, outages>>,
         \A k \in Keys : Due(k)' <= Due(k) /\ (Out(k) /\ Late(k)' => Late(k))
  PROVE  PodInv'
<1>1. CacheInv'
  BY DEF PodInv, CacheInv
<1>2. ASSUME NEW k \in Keys PROVE Paid(k)'
  <2>1. /\ reports[k] \in Nat /\ outages[k] \in Nat /\ Due(k) \in 0 .. 2 /\ Due(k)' \in 0 .. 2
        /\ reports[k] + Owed(k) <= 2 * outages[k]
    BY DueRange DEF PodInv, CacheInv, ReportInv, Paid, Due
  <2>2. Out(k)' <=> Out(k)
    BY DEF Out, Exists
  <2>3. Owed(k)' <= Owed(k) /\ Owed(k) \in 0 .. 3 /\ Owed(k)' \in 0 .. 3
    BY <2>1, <2>2 DEF Owed
  <2> QED
    BY <2>1, <2>3 DEF Paid
<1> QED
  BY <1>1, <1>2 DEF PodInv, ReportInv

\* The POD of a key may change if an outage is counted when it goes out of order.
LEMMA PodChanges ==
  ASSUME PodInv, NEW k \in Keys, NEW o \in PodStates \cup {NoObject},
         lister' = [lister EXCEPT ![k] = o],
         IF Out(k)' /\ ~Out(k) THEN outages' = [outages EXCEPT ![k] = @ + 1] ELSE UNCHANGED outages,
         UNCHANGED <<processing, mpc, mkey, mpod, cacheMsg, podsWithError, reports>>
  PROVE  PodInv'
<1>1. OwnerInv' /\ CacheInv'
  BY DEF PodInv, OwnerInv, CacheInv
<1>2. \A j \in Keys : /\ Due(j)' = Due(j) /\ (Late(j)' <=> Late(j))
                      /\ j # k => (Out(j)' <=> Out(j)) /\ outages'[j] = outages[j]
  BY DEF Due, Late, At, Place, Live, Leaving, Marking, Clearing, Out, Exists, PodInv, CacheInv
<1>3. \A j \in Keys : Due(j) \in 0 .. 2
  BY DueRange
<1>4. ASSUME NEW j \in Keys, j # k \/ (Out(j)' <=> Out(j)) PROVE Paid(j)'
  <2>1. outages'[j] = outages[j] /\ (Out(j)' <=> Out(j))
    BY <1>2, <1>4
  <2> QED
    BY <1>2, <1>3, <2>1, NoMoreOwed
<1>5. ASSUME Out(k), ~Out(k)' PROVE Paid(k)'
  <2>1. reports[k] \in Nat /\ outages[k] \in Nat /\ reports[k] + 2 <= 2 * outages[k]
    BY <1>5 DEF PodInv, CacheInv, ReportInv, Paid, Owed
  <2> QED
    BY <1>2, <1>3, <1>5, <2>1 DEF Paid, Owed
<1>6. ASSUME ~Out(k), Out(k)' PROVE Paid(k)'
  <2>1. /\ reports[k] \in Nat /\ outages[k] \in Nat /\ reports[k] + Due(k) <= 2 * outages[k]
        /\ outages'[k] = outages[k] + 1
    BY <1>6 DEF PodInv, CacheInv, ReportInv, Paid, Owed
  <2>2. Late(k) => Due(k) >= 1
    BY LateIsDue DEF PodInv
  <2>3. Owed(k)' = IF Late(k) THEN 3 ELSE 2
    BY <1>2, <1>6 DEF Owed
  <2> QED
    BY <1>3, <2>1, <2>2, <2>3 DEF Paid
<1> QED
  BY <1>1, <1>4, <1>5, <1>6 DEF PodInv, ReportInv

\* A worker reads its POD; what it sees of a failure will be due.
LEMMA ReadKeeps ==
  ASSUME PodInv, NEW w \in Workers, Read(w)
  PROVE  PodInv'
<1>1. /\ mpc[w] = "read" /\ Goes(w, "check") /\ Exists(mkey[w])
      /\ mpod' = [mpod EXCEPT ![w] = lister[mkey[w]]]
      /\ UNCHANGED <<lister, cacheMsg, podsWithError, reports, outages>>
  BY DEF Read, Goes, GoTo, informerVars, queueVars, cacheVars, clusterVars, PodInv, CacheInv
<1>2. PICK k \in Keys : k = mkey[w]
  BY <1>1 DEF PodInv, OwnerInv
<1>3. OwnerInv' /\ mpod' \in [Workers -> PodStates \cup {None}]
  <2>1. OwnerInv'
    BY <1>1, GoesOwner DEF PodInv
  <2>2. lister[k] \in PodStates
    BY <1>1, <1>2 DEF Exists, PodInv, CacheInv
  <2>3. lister[mkey[w]] \in PodStates
    BY <1>2, <2>2
  <2>4. mpod' \in [Workers -> PodStates \cup {None}]
    BY <1>1, <2>3 DEF PodInv, CacheInv
  <2> QED
    BY <2>1, <2>4
<1>4. \A p \in Places : ~At(k, p)
  BY <1>1, <1>2 DEF PodInv, OwnerInv, At, Place, Places
<1>5. mpod'[w] = lister[k] /\ mpc'[w] = "check"
  BY <1>1, <1>2 DEF PodInv, CacheInv, OwnerInv, Goes
<1>6. Place(w)' = IF Failed(lister[k]) THEN "mark" ELSE IF Recovered(lister[k]) THEN "found" ELSE "check"
  BY <1>5 DEF Place, Failed, Recovered
<1>7. \A j \in Keys, p \in Places : At(j, p)' <=> IF j = k THEN p = Place(w)' ELSE At(j, p)
  BY <1>1, <1>2, AtGoes DEF PodInv
<1>8. \A j \in Keys : /\ Live(j)' <=> Live(j)
                      /\ Leaving(j)' <=> Leaving(j)
                      /\ Out(j)' <=> Out(j)
  BY <1>1 DEF Live, Leaving, Marking, Clearing, Out, Exists
<1>9. ASSUME NEW j \in Keys, j # k PROVE Paid(j)'
  <2>1. Due(j)' = Due(j) /\ (Late(j)' <=> Late(j)) /\ Due(j) \in 0 .. 2
    BY <1>7, <1>8, <1>9, DueRange DEF Due, Late, Places
  <2> QED
    BY <1>1, <1>8, <2>1, NoMoreOwed
<1>10. Paid(k)'
  <2>1. CASE Failed(lister[k])
    <3>1. Out(k) /\ ~Late(k)'
      BY <1>1, <1>2, <1>6, <1>7, <2>1 DEF Out, Late, Places
    <3>2. Owed(k)' = 2 /\ reports[k] + Owed(k) <= 2 * outages[k] /\ Owed(k) \in {2, 3}
      BY <1>8, <3>1 DEF Owed, PodInv, ReportInv, Paid
    <3> QED
      BY <1>1, <3>2 DEF Paid, PodInv, CacheInv
  <2>2. CASE ~Failed(lister[k])
    <3>1. ~Out(k) /\ Due(k)' = Due(k)
      BY <1>4, <1>6, <1>7, <1>8, <2>2 DEF Out, Due, Places
    <3> QED
      BY <1>1, <1>8, <3>1 DEF Paid, Owed, PodInv, ReportInv
  <2> QED
    BY <2>1, <2>2
<1> QED
  BY <1>1, <1>3, <1>9, <1>10 DEF PodInv, CacheInv, ReportInv

\* A worker looks at podsWithError; what it will report was due and late before.
LEMMA CheckKeeps ==
  ASSUME PodInv, NEW w \in Workers, Check(w)
  PROVE  PodInv'
<1>1. PICK pc \in {"report", "mark"} :
        /\ mpc' = [mpc EXCEPT ![w] = pc]
        /\ pc = "report" => mkey[w] \in podsWithError /\ Recovered(mpod[w])
        /\ pc = "mark" => Failed(mpod[w])
  BY DEF Check, InError, GoTo
<1>2. /\ mpc[w] = "check"
      /\ UNCHANGED <<lister, processing, mkey, mpod, cacheMsg, podsWithError, reports, outages>>
  BY DEF Check, informerVars, queueVars, cacheVars, clusterVars
<1>3. Goes(w, pc) /\ OwnerInv'
  BY <1>1, <1>2, GoesOwner DEF Goes, PodInv
<1>4. PICK k \in Keys : k = mkey[w]
  BY <1>2 DEF PodInv, OwnerInv
<1>5. /\ Place(w)' = pc
      /\ Place(w) = IF pc = "mark" THEN "mark" ELSE "found"
  BY <1>1, <1>2 DEF Place, PodInv, OwnerInv, Failed, Recovered
<1>6. \A p \in Places : At(k, p) <=> p = Place(w)
  <2>1. At(k, Place(w)) /\ Place(w) \in Places
    BY <1>4, <1>5 DEF At, Places
  <2> QED
    BY <2>1, OnePlace DEF PodInv
<1>7. \A j \in Keys, p \in Places : At(j, p)' <=> IF j = k THEN p = pc ELSE At(j, p)
  BY <1>3, <1>4, <1>5, AtGoes DEF PodInv
<1>8. \A j \in Keys : /\ Live(j)' <=> Live(j)
                      /\ Leaving(j)' <=> Leaving(j)
  BY <1>2 DEF Live, Leaving, Marking, Clearing
<1>9. ASSUME NEW j \in Keys PROVE Due(j)' <= Due(j) /\ (Late(j)' => Late(j))
  <2>1. CASE j # k
    BY <1>7, <1>8, <2>1, DueRange DEF Due, Late, Places
  <2>2. CASE j = k /\ pc = "mark"
    BY <1>5, <1>6, <1>7, <2>2 DEF Due, Late, Places
  <2>3. CASE j = k /\ pc = "report"
    <3>1. Live(k) \/ Leaving(k)
      BY <1>1, <1>4, <2>3 DEF Live, Leaving
    <3> QED
      BY <1>5, <1>6, <1>7, <1>8, <2>3, <3>1 DEF Due, Late, Places
  <2> QED
    BY <1>1, <2>1, <2>2, <2>3
<1>10. mpod' \in [Workers -> PodStates \cup {None}]
  BY <1>2 DEF PodInv, CacheInv
<1> QED
  BY <1>2, <1>3, <1>9, <1>10, CacheUndisturbed

\* A report was due, and late if the POD is out of order again.
LEMMA ReportKeeps ==
  ASSUME PodInv, NEW w \in Workers, Report(w)
  PROVE  PodInv'
<1>1. /\ mpc[w] = "report" /\ mpc' = [mpc EXCEPT ![w] = "clear"]
      /\ reports' = [reports EXCEPT ![mkey[w]] = @ + 1]
      /\ UNCHANGED <<lister, processing, mkey, mpod, cacheMsg, podsWithError, outages>>
  BY DEF Report, GoTo, informerVars, queueVars, cacheVars, clusterVars
<1>2. PICK k \in Keys : k = mkey[w]
  BY <1>1 DEF PodInv, OwnerInv
<1>3. Goes(w, "clear") /\ OwnerInv'
  BY <1>1, GoesOwner DEF Goes, PodInv
<1>4. Place(w) = "report" /\ Place(w)' = "clear"
  BY <1>1 DEF Place, PodInv, OwnerInv
<1>5. \A p \in Places : At(k, p) <=> p = "report"
  <2>1. At(k, "report")
    BY <1>2, <1>4 DEF At
  <2> QED
    BY <2>1, OnePlace DEF PodInv, Places
<1>6. \A j \in Keys, p \in Places : At(j, p)' <=> IF j = k THEN p = "clear" ELSE At(j, p)
  BY <1>2, <1>3, <1>4, AtGoes DEF PodInv
<1>7. \A j \in Keys : /\ Live(j)' <=> Live(j)
                      /\ Leaving(j)' <=> Leaving(j)
                      /\ Out(j)' <=> Out(j)
  BY <1>1 DEF Live, Leaving, Marking, Clearing, Out, Exists
<1>8. /\ reports' \in [Keys -> Nat] /\ reports'[k] = reports[k] + 1
      /\ \A j \in Keys : j # k => reports'[j] = reports[j]
  BY <1>1, <1>2 DEF PodInv, CacheInv
<1>9. ASSUME NEW j \in Keys, j # k PROVE Paid(j)'
  <2>1. Due(j)' = Due(j) /\ (Late(j)' <=> Late(j)) /\ Due(j) \in 0 .. 2
    BY <1>6, <1>7, <1>9, DueRange DEF Due, Late, Places
  <2> QED
    BY <1>1, <1>7, <1>8, <1>9, <2>1, NoMoreOwed
<1>10. Paid(k)'
  <2>1. Due(k) = Due(k)' + 1 /\ Due(k)' \in 0 .. 1 /\ Late(k) /\ ~Late(k)'
    BY <1>5, <1>6, <1>7 DEF Due, Late, Places
  <2>2. Owed(k) = Owed(k)' + 1 /\ Owed(k)' \in 0 .. 2
    BY <1>7, <2>1 DEF Owed
  <2>3. reports[k] \in Nat /\ outages[k] \in Nat /\ reports[k] + Owed(k) <= 2 * outages[k]
    BY DEF PodInv, CacheInv, ReportInv, Paid
  <2> QED
    BY <1>1, <1>8, <2>2, <2>3 DEF Paid
<1>11. CacheInv'
  BY <1>1, <1>8 DEF PodInv, CacheInv
<1> QED
  BY <1>3, <1>9, <1>10, <1>11 DEF PodInv, ReportInv

\* The hand-over of a removal leaves one report less, the one of a mark the two
\* that were due.
LEMMA HandOverKeeps ==
  ASSUME PodInv, NEW w \in Workers, HandOver(w)
  PROVE  PodInv'
<1>1. /\ mpc[w] \in {"clear", "mark"} /\ cacheMsg = None /\ WorkerDone(w)
      /\ cacheMsg' = [key |-> mkey[w], state |-> mpc[w] = "mark"]
      /\ processing' = processing \ {mkey[w]}
      /\ UNCHANGED <<lister, podsWithError, reports, outages>>
  BY DEF HandOver, ForgetAndDone, clusterVars
<1>2. PICK k \in Keys : k = mkey[w]
  BY <1>1 DEF PodInv, OwnerInv
<1>3. OwnerInv'
  BY <1>1, DoneOwner DEF PodInv
<1>4. CacheInv'
  <2>1. cacheMsg' \in Messages
    BY <1>1, <1>2 DEF Messages
  <2> QED
    BY <1>1, <2>1 DEF PodInv, CacheInv, WorkerDone
<1>5. \A p \in Places : At(k, p) <=> p = mpc[w]
  <2>1. At(k, mpc[w]) /\ mpc[w] \in Places
    BY <1>1, <1>2 DEF At, Place, Places
  <2> QED
    BY <2>1, OnePlace DEF PodInv
<1>6. \A j \in Keys, p \in Places : At(j, p)' <=> j # k /\ At(j, p)
  BY <1>1, <1>2, AtDone DEF PodInv
<1>7. \A j \in Keys : ~Marking(j) /\ ~Clearing(j)
  BY <1>1, NoMessage DEF Marking, Clearing
<1>8. \A j \in Keys : j # k => ~Marking(j)' /\ ~Clearing(j)'
  BY <1>1, <1>2 DEF Marking, Clearing
<1>9. ASSUME NEW j \in Keys PROVE Due(j)' <= Due(j) /\ (Late(j)' => Late(j))
  <2>1. CASE j # k
    <3>1. (Live(j)' <=> Live(j)) /\ (Leaving(j)' <=> Leaving(j))
      BY <1>1, <1>7, <1>8, <2>1 DEF Live, Leaving
    <3> QED
      BY <1>6, <2>1, <3>1, DueRange DEF Due, Late, Places
  <2>2. CASE j = k /\ mpc[w] = "clear"
    <3>1. Clearing(k)' /\ ~Marking(k)'
      BY <1>1, <1>2, <2>2 DEF Clearing, Marking
    <3> QED
      BY <1>1, <1>5, <1>6, <1>7, <2>2, <3>1 DEF Due, Late, Live, Leaving, Places
  <2>3. CASE j = k /\ mpc[w] = "mark"
    <3>1. ~Late(k)' /\ Due(k) = 2
      BY <1>5, <1>6, <2>3 DEF Due, Late, Places
    <3>2. Due(k)' \in 0 .. 2
      BY DueRange DEF Due
    <3> QED
      BY <2>3, <3>1, <3>2
  <2> QED
    BY <1>1, <2>1, <2>2, <2>3
<1>10. \A j \in Keys : Out(j)' <=> Out(j)
  BY <1>1 DEF Out, Exists
<1> QED
  BY <1>1, <1>3, <1>4, <1>9, <1>10, NoMoreOwed DEF PodInv, ReportInv

\* A change that is applied was counted when it was handed over.
LEMMA ApplyKeeps ==
  ASSUME PodInv, ApplyChange
  PROVE  PodInv'
<1>1. /\ cacheMsg # None /\ cacheMsg' = None
      /\ UNCHANGED <<lister, processing, mpc, mkey, mpod, reports, outages>>
      /\ podsWithError' = IF cacheMsg.state THEN podsWithError \cup {cacheMsg.key}
                                            ELSE podsWithError \ {cacheMsg.key}
  BY DEF ApplyChange, informerVars, queueVars, workerVars, clusterVars
<1>2. PICK k \in Keys, b \in BOOLEAN : cacheMsg = [key |-> k, state |-> b]
  BY <1>1 DEF PodInv, CacheInv, Messages
<1>3. OwnerInv' /\ \A j \in Keys, p \in Places : At(j, p)' <=> At(j, p)
  BY <1>1 DEF PodInv, OwnerInv, At, Place
<1>4. \A j \in Keys : ~Marking(j)' /\ ~Clearing(j)'
  BY <1>1, NoMessage DEF Marking, Clearing
<1>5. podsWithError' = IF b THEN podsWithError \cup {k} ELSE podsWithError \ {k}
  BY <1>1, <1>2
<1>6. CacheInv'
  BY <1>1, <1>2, <1>5 DEF PodInv, CacheInv
<1>7. \A j \in Keys : (Live(j)' <=> Live(j)) /\ ~Leaving(j)'
  BY <1>2, <1>4, <1>5 DEF Live, Leaving, Marking, Clearing
<1>8. ASSUME NEW j \in Keys PROVE Due(j)' <= Due(j) /\ (Late(j)' => Late(j))
  <2>1. At(j, "report") => ~At(j, "clear")
    BY OnePlace DEF PodInv, Places
  <2> QED
    BY <1>3, <1>7, <2>1 DEF Due, Late, Places
<1>9. \A j \in Keys : Out(j)' <=> Out(j)
  BY <1>1 DEF Out, Exists
<1> QED
  BY <1>1, <1>3, <1>6, <1>8, <1>9, NoMoreOwed DEF PodInv, ReportInv

LEMMA CrashKeeps ==
  ASSUME PodInv, CrashAndRestart
  PROVE  PodInv'
<1>1. OwnerInv' /\ CacheInv'
  BY DEF CrashAndRestart, PodInv, OwnerInv, CacheInv, clusterVars
<1>2. ASSUME NEW k \in Keys PROVE Paid(k)'
  <2>1. \A p \in Places : ~At(k, p)'
    BY DEF CrashAndRestart, At, Place, Places
  <2>2. ~Live(k)' /\ ~Leaving(k)'
    BY NoMessage DEF CrashAndRestart, Live, Marking, Leaving
  <2>3. Due(k)' = 0 /\ ~Late(k)'
    BY <2>1, <2>2 DEF Due, Late, Places
  <2>4. /\ reports'[k] = reports[k] /\ outages'[k] = outages[k]
        /\ Out(k)' <=> Out(k)
    BY DEF CrashAndRestart, clusterVars, Out, Exists
  <2> QED
    BY <2>3, <2>4, DueRange, NoMoreOwed
<1> QED
  BY <1>1, <1>2 DEF PodInv, ReportInv

LEMMA WorkerKeeps ==
  ASSUME PodInv, NEW w \in Workers, WorkerStep(w)
  PROVE  PodInv'
<1>1. ASSUME NEW k \in Keys, Get(w, k) PROVE PodInv'
  <2>1. OwnerInv' /\ UNCHANGED <<lister, mpod, cacheMsg, podsWithError, reports, outages>>
    BY <1>1, GetOwner DEF PodInv, Get, cacheVars, clusterVars
  <2>2. ASSUME NEW j \in Keys PROVE Due(j)' <= Due(j) /\ (Late(j)' => Late(j))
    <3>1. \A p \in Places : At(j, p)' <=> At(j, p)
      BY <1>1, AtGet DEF PodInv
    <3>2. (Live(j)' <=> Live(j)) /\ (Leaving(j)' <=> Leaving(j))
      BY <2>1 DEF Live, Leaving, Marking, Clearing
    <3> QED
      BY <3>1, <3>2, DueRange DEF Due, Late, Places
  <2> QED
    BY <2>1, <2>2, CacheUndisturbed DEF PodInv, CacheInv
<1>2. ASSUME NotFound(w) \/ ReadFails(w) \/ CheckDone(w) PROVE PodInv'
  <2>1. /\ mpc[w] \in {"read", "check"} /\ WorkerDone(w) /\ processing' = processing \ {mkey[w]}
        /\ UNCHANGED <<lister, cacheMsg, podsWithError, reports, outages>>
    BY <1>2 DEF NotFound, ReadFails, CheckDone, ForgetAndDone, AddRateLimitedAndDone, cacheVars,
                clusterVars
  <2>2. OwnerInv' /\ mpod' \in [Workers -> PodStates \cup {None}]
    BY <2>1, DoneOwner DEF PodInv, CacheInv, WorkerDone
  <2>3. ASSUME NEW j \in Keys PROVE Due(j)' <= Due(j) /\ (Late(j)' => Late(j))
    <3>1. \A p \in Places : At(j, p)' <=> j # mkey[w] /\ At(j, p)
      BY <2>1, AtDone DEF PodInv
    <3>2. (Live(j)' <=> Live(j)) /\ (Leaving(j)' <=> Leaving(j))
      BY <2>1 DEF Live, Leaving, Marking, Clearing
    <3>3. j = mkey[w] => ~At(j, "clear") /\ ~At(j, "report")
      BY <2>1 DEF PodInv, OwnerInv, At, Place
    <3> QED
      BY <3>1, <3>2, <3>3, DueRange DEF Due, Late, Places
  <2> QED
    BY <2>1, <2>2, <2>3, CacheUndisturbed
<1> QED
  BY <1>1, <1>2, ReadKeeps, CheckKeeps, ReportKeeps, HandOverKeeps DEF WorkerStep

\* The PODs of the cluster.
LEMMA ClusterKeeps ==
  ASSUME IInv, NEW k \in Keys, Cluster(k)
  PROVE  PodInv'
<1>0. PodInv
  BY DEF IInv
<1>1. UNCHANGED <<processing, mpc, mkey, mpod, cacheMsg, podsWithError, reports>>
  BY DEF Cluster, CreatePod, ContainerFails, ResyncPod, DeletePod, ChangePod, Becomes, Create,
         Modify, Resync, Remove, Notify, queueVars, monitorVars, cacheVars, workerVars
<1>2. ASSUME NEW p \in PodStates, Becomes(k, p) PROVE PodInv'
  <2>1. Exists(k) /\ lister' = [lister EXCEPT ![k] = p]
    BY <1>2 DEF Becomes, Modify
  <2>2. (Out(k)' <=> Failed(p)) /\ (Out(k) <=> Failed(lister[k]))
    BY <2>1, ObjectAssumption DEF Out, Exists, IInv, PodInv, CacheInv
  <2> QED
    BY <1>0, <1>1, <1>2, <2>1, <2>2, PodChanges DEF Becomes
<1>3. ASSUME NEW ready \in BOOLEAN, ChangePod(k, ready) PROVE PodInv'
  <2>1. [lister[k] EXCEPT !.ready = ready] \in PodStates
    BY <1>3 DEF ChangePod, Exists, IInv, PodInv, CacheInv, PodStates
  <2> QED
    BY <1>2, <1>3, <2>1 DEF ChangePod
<1>4. CASE ContainerFails(k)
  <2>1. [ready |-> FALSE, last |-> incidents[k] + 1] \in PodStates
    BY <1>4 DEF ContainerFails, IInv, IncidentsInv, PodStates
  <2> QED
    BY <1>2, <1>4, <2>1 DEF ContainerFails
<1>5. CASE CreatePod(k)
  <2> DEFINE o == [ready |-> FALSE, last |-> 0]
  <2>1. lister' = [lister EXCEPT ![k] = o] /\ UNCHANGED outages /\ o \in PodStates
    BY <1>5 DEF CreatePod, Create, PodStates, clusterVars
  <2>2. lister'[k] = o
    BY <2>1 DEF IInv, PodInv, CacheInv
  <2>3. ~Out(k)'
    BY <2>2 DEF Out, Failed
  <2> QED
    BY <1>0, <1>1, <2>1, <2>3, PodChanges
<1>6. CASE DeletePod(k)
  <2>1. lister' = [lister EXCEPT ![k] = NoObject] /\ UNCHANGED outages
    BY <1>6 DEF DeletePod, Remove, clusterVars
  <2>2. ~Out(k)'
    BY <2>1 DEF Out, Exists, IInv, PodInv, CacheInv
  <2> QED
    BY <1>0, <1>1, <2>1, <2>2, PodChanges
<1>7. CASE ResyncPod(k)
  BY <1>0, <1>1, <1>7, Undisturbed DEF ResyncPod, Resync, clusterVars
<1> QED
  BY <1>3, <1>4, <1>5, <1>6, <1>7 DEF Cluster

LEMMA NextIInv == IInv /\ [Next]_vars => IInv'
<1> SUFFICES ASSUME IInv, [Next]_vars PROVE IInv'
  OBVIOUS
<1>0. PodInv
  BY DEF IInv
<1>1. ASSUME \/ \E k \in Keys : BackOff(k)
             \/ Handlers
             \/ UNCHANGED vars
      PROVE  UNCHANGED <<lister, processing, mpc, mkey, mpod, cacheMsg, podsWithError, reports,
                         outages>>
  BY <1>1 DEF BackOff, BackOffOver, Handlers, HandleUpdate, QueueAdd, HandleNothing, HandleDelete,
              SendRemoval, vars, informerVars, queueVars, monitorVars, cacheVars, workerVars,
              clusterVars
<1>2. PodInv'
  BY <1>0, <1>1, Undisturbed, ClusterKeeps, WorkerKeeps, ApplyKeeps, CrashKeeps DEF Next
<1>3. incidents' = incidents \/ \E k \in Keys : ContainerFails(k)
  BY DEF Next, Cluster, CreatePod, ChangePod, ResyncPod, DeletePod, BackOff, Handlers, HandleUpdate,
         HandleNothing, HandleDelete, SendRemoval, WorkerStep, Get, Read, NotFound, ReadFails, Check,
         CheckDone, Report, HandOver, ApplyChange, CrashAndRestart, vars, clusterVars
<1>4. IncidentsInv'
  <2>1. ASSUME NEW k \in Keys, ContainerFails(k) PROVE incidents' \in [Keys -> 0 .. MaxIncidents]
    <3>1. incidents[k] + 1 \in 0 .. MaxIncidents /\ incidents' = [incidents EXCEPT ![k] = @ + 1]
      BY <2>1 DEF ContainerFails, IInv, IncidentsInv
    <3> QED
      BY <3>1 DEF IInv, IncidentsInv
  <2> QED
    BY <1>3, <2>1 DEF IInv, IncidentsInv
<1> QED
  BY <1>2, <1>4 DEF IInv

-----------------------------------------------------------------------------
\* For any number of workers, PODs and outages, at most two reports reach the
\* controller for each time a POD goes out of order, although podsWithError is
\* changed late and read without a lock.
THEOREM OutagesReportedAtMostTwice == Spec => []TwicePerOutage
<1>1. IInv => TwicePerOutage
  <2> SUFFICES ASSUME IInv, NEW k \in Keys PROVE reports[k] <= 2 * outages[k]
    BY DEF TwicePerOutage
  <2>1. /\ reports[k] \in Nat /\ outages[k] \in Nat /\ Owed(k) \in 0 .. 3
        /\ reports[k] + Owed(k) <= 2 * outages[k]
    BY DueRange DEF IInv, PodInv, CacheInv, ReportInv, Paid
  <2> QED
    BY <2>1
<1> QED
  BY <1>1, InitIInv, NextIInv, PTL DEF Spec
=============================================================================
