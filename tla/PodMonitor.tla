----------------------------- MODULE PodMonitor -----------------------------
(***************************************************************************)
(* The POD monitor of pkg/controller/pod_monitor.go.  Its workers look for *)
(* a container that failed and remember the POD in podsWithError; when the *)
(* container is ready again they report the error to the intent controller *)
(* and forget the POD.  podsWithError is changed by a goroutine of its own *)
(* (updatePodCache), which a worker hands the change over an unbuffered    *)
(* channel and does not wait for; the workers read the map without the     *)
(* lock that goroutine takes.                                              *)
(*                                                                         *)
(* A POD is abstracted to the readiness of its first container and to the  *)
(* incident of its LastTerminationState, 0 for none; one without container *)
(* statuses is treated like one that is not ready and never failed.        *)
(* recorded is podErrors of the controller, which appends what it gets.    *)
(***************************************************************************)
EXTENDS Informer

CONSTANTS
    Workers,      \* the goroutines of Run
    Tombstones,   \* BOOLEAN: whether the watch may miss a deletion
    MaxIncidents, \* bound: failures of the PODs of one key
    MaxOutages,   \* bound: times a POD of one key goes out of order
    MaxFailures,  \* bound: errors of the lister
    None

ASSUME BoundsAssumption ==
    MaxIncidents \in Nat /\ MaxOutages \in Nat /\ MaxFailures \in Nat
ASSUME TombstonesAssumption == Tombstones \in BOOLEAN

Incidents == 1 .. MaxIncidents
PodStates == [ready : BOOLEAN, last : 0 .. MaxIncidents]
Messages == [key : Keys, state : BOOLEAN]

ASSUME NoneAssumption == None \notin Keys \cup PodStates \cup Messages
ASSUME ObjectAssumption == NoObject \notin PodStates

VARIABLES
    incidents,      \* [Keys -> number of failures so far]
    outages,        \* history: [Keys -> times the POD went out of order so far]
    podsWithError,  \* keys of the map podsWithError
    cacheMsg,       \* the change updatePodCache has received and not applied
    hsend,          \* key whose removal the delete handler is sending, or None
    mpc,            \* where a worker is
    mkey,           \* the key it processes
    mpod,           \* the POD it has read
    recorded,       \* [Keys -> the incidents in podErrors of the controller]
    reports,        \* history: [Keys -> reports so far]
    failures

clusterVars == <<incidents, outages>>
cacheVars == <<podsWithError, cacheMsg>>
workerVars == <<mpc, mkey, mpod>>
monitorVars == <<cacheVars, hsend, workerVars, recorded, reports, failures>>
vars == <<informerVars, clusterVars, monitorVars>>

Init ==
    /\ InformerInit
    /\ incidents = [k \in Keys |-> 0]
    /\ outages = [k \in Keys |-> 0]
    /\ podsWithError = {}
    /\ cacheMsg = None
    /\ hsend = None
    /\ mpc = [w \in Workers |-> "get"]
    /\ mkey = [w \in Workers |-> None]
    /\ mpod = [w \in Workers |-> None]
    /\ recorded = [k \in Keys |-> {}]
    /\ reports = [k \in Keys |-> 0]
    /\ failures = 0

-----------------------------------------------------------------------------
(* The cluster. *)

Failed(p) == ~p.ready /\ p.last # 0

Recovered(p) == p.ready /\ p.last # 0

CreatePod(k) ==
    /\ Create(k, [ready |-> FALSE, last |-> 0])
    /\ UNCHANGED <<clusterVars, monitorVars>>

\* The POD becomes p.  It goes out of order when its container fails, and when
\* one that failed before is not ready any more.
Becomes(k, p) ==
    /\ Modify(k, p)
    /\ IF Failed(p) /\ ~Failed(lister[k])
         THEN outages[k] < MaxOutages /\ outages' = [outages EXCEPT ![k] = @ + 1]
         ELSE UNCHANGED outages

\* A container gets ready or is not ready any more, or something else of the
\* POD changes.
ChangePod(k, ready) ==
    /\ Exists(k)
    /\ Becomes(k, [lister[k] EXCEPT !.ready = ready])
    /\ UNCHANGED <<incidents, monitorVars>>

ContainerFails(k) ==
    /\ Exists(k)
    /\ incidents[k] < MaxIncidents
    /\ incidents' = [incidents EXCEPT ![k] = @ + 1]
    /\ Becomes(k, [ready |-> FALSE, last |-> incidents[k] + 1])
    /\ UNCHANGED monitorVars

ResyncPod(k) == Resync(k) /\ UNCHANGED <<clusterVars, monitorVars>>

DeletePod(k) ==
    /\ Remove(k, "delete") \/ (Tombstones /\ Remove(k, "tombstone"))
    /\ UNCHANGED <<clusterVars, monitorVars>>

-----------------------------------------------------------------------------
(* The handlers, called by one goroutine. *)

\* UpdateFunc for a new ResourceVersion: enqueuePod.
HandleUpdate(k) ==
    /\ hsend = None
    /\ NextNote(Note("update", k))
    /\ QueueAdd(k)
    /\ UNCHANGED <<lister, clusterVars, monitorVars>>

\* There is no AddFunc, UpdateFunc returns early for an unchanged
\* ResourceVersion, DeleteFunc for a tombstone.
HandleNothing(k) ==
    /\ hsend = None
    /\ \E t \in {"add", "resync", "tombstone"} : NextNote(Note(t, k))
    /\ UNCHANGED <<lister, queueVars, clusterVars, monitorVars>>

\* DeleteFunc up to the send; podsWithError keeps the key.
HandleDelete(k) ==
    /\ hsend = None
    /\ NextNote(Note("delete", k))
    /\ hsend' = k
    /\ UNCHANGED <<lister, queueVars, clusterVars, cacheVars, workerVars, recorded,
                   reports, failures>>

\* mon.update <- {Key}: without a start time the controller drops the errors.
SendRemoval ==
    /\ hsend # None
    /\ recorded' = [recorded EXCEPT ![hsend] = {}]
    /\ hsend' = None
    /\ UNCHANGED <<informerVars, clusterVars, cacheVars, workerVars, reports, failures>>

-----------------------------------------------------------------------------
(* The workers: processNextWorkItem and processPod. *)

GoTo(w, pc) == mpc' = [mpc EXCEPT ![w] = pc]

WorkerDone(w) ==
    /\ GoTo(w, "get")
    /\ mkey' = [mkey EXCEPT ![w] = None]
    /\ mpod' = [mpod EXCEPT ![w] = None]

Get(w, k) ==
    /\ mpc[w] = "get"
    /\ QueueGet(k)
    /\ GoTo(w, "read")
    /\ mkey' = [mkey EXCEPT ![w] = k]
    /\ UNCHANGED <<lister, notes, clusterVars, cacheVars, hsend, mpod, recorded, reports,
                   failures>>

Read(w) ==
    /\ mpc[w] = "read"
    /\ Exists(mkey[w])
    /\ mpod' = [mpod EXCEPT ![w] = lister[mkey[w]]]
    /\ GoTo(w, "check")
    /\ UNCHANGED <<informerVars, clusterVars, cacheVars, hsend, mkey, recorded, reports,
                   failures>>

NotFound(w) ==
    /\ mpc[w] = "read"
    /\ ~Exists(mkey[w])
    /\ ForgetAndDone(mkey[w])
    /\ WorkerDone(w)
    /\ UNCHANGED <<lister, notes, clusterVars, cacheVars, hsend, recorded, reports, failures>>

\* Mutant: an item that failed is forgotten and not added again.
ReadFailsForgets(w) ==
    /\ mpc[w] = "read"
    /\ failures < MaxFailures
    /\ failures' = failures + 1
    /\ ForgetAndDone(mkey[w])
    /\ WorkerDone(w)
    /\ UNCHANGED <<lister, notes, clusterVars, cacheVars, hsend, recorded, reports>>

\* Any other error of the lister: the item comes back after its back-off.
ReadFails(w) ==
    /\ mpc[w] = "read"
    /\ failures < MaxFailures
    /\ failures' = failures + 1
    /\ AddRateLimitedAndDone(mkey[w])
    /\ WorkerDone(w)
    /\ UNCHANGED <<lister, notes, clusterVars, cacheVars, hsend, recorded, reports>>

InError(w) == mkey[w] \in podsWithError

\* podsWithError is looked at: the error is over, or there is one now.
Check(w) ==
    /\ mpc[w] = "check"
    /\ \/ InError(w) /\ Recovered(mpod[w]) /\ GoTo(w, "report")
       \/ ~InError(w) /\ Failed(mpod[w]) /\ GoTo(w, "mark")
    /\ UNCHANGED <<informerVars, clusterVars, cacheVars, hsend, mkey, mpod, recorded,
                   reports, failures>>

\* Neither: the item is done.
CheckDone(w) ==
    /\ mpc[w] = "check"
    /\ IF InError(w) THEN ~Recovered(mpod[w]) ELSE ~Failed(mpod[w])
    /\ ForgetAndDone(mkey[w])
    /\ WorkerDone(w)
    /\ UNCHANGED <<lister, notes, clusterVars, cacheVars, hsend, recorded, reports, failures>>

\* mon.update <- the error; the controller appends it.
Report(w) ==
    /\ mpc[w] = "report"
    /\ recorded' = [recorded EXCEPT ![mkey[w]] = @ \cup {mpod[w].last}]
    /\ reports' = [reports EXCEPT ![mkey[w]] = @ + 1]
    /\ GoTo(w, "clear")
    /\ UNCHANGED <<informerVars, clusterVars, cacheVars, hsend, mkey, mpod, failures>>

\* Mutant: a send that would block is skipped.
HandOverIfIdle(w) ==
    /\ mpc[w] \in {"clear", "mark"}
    /\ cacheMsg' = IF cacheMsg = None
                     THEN [key |-> mkey[w], state |-> mpc[w] = "mark"] ELSE cacheMsg
    /\ ForgetAndDone(mkey[w])
    /\ WorkerDone(w)
    /\ UNCHANGED <<lister, notes, clusterVars, podsWithError, hsend, recorded, reports,
                   failures>>

\* mon.podCacheChannel <- the change, as soon as updatePodCache is ready to
\* receive; the item is done before the change is applied.
HandOver(w) ==
    /\ mpc[w] \in {"clear", "mark"}
    /\ cacheMsg = None
    /\ cacheMsg' = [key |-> mkey[w], state |-> mpc[w] = "mark"]
    /\ ForgetAndDone(mkey[w])
    /\ WorkerDone(w)
    /\ UNCHANGED <<lister, notes, clusterVars, podsWithError, hsend, recorded, reports,
                   failures>>

\* updatePodCache applies the change and is ready for the next one.
ApplyChange ==
    /\ cacheMsg # None
    /\ podsWithError' = IF cacheMsg.state THEN podsWithError \cup {cacheMsg.key}
                                          ELSE podsWithError \ {cacheMsg.key}
    /\ cacheMsg' = None
    /\ UNCHANGED <<informerVars, clusterVars, hsend, workerVars, recorded, reports,
                   failures>>

\* A worker reads the map while it is written: the Go runtime may end the
\* process, which starts again with a new list of the PODs.
CrashAndRestart ==
    /\ cacheMsg # None
    /\ \E w \in Workers : mpc[w] = "check"
    /\ notes' = <<>> /\ dirty' = {} /\ processing' = {} /\ delayed' = {}
    /\ podsWithError' = {} /\ cacheMsg' = None
    /\ hsend' = None
    /\ mpc' = [w \in Workers |-> "get"]
    /\ mkey' = [w \in Workers |-> None]
    /\ mpod' = [w \in Workers |-> None]
    /\ recorded' = [k \in Keys |-> {}]
    /\ UNCHANGED <<lister, clusterVars, reports, failures>>

BackOff(k) == BackOffOver(k) /\ UNCHANGED <<clusterVars, monitorVars>>

-----------------------------------------------------------------------------
Cluster(k) ==
    \/ CreatePod(k) \/ ContainerFails(k) \/ ResyncPod(k) \/ DeletePod(k)
    \/ \E ready \in BOOLEAN : ChangePod(k, ready)

Handlers ==
    \/ \E k \in Keys : HandleUpdate(k) \/ HandleNothing(k) \/ HandleDelete(k)
    \/ SendRemoval

WorkerStep(w) ==
    \/ \E k \in Keys : Get(w, k)
    \/ Read(w) \/ NotFound(w) \/ ReadFails(w)
    \/ Check(w) \/ CheckDone(w) \/ Report(w) \/ HandOver(w)

Next ==
    \/ \E k \in Keys : Cluster(k) \/ BackOff(k)
    \/ Handlers
    \/ \E w \in Workers : WorkerStep(w)
    \/ ApplyChange
    \/ CrashAndRestart

Spec == Init /\ [][Next]_vars

\* The goroutines are scheduled, back-offs end and the controller receives; a
\* ready key is processed some time (the queue is a FIFO), and a worker that
\* waits for updatePodCache gets its turn (waiting senders are a FIFO, too).
Fairness ==
    /\ WF_vars(Handlers)
    /\ WF_vars(ApplyChange)
    /\ \A k \in Keys : /\ WF_vars(BackOff(k))
                       /\ SF_vars(\E w \in Workers : Get(w, k))
    /\ \A w \in Workers : WF_vars(WorkerStep(w)) /\ SF_vars(HandOver(w))

FairSpec == Spec /\ Fairness

-----------------------------------------------------------------------------
(* Properties. *)

\* The types; a worker that has read a POD has one, and it reports only a POD
\* that failed before.
TypeOK ==
    /\ InformerTypeOK
    /\ lister \in [Keys -> PodStates \cup {NoObject}]
    /\ incidents \in [Keys -> 0 .. MaxIncidents]
    /\ podsWithError \subseteq Keys
    /\ cacheMsg \in Messages \cup {None}
    /\ hsend \in Keys \cup {None}
    /\ mpc \in [Workers -> {"get", "read", "check", "report", "clear", "mark"}]
    /\ mkey \in [Workers -> Keys \cup {None}]
    /\ mpod \in [Workers -> PodStates \cup {None}]
    /\ \A w \in Workers :
         /\ mpc[w] # "get" => mkey[w] \in Keys
         /\ mpc[w] \notin {"get", "read"} => mpod[w] # None
         /\ mpc[w] \in {"report", "clear", "mark"} => mpod[w].last # 0
    /\ recorded \in [Keys -> SUBSET Incidents]
    /\ outages \in [Keys -> 0 .. MaxOutages]
    /\ reports \in [Keys -> Nat]
    /\ failures \in 0 .. MaxFailures

\* Each time a POD goes out of order at most two reports reach the controller,
\* whatever workers and updatePodCache do in between.  The second one is
\* possible as podsWithError is changed late, so that a worker still finds the
\* POD in the map; a third one is not, as the worker that reports it the second
\* time holds the key until the first change is applied.
TwicePerOutage == \A k \in Keys : reports[k] <= 2 * outages[k]

\* An error that is in podsWithError does not stay there when the POD has
\* recovered and is looked at again.
CachedErrorsLeave ==
    \A k \in Keys :
      (k \in podsWithError /\ k \in dirty /\ Exists(k) /\ Recovered(lister[k]))
        ~> (k \notin podsWithError \/ ~Exists(k) \/ ~Recovered(lister[k]))
=============================================================================
