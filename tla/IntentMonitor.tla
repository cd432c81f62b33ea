---------------------------- MODULE IntentMonitor ----------------------------
(***************************************************************************)
(* The intent monitor of pkg/controller/intent_monitor.go.  Its event      *)
(* handlers and its workers share the unbuffered channel to the intent     *)
(* controller: a worker sends the intent it has read from the informer's   *)
(* store, the handler of a deletion sends the removal by itself, past the  *)
(* work queue.                                                             *)
(*                                                                         *)
(* An intent object is abstracted to its version; the versions of a key    *)
(* grow, also over a deletion.  known is the controller's copy: the        *)
(* receiver of the channel stores what it gets in that order (UpdateIntent *)
(* in IntentController), so a send is one step here.                       *)
(***************************************************************************)
EXTENDS Informer

CONSTANTS
    Workers,      \* the goroutines of Run
    Tombstones,   \* BOOLEAN: whether the watch may miss a deletion
    MaxVersion,   \* bound: versions of one key
    MaxFailures,  \* bound: errors of the lister
    NoKey

ASSUME VersionAssumption == MaxVersion \in Nat /\ MaxFailures \in Nat
ASSUME TombstonesAssumption == Tombstones \in BOOLEAN
ASSUME KeyAssumption == NoKey \notin Keys
ASSUME ObjectAssumption == NoObject = 0

VARIABLES
    issued,       \* [Keys -> Nat]: the newest version of a key so far
    hsend,        \* key whose removal the delete handler is sending, or NoKey
    mpc,          \* where a worker is: "get", "read" or "send"
    mkey,         \* the key it processes
    mver,         \* the version it has read
    known,        \* [Keys -> version or 0]: the controller's copy
    failures

monitorVars == <<issued, hsend, mpc, mkey, mver, known, failures>>
vars == <<informerVars, monitorVars>>

Versions == 0 .. MaxVersion

Init ==
    /\ InformerInit
    /\ issued = [k \in Keys |-> 0]
    /\ hsend = NoKey
    /\ mpc = [w \in Workers |-> "get"]
    /\ mkey = [w \in Workers |-> NoKey]
    /\ mver = [w \in Workers |-> 0]
    /\ known = [k \in Keys |-> 0]
    /\ failures = 0

-----------------------------------------------------------------------------
(* The cluster. *)

NewVersion(k) ==
    /\ issued[k] < MaxVersion
    /\ issued' = [issued EXCEPT ![k] = @ + 1]

CreateIntent(k) ==
    /\ NewVersion(k)
    /\ Create(k, issued[k] + 1)
    /\ UNCHANGED <<hsend, mpc, mkey, mver, known, failures>>

\* Also a deletion and a creation between two lists, seen as one update.
ModifyIntent(k) ==
    /\ NewVersion(k)
    /\ Modify(k, issued[k] + 1)
    /\ UNCHANGED <<hsend, mpc, mkey, mver, known, failures>>

ResyncIntent(k) == Resync(k) /\ UNCHANGED monitorVars

DeleteIntent(k) ==
    /\ \/ Remove(k, "delete")
       \/ Tombstones /\ Remove(k, "tombstone")
    /\ UNCHANGED monitorVars

-----------------------------------------------------------------------------
(* The handlers, called by one goroutine. *)

\* AddFunc, and UpdateFunc for a new ResourceVersion: enqueueItem.
HandleChange(k) ==
    /\ hsend = NoKey
    /\ \E t \in {"add", "update"} : NextNote(Note(t, k))
    /\ QueueAdd(k)
    /\ UNCHANGED <<lister, monitorVars>>

\* UpdateFunc returns early: the ResourceVersion did not change.
HandleResync(k) ==
    /\ hsend = NoKey
    /\ NextNote(Note("resync", k))
    /\ UNCHANGED <<lister, queueVars, monitorVars>>

\* DeleteFunc up to the send of the removal, which blocks the goroutine.
HandleDelete(k) ==
    /\ hsend = NoKey
    /\ NextNote(Note("delete", k))
    /\ hsend' = k
    /\ UNCHANGED <<lister, queueVars, issued, mpc, mkey, mver, known, failures>>

\* DeleteFunc for a tombstone: MetaNamespaceKeyFunc finds no object in it and
\* the handler returns.
HandleTombstone(k) ==
    /\ hsend = NoKey
    /\ NextNote(Note("tombstone", k))
    /\ UNCHANGED <<lister, queueVars, monitorVars>>

\* mon.update <- {Key, Priority: -1}: the controller forgets the intent.
SendRemoval ==
    /\ hsend # NoKey
    /\ known' = [known EXCEPT ![hsend] = 0]
    /\ hsend' = NoKey
    /\ UNCHANGED <<informerVars, issued, mpc, mkey, mver, failures>>

-----------------------------------------------------------------------------
(* The workers: processNextWorkItem and processIntent. *)

\* Mutant: Done is not deferred but called before the item is processed.
GetDoneEarly(w, k) ==
    /\ mpc[w] = "get"
    /\ k \in Ready
    /\ dirty' = dirty \ {k}
    /\ mpc' = [mpc EXCEPT ![w] = "read"]
    /\ mkey' = [mkey EXCEPT ![w] = k]
    /\ UNCHANGED <<lister, notes, processing, delayed, issued, hsend, mver, known, failures>>

Get(w, k) ==
    /\ mpc[w] = "get"
    /\ QueueGet(k)
    /\ mpc' = [mpc EXCEPT ![w] = "read"]
    /\ mkey' = [mkey EXCEPT ![w] = k]
    /\ UNCHANGED <<lister, notes, issued, hsend, mver, known, failures>>

WorkerDone(w) ==
    /\ mpc' = [mpc EXCEPT ![w] = "get"]
    /\ mkey' = [mkey EXCEPT ![w] = NoKey]
    /\ mver' = [mver EXCEPT ![w] = 0]

\* The lister has the intent: what will be sent is fixed here.
Read(w) ==
    /\ mpc[w] = "read"
    /\ Exists(mkey[w])
    /\ mver' = [mver EXCEPT ![w] = lister[mkey[w]]]
    /\ mpc' = [mpc EXCEPT ![w] = "send"]
    /\ UNCHANGED <<informerVars, issued, hsend, mkey, known, failures>>

\* The lister does not have it any more: nothing to do, the item is done.
NotFound(w) ==
    /\ mpc[w] = "read"
    /\ ~Exists(mkey[w])
    /\ ForgetAndDone(mkey[w])
    /\ WorkerDone(w)
    /\ UNCHANGED <<lister, notes, issued, hsend, known, failures>>

\* Mutant: an item that failed is forgotten and not added again.
ReadFailsForgets(w) ==
    /\ mpc[w] = "read"
    /\ failures < MaxFailures
    /\ failures' = failures + 1
    /\ ForgetAndDone(mkey[w])
    /\ WorkerDone(w)
    /\ UNCHANGED <<lister, notes, issued, hsend, known>>

\* Any other error of the lister: the item comes back after its back-off.
ReadFails(w) ==
    /\ mpc[w] = "read"
    /\ failures < MaxFailures
    /\ failures' = failures + 1
    /\ AddRateLimitedAndDone(mkey[w])
    /\ WorkerDone(w)
    /\ UNCHANGED <<lister, notes, issued, hsend, known>>

\* mon.update <- updateObject, received by the controller; Forget and Done.
Send(w) ==
    /\ mpc[w] = "send"
    /\ known' = [known EXCEPT ![mkey[w]] = mver[w]]
    /\ ForgetAndDone(mkey[w])
    /\ WorkerDone(w)
    /\ UNCHANGED <<lister, notes, issued, hsend, failures>>

BackOff(k) == BackOffOver(k) /\ UNCHANGED monitorVars

-----------------------------------------------------------------------------
Cluster(k) ==
    CreateIntent(k) \/ ModifyIntent(k) \/ ResyncIntent(k) \/ DeleteIntent(k)

Handlers ==
    \/ \E k \in Keys : \/ HandleChange(k) \/ HandleResync(k)
                       \/ HandleDelete(k) \/ HandleTombstone(k)
    \/ SendRemoval

WorkerStep(w) ==
    \/ \E k \in Keys : Get(w, k)
    \/ Read(w) \/ NotFound(w) \/ ReadFails(w) \/ Send(w)

Next ==
    \/ \E k \in Keys : Cluster(k) \/ BackOff(k)
    \/ Handlers
    \/ \E w \in Workers : WorkerStep(w)

Spec == Init /\ [][Next]_vars

\* The goroutines are scheduled, back-offs end and the controller receives;
\* nothing is assumed of the cluster.  A key that is ready is processed at
\* some time although other keys come (the queue is a FIFO): fairness per key.
Fairness ==
    /\ WF_vars(Handlers)
    /\ \A k \in Keys : /\ WF_vars(BackOff(k))
                       /\ SF_vars(\E w \in Workers : Get(w, k))
    /\ \A w \in Workers : WF_vars(WorkerStep(w))

FairSpec == Spec /\ Fairness

-----------------------------------------------------------------------------
(* Properties. *)

\* The types.
TypeOK ==
    /\ InformerTypeOK
    /\ lister \in [Keys -> Versions]
    /\ issued \in [Keys -> Versions]
    /\ hsend \in Keys \cup {NoKey}
    /\ mpc \in [Workers -> {"get", "read", "send"}]
    /\ mkey \in [Workers -> Keys \cup {NoKey}]
    /\ mver \in [Workers -> Versions]
    /\ known \in [Keys -> Versions]
    /\ failures \in 0 .. MaxFailures

\* The deferred Done keeps a key with one worker: two workers never process
\* the same intent, which is all that orders the sends for one intent.
OneWorkerPerKey ==
    /\ \A w \in Workers : mpc[w] # "get" => mkey[w] \in processing
    /\ \A v, w \in Workers :
         v # w /\ mpc[v] # "get" /\ mpc[w] # "get" => mkey[v] # mkey[w]

\* Why no send is out of order: the version in a worker's hands is at least
\* the controller's, and the store has the newest version or none.
VersionInv ==
    /\ \A k \in Keys : known[k] <= issued[k] /\ lister[k] \in {0, issued[k]}
    /\ \A w \in Workers :
         mpc[w] # "get" => mkey[w] \in Keys
    /\ \A w \in Workers :
         mpc[w] = "send" => /\ mver[w] # 0
                            /\ known[mkey[w]] <= mver[w]
                            /\ mver[w] <= issued[mkey[w]]

\* The inductive invariant behind NeverOlder.
IInv == TypeOK /\ OneWorkerPerKey /\ VersionInv

\* Processing several events of one intent concurrently with several workers
\* never makes the controller replace an intent by an older version of it.
NeverOlder ==
    [][\A k \in Keys : known'[k] # 0 => known'[k] >= known[k]]_vars

\* The refinement mapping: a deletion is outstanding while its notification
\* waits or the handler is sending it.
Gone == [k \in Keys |-> hsend = k \/ \E i \in DOMAIN notes : notes[i] = Note("delete", k)]
Store == INSTANCE IntentStore WITH object <- lister, gone <- Gone

\* Informer, queue, handlers, workers and channel together behave like one copy
\* that goes forward only: what the controller stores is a version the API
\* server has issued, never older than what it had, and an intent is forgotten
\* only for a deletion of its own, never for a late or repeated event.
ImplementsStore == Store!StoreSpec

\* Once the cluster comes to rest, the controller has the newest version of
\* every intent that exists: no event is lost between informer, queue and
\* channel, whatever was deleted and created again in between.
LiveIntentsArrive ==
    \A k \in Keys : <>[](Exists(k) => known[k] = lister[k])

\* docs/framework.md:49, "If an intent is added, removed or modified the
\* monitor will construct the necessary data types and inform the Intent
\* Controller", of a removal: an intent that is gone is forgotten for good.
DeletedIntentsForgotten ==
    \A k \in Keys : <>[](~Exists(k) => known[k] = 0)
=============================================================================
