-------------------------- MODULE KPIProfileMonitor --------------------------
(***************************************************************************)
(* The KPI profile monitor of pkg/controller/profile_monitor.go.  A worker *)
(* reads a profile from the informer's store, writes the verdict into the  *)
(* status of the object at the API server and then tells the controller.   *)
(* Its own status writes come back to it as updates.                       *)
(*                                                                         *)
(* A profile is abstracted to whether it names an endpoint and a query     *)
(* (complete) and to its status.  history[k] lists the versions the API    *)
(* server has had of a key, so that a resource version is an index of it;  *)
(* the informer's store holds such an index and lags behind.  The CRD      *)
(* admits only the four KPI types that ProfileTypeFromText knows.          *)
(***************************************************************************)
EXTENDS Informer

CONSTANTS
    Workers,      \* the goroutines of Run
    DefaultKeys,  \* keys of the default profile definitions
    Tombstones,   \* BOOLEAN: whether the watch may miss a deletion
    MaxChanges,   \* bound: changes of one profile by its owner
    MaxFailures,  \* bound: errors of the lister and of the API server
    NoKey

ASSUME ChangesAssumption == MaxChanges \in Nat /\ MaxFailures \in Nat
ASSUME TombstonesAssumption == Tombstones \in BOOLEAN
ASSUME KeyAssumption == NoKey \notin Keys
ASSUME ObjectAssumption == NoObject = 0

VARIABLES
    history,      \* [Keys -> the versions of the profile, newest last]
    seen,         \* [Keys -> index of the version the informer got last]
    changes,      \* [Keys -> number of changes by the owner]
    hsend,        \* key whose removal the delete handler is sending, or NoKey
    mpc,          \* where a worker is: "get", "read", "status" or "send"
    mkey,         \* the key it processes
    mver,         \* the version it has read
    known,        \* [Keys -> version or 0]: the controller's copy
    failures

apiVars == <<history, changes>>
workerVars == <<mpc, mkey, mver>>
monitorVars == <<hsend, workerVars, known, failures>>
profileVars == <<informerVars, seen, apiVars, monitorVars>>

Gone == [complete |-> FALSE, status |-> "gone"]
Profiles == [complete : BOOLEAN, status : {"none", "resolved", "unresolved"}]

ProfileInit ==
    /\ InformerInit
    /\ history = [k \in Keys |-> <<>>]
    /\ seen = [k \in Keys |-> 0]
    /\ changes = [k \in Keys |-> 0]
    /\ hsend = NoKey
    /\ mpc = [w \in Workers |-> "get"]
    /\ mkey = [w \in Workers |-> NoKey]
    /\ mver = [w \in Workers |-> 0]
    /\ known = [k \in Keys |-> 0]
    /\ failures = 0

-----------------------------------------------------------------------------
(* The API server and the watch. *)

Newest(k) == Len(history[k])
StoredProfile(k) == IF history[k] = <<>> THEN Gone ELSE history[k][Newest(k)]
InCluster(k) == StoredProfile(k) # Gone

Store(k, o) == history' = [history EXCEPT ![k] = Append(@, o)]

OwnerStores(k, o) ==
    /\ changes[k] < MaxChanges
    /\ changes' = [changes EXCEPT ![k] = @ + 1]
    /\ Store(k, o)
    /\ UNCHANGED <<informerVars, seen, monitorVars>>

CreateProfile(k, complete) ==
    ~InCluster(k) /\ OwnerStores(k, [complete |-> complete, status |-> "none"])

ChangeProfile(k) ==
    InCluster(k) /\ OwnerStores(k, [StoredProfile(k) EXCEPT !.complete = ~@])

DeleteProfile(k) == InCluster(k) /\ OwnerStores(k, Gone)

\* The informer gets the next version of a profile.
Watch(k) ==
    /\ seen[k] < Newest(k)
    /\ LET v == seen[k] + 1 IN
         /\ seen' = [seen EXCEPT ![k] = v]
         /\ IF history[k][v] = Gone
              THEN Remove(k, "delete") \/ (Tombstones /\ Remove(k, "tombstone"))
              ELSE Create(k, v) \/ Modify(k, v)
    /\ UNCHANGED <<apiVars, monitorVars>>

ResyncProfile(k) == Resync(k) /\ UNCHANGED <<seen, apiVars, monitorVars>>

-----------------------------------------------------------------------------
(* The handlers, called by one goroutine. *)

\* Mutant: the two resource versions are taken from the same object, so that
\* every update looks like a resync.
HandleAddOnly(k) ==
    /\ hsend = NoKey
    /\ \/ NextNote(Note("add", k)) /\ QueueAdd(k)
       \/ NextNote(Note("update", k)) /\ UNCHANGED queueVars
    /\ UNCHANGED <<lister, seen, apiVars, monitorVars>>

\* AddFunc, and UpdateFunc for a new ResourceVersion: enqueueItem.
HandleChange(k) ==
    /\ hsend = NoKey
    /\ \E t \in {"add", "update"} : NextNote(Note(t, k))
    /\ QueueAdd(k)
    /\ UNCHANGED <<lister, seen, apiVars, monitorVars>>

\* UpdateFunc returns early for an unchanged ResourceVersion, DeleteFunc for a
\* tombstone, in which MetaNamespaceKeyFunc finds no object.
HandleNothing(k) ==
    /\ hsend = NoKey
    /\ \E t \in {"resync", "tombstone"} : NextNote(Note(t, k))
    /\ UNCHANGED <<lister, queueVars, seen, apiVars, monitorVars>>

\* DeleteFunc up to the send of the obsolete profile.
HandleDelete(k) ==
    /\ hsend = NoKey
    /\ NextNote(Note("delete", k))
    /\ hsend' = k
    /\ UNCHANGED <<lister, queueVars, seen, apiVars, workerVars, known, failures>>

SendRemoval ==
    /\ hsend # NoKey
    /\ known' = [known EXCEPT ![hsend] = 0]
    /\ hsend' = NoKey
    /\ UNCHANGED <<informerVars, seen, apiVars, workerVars, failures>>

-----------------------------------------------------------------------------
(* The workers: processNextWorkItem, processProfile and updateStatus. *)

\* A profile is understood when its key has a default definition, or it
\* brings its own endpoint and query.
Understood(k, o) == k \in DefaultKeys \/ o.complete

Verdict(k, o) == IF Understood(k, o) THEN "resolved" ELSE "unresolved"

WorkerDone(w) ==
    /\ mpc' = [mpc EXCEPT ![w] = "get"]
    /\ mkey' = [mkey EXCEPT ![w] = NoKey]
    /\ mver' = [mver EXCEPT ![w] = 0]

Get(w, k) ==
    /\ mpc[w] = "get"
    /\ QueueGet(k)
    /\ mpc' = [mpc EXCEPT ![w] = "read"]
    /\ mkey' = [mkey EXCEPT ![w] = k]
    /\ UNCHANGED <<lister, notes, seen, apiVars, hsend, mver, known, failures>>

\* The store has the profile: what will be judged and sent is fixed here.
Read(w) ==
    /\ mpc[w] = "read"
    /\ Exists(mkey[w])
    /\ mver' = [mver EXCEPT ![w] = lister[mkey[w]]]
    /\ mpc' = [mpc EXCEPT ![w] = "status"]
    /\ UNCHANGED <<informerVars, seen, apiVars, hsend, mkey, known, failures>>

NotFound(w) ==
    /\ mpc[w] = "read"
    /\ ~Exists(mkey[w])
    /\ ForgetAndDone(mkey[w])
    /\ WorkerDone(w)
    /\ UNCHANGED <<lister, notes, seen, apiVars, hsend, known, failures>>

\* Any other error of the lister: the item comes back after its back-off.
ReadFails(w) ==
    /\ mpc[w] = "read"
    /\ failures < MaxFailures
    /\ failures' = failures + 1
    /\ AddRateLimitedAndDone(mkey[w])
    /\ WorkerDone(w)
    /\ UNCHANGED <<lister, notes, seen, apiVars, hsend, known>>

\* The API server refuses the write of a version that is not the newest, and
\* of an object that is gone.
Conflicts(k, v) == v # Newest(k)

\* Mutant: the reason carries the time, so that every write is a change.
UpdateStatusWithTime(w) ==
    /\ mpc[w] = "status"
    /\ LET k == mkey[w] IN
         IF Conflicts(k, mver[w])
           THEN UNCHANGED history
           ELSE Store(k, [StoredProfile(k) EXCEPT !.status = Verdict(k, history[k][mver[w]])])
    /\ mpc' = [mpc EXCEPT ![w] = "send"]
    /\ UNCHANGED <<informerVars, seen, changes, hsend, mkey, mver, known, failures>>

\* Mutant: the status is put into the newest object, fetched for the write.
UpdateStatusOfNewest(w) ==
    /\ mpc[w] = "status"
    /\ LET k == mkey[w]
           s == Verdict(k, history[k][mver[w]])
       IN IF ~InCluster(k) \/ StoredProfile(k).status = s
            THEN UNCHANGED history
            ELSE Store(k, [StoredProfile(k) EXCEPT !.status = s])
    /\ mpc' = [mpc EXCEPT ![w] = "send"]
    /\ UNCHANGED <<informerVars, seen, changes, hsend, mkey, mver, known, failures>>

\* updateStatus at the API server: a write that changes nothing makes no new
\* version, and an error is only logged.
UpdateStatus(w) ==
    /\ mpc[w] = "status"
    /\ LET k == mkey[w]
           s == Verdict(k, history[k][mver[w]])
       IN IF Conflicts(k, mver[w]) \/ StoredProfile(k).status = s
            THEN UNCHANGED history
            ELSE Store(k, [StoredProfile(k) EXCEPT !.status = s])
    /\ mpc' = [mpc EXCEPT ![w] = "send"]
    /\ UNCHANGED <<informerVars, seen, changes, hsend, mkey, mver, known, failures>>

\* The call to the API server fails: logged, and the worker goes on.
UpdateStatusFails(w) ==
    /\ mpc[w] = "status"
    /\ failures < MaxFailures
    /\ failures' = failures + 1
    /\ mpc' = [mpc EXCEPT ![w] = "send"]
    /\ UNCHANGED <<informerVars, seen, apiVars, hsend, mkey, mver, known>>

\* mon.update <- the profile, or an obsolete one when it is not understood;
\* Forget and Done.
Send(w) ==
    /\ mpc[w] = "send"
    /\ LET k == mkey[w] IN
         known' = [known EXCEPT ![k] =
                     IF Understood(k, history[k][mver[w]]) THEN mver[w] ELSE 0]
    /\ ForgetAndDone(mkey[w])
    /\ WorkerDone(w)
    /\ UNCHANGED <<lister, notes, seen, apiVars, hsend, failures>>

BackOff(k) == BackOffOver(k) /\ UNCHANGED <<seen, apiVars, monitorVars>>

-----------------------------------------------------------------------------
Owner(k) ==
    \/ \E complete \in BOOLEAN : CreateProfile(k, complete)
    \/ ChangeProfile(k) \/ DeleteProfile(k)

Handlers ==
    \/ \E k \in Keys : HandleChange(k) \/ HandleNothing(k) \/ HandleDelete(k)
    \/ SendRemoval

WorkerStep(w) ==
    \/ \E k \in Keys : Get(w, k)
    \/ Read(w) \/ NotFound(w) \/ ReadFails(w)
    \/ UpdateStatus(w) \/ UpdateStatusFails(w) \/ Send(w)

ProfileNext ==
    \/ \E k \in Keys : Owner(k) \/ Watch(k) \/ ResyncProfile(k) \/ BackOff(k)
    \/ Handlers
    \/ \E w \in Workers : WorkerStep(w)

ProfileSpec == ProfileInit /\ [][ProfileNext]_profileVars

\* The watch delivers, the goroutines are scheduled, back-offs end and the
\* controller receives; a ready key is processed some time (the queue is a
\* FIFO).  Nothing is assumed of the owners.
ProfileFairness ==
    /\ WF_profileVars(Handlers)
    /\ \A k \in Keys : /\ SF_profileVars(Watch(k)) /\ WF_profileVars(BackOff(k))
                       /\ SF_profileVars(\E w \in Workers : Get(w, k))
    /\ \A w \in Workers : WF_profileVars(WorkerStep(w))

ProfileFairSpec == ProfileSpec /\ ProfileFairness

-----------------------------------------------------------------------------
(* Properties. *)

\* The types.
ProfileTypeOK ==
    /\ InformerTypeOK
    /\ history \in [Keys -> Seq(Profiles \cup {Gone})]
    /\ \A k \in Keys : seen[k] \in 0 .. Newest(k) /\ lister[k] \in {0, seen[k]}
    /\ changes \in [Keys -> 0 .. MaxChanges]
    /\ hsend \in Keys \cup {NoKey}
    /\ mpc \in [Workers -> {"get", "read", "status", "send"}]
    /\ mkey \in [Workers -> Keys \cup {NoKey}]
    /\ \A w \in Workers : mpc[w] \in {"status", "send"} => mver[w] \in 1 .. Newest(mkey[w])
    /\ \A k \in Keys : known[k] \in 0 .. Newest(k)
    /\ failures \in 0 .. MaxFailures

\* Although a worker judges an old copy of the profile, the verdict it writes
\* is the one of the profile it is written to: a status never contradicts the
\* definition it stands next to because of a race with the profile's owner.
VerdictFits ==
    [][\A k \in Keys :
         /\ history'[k] # history[k]
         /\ changes'[k] = changes[k]
         => StoredProfile(k)'.status = Verdict(k, StoredProfile(k)')]_profileVars

\* The monitor's own status writes, which come back to it as updates, die
\* out: at most one write for each change of the owner.
OneWritePerChange ==
    \A k \in Keys : Newest(k) <= 2 * changes[k]

\* Once the owners come to rest the controller has the newest definition of
\* every profile that exists, in the version with the final status, and none
\* that is not understood.
ProfilesArrive ==
    \A k \in Keys :
      <>[](InCluster(k) => known[k] = IF Understood(k, StoredProfile(k)) THEN Newest(k) ELSE 0)

\* docs/framework.md:61, "If a profile is understood by the overall system,
\* it's state is set to resolved": once the owners come to rest, the status of
\* every profile that is understood says resolved, the swallowed conflicts
\* notwithstanding.  A call that fails for another reason is excused: nothing
\* repeats it.
UnderstoodAreResolved ==
    \A k \in Keys :
      <>[](failures = 0 /\ InCluster(k) /\ Understood(k, StoredProfile(k))
             => StoredProfile(k).status = "resolved")
=============================================================================
