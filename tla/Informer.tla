------------------------------ MODULE Informer ------------------------------
(***************************************************************************)
(* What the three monitors of pkg/controller get from client-go: a shared  *)
(* informer and a rate-limiting work queue.  Neither is code of this       *)
(* repository; both are modelled from how the monitors use them.           *)
(*                                                                         *)
(* The informer's store changes with the API server; every change is also  *)
(* put into the listener's queue of notifications, and one goroutine per   *)
(* listener calls the monitor's handlers in that order.  The store is      *)
(* ahead of the notifications: a worker that reads it sees the newest      *)
(* object, not the one it was notified of.  When the watch missed a        *)
(* deletion, the informer finds out at the next list and reports it with a *)
(* DeletedFinalStateUnknown ("tombstone") in place of the object.          *)
(*                                                                         *)
(* The work queue keeps a key at most once (dirty) and never hands it to   *)
(* two workers at a time (processing): a key added while it is processed   *)
(* is ready again after Done.                                              *)
(***************************************************************************)
EXTENDS Naturals, Sequences

CONSTANTS
    Keys,         \* namespace/name of the watched objects
    NoObject,     \* what the store holds for a key without object
    MaxNotes      \* bound: notifications that wait for the handlers

ASSUME MaxNotesAssumption == MaxNotes \in Nat

VARIABLES
    lister,       \* [Keys -> object or NoObject]: the informer's store
    notes,        \* notifications not handled yet, oldest first
    dirty,        \* keys that have to be processed
    processing,   \* keys a worker is processing
    delayed       \* keys AddRateLimited will add later

queueVars == <<dirty, processing, delayed>>
informerVars == <<lister, notes, queueVars>>

NoteTypes == {"add", "update", "resync", "delete", "tombstone"}
Notes == [type : NoteTypes, key : Keys]
Note(t, k) == [type |-> t, key |-> k]

InformerInit ==
    /\ lister = [k \in Keys |-> NoObject]
    /\ notes = <<>>
    /\ dirty = {} /\ processing = {} /\ delayed = {}

InformerTypeOK ==
    /\ notes \in Seq(Notes)
    /\ dirty \subseteq Keys /\ processing \subseteq Keys /\ delayed \subseteq Keys

Exists(k) == lister[k] # NoObject

Notify(t, k) ==
    /\ Len(notes) < MaxNotes
    /\ notes' = Append(notes, Note(t, k))
    /\ UNCHANGED queueVars

\* The store follows the API server: an object appears, changes, is resent
\* unchanged by a resync, disappears, or turns out to have disappeared.
Create(k, o) == ~Exists(k) /\ lister' = [lister EXCEPT ![k] = o] /\ Notify("add", k)
Modify(k, o) == Exists(k) /\ lister' = [lister EXCEPT ![k] = o] /\ Notify("update", k)
Resync(k) == Exists(k) /\ UNCHANGED lister /\ Notify("resync", k)
Remove(k, t) == Exists(k) /\ lister' = [lister EXCEPT ![k] = NoObject] /\ Notify(t, k)

\* The listener's goroutine takes the oldest notification.
NextNote(n) == notes # <<>> /\ n = Head(notes) /\ notes' = Tail(notes)

QueueAdd(k) == dirty' = dirty \cup {k} /\ UNCHANGED <<processing, delayed>>

Ready == dirty \ processing

QueueGet(k) ==
    /\ k \in Ready
    /\ dirty' = dirty \ {k}
    /\ processing' = processing \cup {k}
    /\ UNCHANGED delayed

\* Forget only resets the back-off of the key.
ForgetAndDone(k) == processing' = processing \ {k} /\ UNCHANGED <<dirty, delayed>>

AddRateLimitedAndDone(k) ==
    /\ processing' = processing \ {k}
    /\ delayed' = delayed \cup {k}
    /\ UNCHANGED dirty

\* The back-off of a key is over.
BackOffOver(k) ==
    /\ k \in delayed
    /\ delayed' = delayed \ {k}
    /\ dirty' = dirty \cup {k}
    /\ UNCHANGED <<lister, notes, processing>>
=============================================================================
