---------------------------- MODULE IntentStore ----------------------------
(***************************************************************************)
(* What the intent monitor promises the intent controller: a copy of the   *)
(* intents at the API server that lags behind it and goes forward only.    *)
(* There is no queue, no worker and no handler here: the copy learns one   *)
(* of the versions since its own in one step, and forgets an intent only   *)
(* for a deletion that it was not told of before.                          *)
(*                                                                         *)
(* That a version may still be learned after its deletion is part of the   *)
(* promise, as the code keeps no stronger one (see intent_monitor_delete). *)
(***************************************************************************)
EXTENDS Naturals

CONSTANTS Keys, MaxVersion

VARIABLES
    issued,   \* [Keys -> Nat]: the newest version of an intent so far
    object,   \* [Keys -> version or 0]: the intent at the API server
    gone,     \* [Keys -> BOOLEAN]: it was deleted and the copy was not told yet
    known     \* [Keys -> version or 0]: the copy

storeVars == <<issued, object, gone, known>>

StoreInit ==
    /\ issued = [k \in Keys |-> 0]
    /\ object = [k \in Keys |-> 0]
    /\ gone = [k \in Keys |-> FALSE]
    /\ known = [k \in Keys |-> 0]

Change(k) ==
    /\ issued[k] < MaxVersion
    /\ issued' = [issued EXCEPT ![k] = @ + 1]
    /\ object' = [object EXCEPT ![k] = issued[k] + 1]
    /\ UNCHANGED <<gone, known>>

\* The deletion is reported, or it is missed.
Delete(k) ==
    /\ object[k] # 0
    /\ object' = [object EXCEPT ![k] = 0]
    /\ gone' = gone \/ gone' = [gone EXCEPT ![k] = TRUE]
    /\ UNCHANGED <<issued, known>>

Learn(k) ==
    /\ \E v \in 1 .. issued[k] : v >= known[k] /\ known' = [known EXCEPT ![k] = v]
    /\ UNCHANGED <<issued, object, gone>>

\* Another deletion may be waiting behind this one.
Forget(k) ==
    /\ gone[k]
    /\ known' = [known EXCEPT ![k] = 0]
    /\ gone' = gone \/ gone' = [gone EXCEPT ![k] = FALSE]
    /\ UNCHANGED <<issued, object>>

StoreNext == \E k \in Keys : Change(k) \/ Delete(k) \/ Learn(k) \/ Forget(k)

StoreSpec == StoreInit /\ [][StoreNext]_storeVars
=============================================================================
