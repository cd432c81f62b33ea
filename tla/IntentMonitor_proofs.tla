------------------------- MODULE IntentMonitor_proofs -------------------------
(***************************************************************************)
(* Proofs about IntentMonitor, for any number of intents, workers and      *)
(* versions: the work queue keeps an intent with one worker, and therefore *)
(* the controller never goes back to an older version of an intent.        *)
(***************************************************************************)
EXTENDS IntentMonitor, TLAPS

USE VersionAssumption, KeyAssumption, ObjectAssumption, MaxNotesAssumption

LEMMA InitIInv == Init => IInv
BY DEF Init, InformerInit, IInv, TypeOK, InformerTypeOK, OneWorkerPerKey, VersionInv,
       Versions, Notes

\* A notification keeps the queue of notifications well-formed.
LEMMA NotifyType ==
  ASSUME InformerTypeOK, NEW t \in NoteTypes, NEW k \in Keys, Notify(t, k)
  PROVE  InformerTypeOK'
<1>1. Note(t, k) \in Notes
  BY DEF Note, Notes
<1> QED
  BY <1>1 DEF InformerTypeOK, Notify, queueVars

LEMMA NextNoteType ==
  ASSUME InformerTypeOK, NEW n, NextNote(n)
  PROVE  notes' \in Seq(Notes)
BY DEF InformerTypeOK, NextNote

\* The cluster only makes versions newer.
LEMMA ClusterIInv ==
  ASSUME IInv, NEW k \in Keys, Cluster(k)
  PROVE  IInv'
<1>1. ASSUME CreateIntent(k) \/ ModifyIntent(k) PROVE IInv'
  <2>1. /\ issued' = [issued EXCEPT ![k] = issued[k] + 1]
        /\ issued[k] + 1 \in Versions
        /\ lister' = [lister EXCEPT ![k] = issued[k] + 1]
        /\ UNCHANGED <<hsend, mpc, mkey, mver, known, failures>>
        /\ UNCHANGED processing
    BY <1>1 DEF CreateIntent, ModifyIntent, NewVersion, Create, Modify, Notify, queueVars,
                IInv, TypeOK, Versions
  <2>2. InformerTypeOK'
    BY <1>1, NotifyType DEF CreateIntent, ModifyIntent, Create, Modify, NoteTypes, IInv,
                            TypeOK
  <2>3. TypeOK'
    BY <2>1, <2>2 DEF IInv, TypeOK
  <2>4. OneWorkerPerKey'
    BY <2>1 DEF IInv, OneWorkerPerKey
  <2>5. VersionInv'
    BY <2>1 DEF IInv, TypeOK, VersionInv, Versions
  <2> QED
    BY <2>3, <2>4, <2>5 DEF IInv
<1>2. ASSUME ResyncIntent(k) \/ DeleteIntent(k) PROVE IInv'
  <2>1. /\ lister' = lister \/ lister' = [lister EXCEPT ![k] = 0]
        /\ UNCHANGED monitorVars
        /\ UNCHANGED processing
    BY <1>2 DEF ResyncIntent, DeleteIntent, Resync, Remove, Notify, queueVars
  <2>2. InformerTypeOK'
    BY <1>2, NotifyType DEF ResyncIntent, DeleteIntent, Resync, Remove, NoteTypes, IInv,
                            TypeOK
  <2> QED
    BY <2>1, <2>2 DEF IInv, TypeOK, OneWorkerPerKey, VersionInv, monitorVars, Versions
<1> QED
  BY <1>1, <1>2 DEF Cluster

LEMMA HandlersIInv ==
  ASSUME IInv, Handlers
  PROVE  IInv'
<1>1. ASSUME NEW k \in Keys, HandleChange(k) PROVE IInv'
  <2>1. InformerTypeOK'
    BY <1>1, NextNoteType DEF HandleChange, QueueAdd, IInv, TypeOK, InformerTypeOK
  <2> QED
    BY <1>1, <2>1 DEF HandleChange, QueueAdd, monitorVars, IInv, TypeOK, OneWorkerPerKey,
                      VersionInv
<1>2. ASSUME NEW k \in Keys, HandleResync(k) \/ HandleDelete(k) \/ HandleTombstone(k)
      PROVE  IInv'
  <2>1. InformerTypeOK'
    BY <1>2, NextNoteType DEF HandleResync, HandleDelete, HandleTombstone, queueVars, IInv,
                              TypeOK, InformerTypeOK
  <2> QED
    BY <1>2, <2>1 DEF HandleResync, HandleDelete, HandleTombstone, queueVars, monitorVars,
                      IInv, TypeOK, OneWorkerPerKey, VersionInv
<1>3. ASSUME SendRemoval PROVE IInv'
  BY <1>3 DEF SendRemoval, informerVars, queueVars, IInv, TypeOK, InformerTypeOK,
              OneWorkerPerKey, VersionInv, Versions
<1> QED
  BY <1>1, <1>2, <1>3 DEF Handlers

LEMMA WorkerIInv ==
  ASSUME IInv, NEW w \in Workers, WorkerStep(w)
  PROVE  IInv'
<1> USE DEF IInv
<1>1. ASSUME NEW k \in Keys, Get(w, k) PROVE IInv'
  <2>1. TypeOK'
    BY <1>1 DEF Get, QueueGet, Ready, TypeOK, InformerTypeOK
  <2>2. OneWorkerPerKey'
    BY <1>1 DEF Get, QueueGet, Ready, TypeOK, OneWorkerPerKey
  <2>3. VersionInv'
    BY <1>1 DEF Get, TypeOK, VersionInv
  <2> QED
    BY <2>1, <2>2, <2>3
<1>2. ASSUME Read(w) PROVE IInv'
  <2>1. mkey[w] \in Keys /\ lister[mkey[w]] = issued[mkey[w]] /\ lister[mkey[w]] # 0
    BY <1>2 DEF Read, Exists, VersionInv
  <2>2. TypeOK'
    BY <1>2, <2>1 DEF Read, informerVars, queueVars, TypeOK, InformerTypeOK
  <2>3. OneWorkerPerKey'
    BY <1>2 DEF Read, informerVars, queueVars, TypeOK, OneWorkerPerKey
  <2>4. VersionInv'
    BY <1>2, <2>1 DEF Read, informerVars, TypeOK, VersionInv, Versions
  <2> QED
    BY <2>2, <2>3, <2>4
<1>3. ASSUME NotFound(w) \/ ReadFails(w) PROVE IInv'
  <2>1. /\ mpc' = [mpc EXCEPT ![w] = "get"]
        /\ mkey' = [mkey EXCEPT ![w] = NoKey]
        /\ mver' = [mver EXCEPT ![w] = 0]
        /\ processing' = processing \ {mkey[w]}
        /\ mkey[w] \in Keys
        /\ mpc[w] # "get"
        /\ UNCHANGED <<lister, notes, issued, hsend, known>>
    BY <1>3 DEF NotFound, ReadFails, WorkerDone, ForgetAndDone, AddRateLimitedAndDone,
                VersionInv
  <2>2. TypeOK'
    <3>1. failures' \in 0 .. MaxFailures
      BY <1>3 DEF NotFound, ReadFails, TypeOK
    <3>2. dirty' = dirty /\ delayed' \subseteq Keys
      BY <1>3, <2>1 DEF NotFound, ReadFails, ForgetAndDone, AddRateLimitedAndDone, TypeOK,
                        InformerTypeOK
    <3>3. InformerTypeOK'
      BY <2>1, <3>2 DEF TypeOK, InformerTypeOK
    <3>4. /\ mpc' \in [Workers -> {"get", "read", "send"}]
          /\ mkey' \in [Workers -> Keys \cup {NoKey}]
          /\ mver' \in [Workers -> Versions]
      BY <2>1 DEF TypeOK, Versions
    <3> QED
      BY <2>1, <3>1, <3>3, <3>4 DEF TypeOK
  <2>3. OneWorkerPerKey'
    BY <2>1 DEF TypeOK, OneWorkerPerKey
  <2>4. VersionInv'
    BY <2>1 DEF TypeOK, VersionInv
  <2> QED
    BY <2>2, <2>3, <2>4
\* Nobody else holds the key, so what it sends concerns no other worker.
<1>4. ASSUME Send(w) PROVE IInv'
  <2>1. /\ mpc' = [mpc EXCEPT ![w] = "get"]
        /\ mkey' = [mkey EXCEPT ![w] = NoKey]
        /\ mver' = [mver EXCEPT ![w] = 0]
        /\ processing' = processing \ {mkey[w]}
        /\ known' = [known EXCEPT ![mkey[w]] = mver[w]]
        /\ mkey[w] \in Keys
        /\ mpc[w] # "get"
        /\ mver[w] <= issued[mkey[w]]
        /\ UNCHANGED <<lister, notes, issued, hsend, failures, dirty, delayed>>
    BY <1>4 DEF Send, WorkerDone, ForgetAndDone, VersionInv
  <2>2. TypeOK'
    BY <2>1 DEF TypeOK, InformerTypeOK, Versions
  <2>3. OneWorkerPerKey'
    BY <2>1 DEF TypeOK, OneWorkerPerKey
  <2>4. \A v \in Workers : v # w /\ mpc[v] # "get" => mkey[v] # mkey[w]
    BY <2>1 DEF OneWorkerPerKey
  <2>5. VersionInv'
    BY <2>1, <2>4 DEF TypeOK, VersionInv
  <2> QED
    BY <2>2, <2>3, <2>5
<1> QED
  BY <1>1, <1>2, <1>3, <1>4 DEF WorkerStep

LEMMA NextIInv == IInv /\ [Next]_vars => IInv'
<1> SUFFICES ASSUME IInv, [Next]_vars PROVE IInv'
  OBVIOUS
<1>1. ASSUME NEW k \in Keys, BackOff(k) PROVE IInv'
  BY <1>1 DEF BackOff, BackOffOver, monitorVars, IInv, TypeOK, InformerTypeOK,
              OneWorkerPerKey, VersionInv
<1>2. ASSUME UNCHANGED vars PROVE IInv'
  BY <1>2 DEF vars, informerVars, queueVars, monitorVars, IInv, TypeOK, InformerTypeOK,
              OneWorkerPerKey, VersionInv
<1> QED
  BY <1>1, <1>2, ClusterIInv, HandlersIInv, WorkerIInv DEF Next

\* The types hold in every reachable state.
THEOREM MonitorTypeOK == Spec => []TypeOK
<1>1. IInv => TypeOK
  BY DEF IInv
<1> QED
  BY <1>1, InitIInv, NextIInv, PTL DEF Spec

\* No two workers process the same intent.
THEOREM MonitorOneWorker == Spec => []OneWorkerPerKey
<1>1. IInv => OneWorkerPerKey
  BY DEF IInv
<1> QED
  BY <1>1, InitIInv, NextIInv, PTL DEF Spec

\* The controller never goes back to an older version of an intent.
THEOREM MonitorNeverOlder == Spec => NeverOlder
<1>1. IInv /\ [Next]_vars
        => [\A k \in Keys : known'[k] # 0 => known'[k] >= known[k]]_vars
  <2> SUFFICES ASSUME IInv, Next, NEW k \in Keys, known'[k] # 0
               PROVE  known'[k] >= known[k]
    OBVIOUS
  <2>1. known[k] \in Nat /\ issued[k] \in Nat
    BY DEF IInv, TypeOK, Versions
  \* A removal stores 0, so only a worker's send is left to consider.
  <2>2. \/ known' = known
        \/ known' = [known EXCEPT ![hsend] = 0]
        \/ \E w \in Workers : Send(w)
    BY DEF Next, Cluster, CreateIntent, ModifyIntent, ResyncIntent, DeleteIntent, BackOff,
           Handlers, HandleChange, HandleResync, HandleDelete, HandleTombstone,
           SendRemoval, WorkerStep, Get, Read, NotFound, ReadFails, monitorVars
  <2>3. ASSUME NEW w \in Workers, Send(w) PROVE known'[k] >= known[k]
    <3>1. known' = [known EXCEPT ![mkey[w]] = mver[w]] /\ known[mkey[w]] <= mver[w]
      BY <2>3 DEF Send, IInv, VersionInv
    <3> QED
      BY <2>1, <3>1 DEF IInv, TypeOK
  <2>4. ASSUME known' = [known EXCEPT ![hsend] = 0] PROVE known'[k] >= known[k]
    BY <2>1, <2>4 DEF IInv, TypeOK
  <2> QED
    BY <2>1, <2>2, <2>3, <2>4
<1> QED
  BY <1>1, InitIInv, NextIInv, PTL DEF Spec, NeverOlder

-----------------------------------------------------------------------------
(* The monitor implements IntentStore. *)

\* A new notification is the only one that can make a deletion outstanding.
LEMMA NotifyGone ==
  ASSUME InformerTypeOK, NEW t \in NoteTypes, NEW k \in Keys, Notify(t, k), hsend' = hsend
  PROVE  IF t = "delete" THEN Gone' = [Gone EXCEPT ![k] = TRUE] ELSE Gone' = Gone
<1>1. /\ notes \in Seq(Notes) /\ Note(t, k) \in Notes /\ notes' = Append(notes, Note(t, k))
  BY DEF Notify, Note, Notes, InformerTypeOK
<1>2. /\ DOMAIN notes' = DOMAIN notes \cup {Len(notes) + 1}
      /\ \A i \in DOMAIN notes : notes'[i] = notes[i]
      /\ notes'[Len(notes) + 1] = Note(t, k)
  BY <1>1
<1>3. ASSUME NEW x \in Keys
      PROVE  (\E i \in DOMAIN notes' : notes'[i] = Note("delete", x))
               <=> ((\E i \in DOMAIN notes : notes[i] = Note("delete", x))
                     \/ Note(t, k) = Note("delete", x))
  BY <1>2
<1>4. \A x \in Keys : Note(t, k) = Note("delete", x) <=> t = "delete" /\ k = x
  BY DEF Note
<1>5. \A x \in Keys : Gone'[x] = (Gone[x] \/ (t = "delete" /\ k = x))
  BY <1>3, <1>4 DEF Gone
<1> QED
  BY <1>5 DEF Gone

\* Handling a notification other than a deletion leaves the outstanding ones.
LEMMA NextNoteGone ==
  ASSUME InformerTypeOK, NEW t \in NoteTypes \ {"delete"}, NEW k \in Keys,
         NextNote(Note(t, k)), hsend' = hsend
  PROVE  Gone' = Gone
<1>1. /\ notes \in Seq(Notes) /\ notes # <<>> /\ notes' = Tail(notes)
      /\ notes[1] = Note(t, k)
  BY DEF NextNote, InformerTypeOK
<1>2. /\ DOMAIN notes = 1 .. Len(notes) /\ DOMAIN notes' = 1 .. Len(notes) - 1
      /\ Len(notes) \in Nat
      /\ \A i \in DOMAIN notes' : notes'[i] = notes[i + 1]
  BY <1>1
<1>3. ASSUME NEW x \in Keys
      PROVE  (\E i \in DOMAIN notes' : notes'[i] = Note("delete", x))
               <=> (\E i \in DOMAIN notes : notes[i] = Note("delete", x))
  <2>1. notes[1] # Note("delete", x)
    BY <1>1 DEF Note
  <2>2. ASSUME NEW i \in DOMAIN notes, notes[i] = Note("delete", x)
        PROVE  i - 1 \in DOMAIN notes' /\ notes'[i - 1] = Note("delete", x)
    BY <1>2, <2>1, <2>2
  <2>3. ASSUME NEW i \in DOMAIN notes', notes'[i] = Note("delete", x)
        PROVE  i + 1 \in DOMAIN notes /\ notes[i + 1] = Note("delete", x)
    BY <1>2, <2>3
  <2> QED
    BY <2>2, <2>3
<1> QED
  BY <1>3 DEF Gone

\* The handler that takes a deletion has it outstanding instead of the queue.
LEMMA HandleDeleteGone ==
  ASSUME IInv, NEW k \in Keys, HandleDelete(k)
  PROVE  Gone' = Gone
<1>1. /\ notes \in Seq(Notes) /\ notes # <<>> /\ notes' = Tail(notes)
      /\ notes[1] = Note("delete", k) /\ hsend = NoKey /\ hsend' = k
  BY DEF HandleDelete, NextNote, IInv, TypeOK, InformerTypeOK
<1>2. /\ DOMAIN notes = 1 .. Len(notes) /\ DOMAIN notes' = 1 .. Len(notes) - 1
      /\ Len(notes) \in Nat \ {0}
      /\ \A i \in DOMAIN notes' : notes'[i] = notes[i + 1]
  BY <1>1
<1>3. ASSUME NEW x \in Keys
      PROVE  (hsend' = x \/ \E i \in DOMAIN notes' : notes'[i] = Note("delete", x))
               <=> (hsend = x \/ \E i \in DOMAIN notes : notes[i] = Note("delete", x))
  <2>1. CASE x = k
    BY <1>1, <1>2, <2>1
  <2>2. CASE x # k
    <3>1. notes[1] # Note("delete", x)
      BY <1>1, <2>2 DEF Note
    <3>2. ASSUME NEW i \in DOMAIN notes, notes[i] = Note("delete", x)
          PROVE  i - 1 \in DOMAIN notes' /\ notes'[i - 1] = Note("delete", x)
      BY <1>2, <3>1, <3>2
    <3>3. ASSUME NEW i \in DOMAIN notes', notes'[i] = Note("delete", x)
          PROVE  i + 1 \in DOMAIN notes /\ notes[i + 1] = Note("delete", x)
      BY <1>2, <3>3
    <3> QED
      BY <1>1, <2>2, <3>2, <3>3
  <2> QED
    BY <2>1, <2>2
<1> QED
  BY <1>3 DEF Gone

\* What the cluster does is a change or a deletion of the store.
LEMMA ClusterStore ==
  ASSUME IInv, NEW k \in Keys, Cluster(k)
  PROVE  Store!StoreNext \/ UNCHANGED Store!storeVars
<1> USE DEF IInv, TypeOK
<1>1. ASSUME CreateIntent(k) \/ ModifyIntent(k) PROVE Store!Change(k)
  <2>1. Gone' = Gone
    BY <1>1, NotifyGone DEF CreateIntent, ModifyIntent, Create, Modify, NoteTypes
  <2> QED
    BY <1>1, <2>1 DEF CreateIntent, ModifyIntent, NewVersion, Create, Modify, Store!Change
<1>2. ASSUME ResyncIntent(k) PROVE UNCHANGED Store!storeVars
  <2>1. Gone' = Gone
    BY <1>2, NotifyGone DEF ResyncIntent, Resync, NoteTypes, monitorVars
  <2> QED
    BY <1>2, <2>1 DEF ResyncIntent, Resync, monitorVars, Store!storeVars
<1>3. ASSUME DeleteIntent(k) PROVE Store!Delete(k)
  <2>1. Gone' = Gone \/ Gone' = [Gone EXCEPT ![k] = TRUE]
    BY <1>3, NotifyGone DEF DeleteIntent, Remove, NoteTypes, monitorVars
  <2> QED
    BY <1>3, <2>1 DEF DeleteIntent, Remove, Exists, monitorVars, Store!Delete
<1> QED
  BY <1>1, <1>2, <1>3 DEF Cluster, Store!StoreNext

\* A handler leaves the store alone, except for the removal it sends.
LEMMA HandlersStore ==
  ASSUME IInv, Handlers
  PROVE  Store!StoreNext \/ UNCHANGED Store!storeVars
<1> USE DEF IInv, TypeOK
<1>1. ASSUME NEW k \in Keys, HandleChange(k) PROVE UNCHANGED Store!storeVars
  <2>1. Gone' = Gone
    BY <1>1, NextNoteGone DEF HandleChange, NoteTypes, monitorVars
  <2> QED
    BY <1>1, <2>1 DEF HandleChange, monitorVars, Store!storeVars
<1>2. ASSUME NEW k \in Keys, HandleResync(k) \/ HandleTombstone(k)
      PROVE  UNCHANGED Store!storeVars
  <2>1. Gone' = Gone
    BY <1>2, NextNoteGone DEF HandleResync, HandleTombstone, NoteTypes, monitorVars
  <2> QED
    BY <1>2, <2>1 DEF HandleResync, HandleTombstone, monitorVars, Store!storeVars
<1>3. ASSUME NEW k \in Keys, HandleDelete(k) PROVE UNCHANGED Store!storeVars
  BY <1>3, HandleDeleteGone DEF HandleDelete, Store!storeVars
<1>4. ASSUME SendRemoval PROVE \E k \in Keys : Store!Forget(k)
  <2>1. /\ hsend \in Keys /\ hsend' = NoKey /\ notes' = notes
        /\ known' = [known EXCEPT ![hsend] = 0] /\ UNCHANGED <<issued, lister>>
    BY <1>4 DEF SendRemoval, informerVars
  <2>2. Gone[hsend]
    BY <2>1 DEF Gone
  <2>3. \A x \in Keys : x # hsend => Gone'[x] = Gone[x]
    BY <2>1 DEF Gone
  <2>4. Gone' = Gone \/ Gone' = [Gone EXCEPT ![hsend] = FALSE]
    <3>1. Gone \in [Keys -> BOOLEAN] /\ Gone' \in [Keys -> BOOLEAN]
      BY Zenon DEF Gone
    <3>2. CASE Gone'[hsend] = TRUE
      <4>1. \A x \in Keys : Gone'[x] = Gone[x]
        BY <2>1, <2>2, <2>3, <3>1, <3>2, Zenon
      <4> QED
        BY <3>1, <4>1
    <3>3. CASE Gone'[hsend] = FALSE
      BY <2>1, <2>3, <3>1, <3>3
    <3> QED
      BY <2>1, <3>1, <3>2, <3>3
  <2> QED
    BY <2>1, <2>2, <2>4 DEF Store!Forget
<1> QED
  BY <1>1, <1>2, <1>3, <1>4 DEF Handlers, Store!StoreNext

\* A worker's send is where the controller learns a version; VersionInv bounds
\* it from both sides.
LEMMA WorkerStore ==
  ASSUME IInv, NEW w \in Workers, WorkerStep(w)
  PROVE  Store!StoreNext \/ UNCHANGED Store!storeVars
<1>1. UNCHANGED <<notes, hsend>> /\ UNCHANGED <<issued, lister>>
  BY DEF WorkerStep, Get, Read, NotFound, ReadFails, Send, informerVars
<1>2. Gone' = Gone
  BY <1>1 DEF Gone
<1>3. ASSUME ~Send(w) PROVE UNCHANGED Store!storeVars
  BY <1>1, <1>2, <1>3 DEF WorkerStep, Get, Read, NotFound, ReadFails, informerVars,
                          Store!storeVars
<1>4. ASSUME Send(w) PROVE \E k \in Keys : Store!Learn(k)
  <2>1. /\ mkey[w] \in Keys /\ known' = [known EXCEPT ![mkey[w]] = mver[w]]
        /\ known[mkey[w]] <= mver[w] /\ mver[w] <= issued[mkey[w]]
        /\ mver[w] \in Nat \ {0} /\ issued[mkey[w]] \in Nat
        /\ known[mkey[w]] \in Nat
    <3>1. mpc[w] = "send" /\ mkey[w] \in Keys
      BY <1>4 DEF Send, IInv, VersionInv
    <3> QED
      BY <1>4, <3>1 DEF Send, IInv, TypeOK, VersionInv, Versions
  <2>2. mver[w] \in 1 .. issued[mkey[w]] /\ mver[w] >= known[mkey[w]]
    BY <2>1
  <2>3. Store!Learn(mkey[w])
    BY <1>1, <1>2, <2>1, <2>2 DEF Store!Learn
  <2> QED
    BY <2>1, <2>3
<1> QED
  BY <1>3, <1>4 DEF Store!StoreNext

\* For any number of intents, workers and versions the monitor implements the
\* store that only goes forward.
THEOREM MonitorImplementsStore == Spec => ImplementsStore
<1>1. Init => Store!StoreInit
  <2> SUFFICES ASSUME Init PROVE Store!StoreInit
    OBVIOUS
  <2>1. DOMAIN notes = {} /\ \A k \in Keys : hsend # k
    BY DEF Init, InformerInit
  <2>2. Gone = [k \in Keys |-> FALSE]
    BY <2>1, Zenon DEF Gone
  <2> QED
    BY <2>2 DEF Init, InformerInit, Store!StoreInit
<1>2. IInv /\ [Next]_vars => [Store!StoreNext]_(Store!storeVars)
  <2> SUFFICES ASSUME IInv, [Next]_vars
               PROVE  Store!StoreNext \/ UNCHANGED Store!storeVars
    OBVIOUS
  <2>1. ASSUME NEW k \in Keys, BackOff(k) PROVE UNCHANGED Store!storeVars
    BY <2>1 DEF BackOff, BackOffOver, monitorVars, Store!storeVars, Gone
  <2>2. ASSUME UNCHANGED vars PROVE UNCHANGED Store!storeVars
    BY <2>2 DEF vars, informerVars, monitorVars, Store!storeVars, Gone
  <2> QED
    BY <2>1, <2>2, ClusterStore, HandlersStore, WorkerStore DEF Next
<1> QED
  BY <1>1, <1>2, InitIInv, NextIInv, PTL DEF Spec, ImplementsStore, Store!StoreSpec
=============================================================================
