----------------------- MODULE KPIProfileMonitor_proofs -----------------------
(***************************************************************************)
(* Proofs about KPIProfileMonitor, for any number of profiles, workers,    *)
(* changes and failures: the status a worker writes fits the profile it is *)
(* written to, and the writes that come back as updates die out.           *)
(***************************************************************************)
EXTENDS KPIProfileMonitor, TLAPS

\* The API server's versions and what the informer has of them: the store has
\* no version of a profile that is gone.
StoreInv ==
    /\ history \in [Keys -> Seq(Profiles \cup {Gone})]
    /\ changes \in [Keys -> Nat]
    /\ seen \in [Keys -> Nat] /\ lister \in [Keys -> Nat]
    /\ \A k \in Keys :
         Exists(k) => lister[k] \in 1 .. Newest(k) /\ history[k][lister[k]] # Gone

\* The version in the hands of a worker is one of its key, and not a deletion.
HandInv ==
    /\ mpc \in [Workers -> {"get", "read", "status", "send"}]
    /\ mkey \in [Workers -> Keys \cup {NoKey}]
    /\ mver \in [Workers -> Nat]
    /\ \A w \in Workers :
         /\ mpc[w] # "get" => mkey[w] \in Keys
         /\ mpc[w] \in {"status", "send"} =>
              /\ mver[w] \in 1 .. Newest(mkey[w])
              /\ history[mkey[w]][mver[w]] # Gone

\* A write is owed while the newest version has not got its verdict; the next
\* write pays the debt, and only the owner makes a new one.
Owed(k) == IF InCluster(k) /\ StoredProfile(k).status # Verdict(k, StoredProfile(k)) THEN 1 ELSE 0
DebtInv == \A k \in Keys : Newest(k) + Owed(k) <= 2 * changes[k]

IInv == StoreInv /\ HandInv /\ DebtInv

USE KeyAssumption, ObjectAssumption

LEMMA InitIInv == ProfileInit => IInv
BY DEF ProfileInit, InformerInit, IInv, StoreInv, HandInv, DebtInv, Exists, Newest, Owed,
  InCluster,
       StoredProfile

-----------------------------------------------------------------------------
(* A new version of a profile. *)

LEMMA StoreKeeps ==
  ASSUME StoreInv, NEW k \in Keys, NEW o \in Profiles \cup {Gone}, Store(k, o)
  PROVE  /\ history' \in [Keys -> Seq(Profiles \cup {Gone})]
         /\ Newest(k)' = Newest(k) + 1 /\ StoredProfile(k)' = o
         /\ \A j \in Keys : /\ j # k => history'[j] = history[j]
                            /\ Newest(j) \in Nat /\ Newest(j)' \in Nat /\ Newest(j)' >= Newest(j)
                            /\ \A v \in 1 .. Newest(j) : history'[j][v] = history[j][v]
<1>1. history[k] \in Seq(Profiles \cup {Gone})
  BY DEF StoreInv
<1>2. history' = [history EXCEPT ![k] = Append(history[k], o)]
  BY DEF Store
<1>3. /\ Append(history[k], o) \in Seq(Profiles \cup {Gone})
      /\ Len(Append(history[k], o)) = Len(history[k]) + 1
      /\ Append(history[k], o)[Len(history[k]) + 1] = o
      /\ \A v \in 1 .. Len(history[k]) : Append(history[k], o)[v] = history[k][v]
      /\ Append(history[k], o) # <<>>
  BY <1>1
<1>4. history'[k] = Append(history[k], o) /\ \A j \in Keys : j # k => history'[j] = history[j]
  BY <1>2 DEF StoreInv
<1>5. \A j \in Keys : Len(history[j]) \in Nat
  BY DEF StoreInv
<1> QED
  BY <1>2, <1>3, <1>4, <1>5 DEF StoreInv, Newest, StoredProfile

LEMMA Undisturbed ==
  ASSUME IInv, UNCHANGED <<history, changes, seen, lister, mpc, mkey, mver>>
  PROVE  IInv'
BY DEF IInv, StoreInv, HandInv, DebtInv, Exists, Newest, Owed, InCluster, StoredProfile

\* The workers and the store keep what they have when a version is added.
LEMMA StoreIInv ==
  ASSUME IInv, NEW k \in Keys, NEW o \in Profiles \cup {Gone}, Store(k, o),
         changes' \in [Keys -> Nat],
         \A j \in Keys : j # k => changes'[j] = changes[j],
         Newest(k)' + Owed(k)' <= 2 * changes'[k],
         UNCHANGED <<seen, lister, mkey, mver>>,
         mpc' \in [Workers -> {"get", "read", "status", "send"}],
         \A w \in Workers : mpc'[w] = mpc[w] \/ (mpc[w] = "status" /\ mpc'[w] = "send")
  PROVE  IInv'
<1>1. StoreInv'
  <2>1. ASSUME NEW j \in Keys, Exists(j)'
        PROVE  lister'[j] \in 1 .. Newest(j)' /\ history'[j][lister'[j]] # Gone
    <3>1. lister[j] \in 1 .. Newest(j) /\ history[j][lister[j]] # Gone
      BY <2>1 DEF IInv, StoreInv, Exists
    <3> QED
      BY <3>1, StoreKeeps DEF IInv
  <2> QED
    BY <2>1, StoreKeeps DEF IInv, StoreInv
<1>2. HandInv'
  <2>1. ASSUME NEW w \in Workers, mpc'[w] \in {"status", "send"}
        PROVE  mver'[w] \in 1 .. Newest(mkey[w])' /\ history'[mkey'[w]][mver'[w]] # Gone
    <3>1. mpc[w] \in {"status", "send"} /\ mkey[w] \in Keys
      BY <2>1 DEF IInv, HandInv
    <3>2. mver[w] \in 1 .. Newest(mkey[w]) /\ history[mkey[w]][mver[w]] # Gone
      BY <3>1 DEF IInv, HandInv
    <3> QED
      BY <3>1, <3>2, StoreKeeps, SMTT(30) DEF IInv
  <2> QED
    BY <2>1 DEF IInv, HandInv, Newest
<1>3. DebtInv'
  <2>1. ASSUME NEW j \in Keys, j # k PROVE Newest(j)' + Owed(j)' <= 2 * changes'[j]
    BY <2>1, StoreKeeps, ZenonT(30) DEF IInv, DebtInv, Newest, Owed, InCluster, StoredProfile
  <2> QED
    BY <2>1 DEF DebtInv
<1> QED
  BY <1>1, <1>2, <1>3 DEF IInv

-----------------------------------------------------------------------------
LEMMA StoredType ==
  ASSUME StoreInv, NEW k \in Keys
  PROVE  /\ StoredProfile(k) \in Profiles \cup {Gone} /\ Newest(k) \in Nat
         /\ InCluster(k) => Newest(k) > 0 /\ StoredProfile(k) = history[k][Newest(k)]
BY DEF StoreInv, StoredProfile, Newest, InCluster

\* The owner makes one version and at most one debt.
LEMMA OwnerIInv ==
  ASSUME IInv, NEW k \in Keys, Owner(k)
  PROVE  IInv'
<1>1. PICK o \in Profiles \cup {Gone} : OwnerStores(k, o)
  <2>1. ASSUME NEW c \in BOOLEAN, CreateProfile(k, c)
        PROVE  \E o \in Profiles \cup {Gone} : OwnerStores(k, o)
    BY <2>1 DEF CreateProfile, Profiles
  <2>2. ASSUME ChangeProfile(k)
        PROVE  \E o \in Profiles \cup {Gone} : OwnerStores(k, o)
    <3>1. StoredProfile(k) \in Profiles
      BY <2>2, StoredType DEF ChangeProfile, InCluster, IInv
    <3>2. [StoredProfile(k) EXCEPT !.complete = ~@] \in Profiles
      BY <3>1 DEF Profiles
    <3> QED
      BY <2>2, <3>2 DEF ChangeProfile
  <2> QED
    BY <2>1, <2>2 DEF Owner, DeleteProfile
<1>2. Store(k, o) /\ changes' = [changes EXCEPT ![k] = @ + 1]
      /\ UNCHANGED <<seen, lister, mpc, mkey, mver>>
  BY <1>1 DEF OwnerStores, informerVars, monitorVars, workerVars
<1>3. changes' \in [Keys -> Nat] /\ changes'[k] = changes[k] + 1 /\ changes[k] \in Nat
      /\ \A j \in Keys : j # k => changes'[j] = changes[j]
  BY <1>2 DEF IInv, StoreInv
<1>4. Newest(k) <= 2 * changes[k]
  BY StoredType, <1>3 DEF IInv, DebtInv, Owed
<1>5. Newest(k)' = Newest(k) + 1 /\ Owed(k)' \in {0, 1} /\ Newest(k) \in Nat
  BY <1>2, StoreKeeps, StoredType DEF IInv, Owed
<1>6. Newest(k)' + Owed(k)' <= 2 * changes'[k]
  BY <1>3, <1>4, <1>5
<1> QED
  BY <1>2, <1>3, <1>6, StoreIInv DEF IInv, HandInv

\* A status write that is accepted is one of the newest version, with its own
\* verdict: it pays the debt.
LEMMA StatusWritten ==
  ASSUME IInv, NEW w \in Workers, UpdateStatus(w)
  PROVE  /\ mkey[w] \in Keys
         /\ \/ UNCHANGED history
            \/ LET k == mkey[w]
                   o == [StoredProfile(k) EXCEPT !.status = Verdict(k, StoredProfile(k))]
               IN  /\ Store(k, o) /\ o \in Profiles /\ InCluster(k)
                   /\ StoredProfile(k).status # Verdict(k, StoredProfile(k))
                   /\ Verdict(k, o) = o.status
<1> DEFINE k == mkey[w]
           s == Verdict(k, history[k][mver[w]])
           o == [StoredProfile(k) EXCEPT !.status = Verdict(k, StoredProfile(k))]
<1>1. k \in Keys /\ mver[w] \in 1 .. Newest(k) /\ history[k][mver[w]] # Gone
  BY DEF UpdateStatus, IInv, HandInv
<1>2. ASSUME ~(Conflicts(k, mver[w]) \/ StoredProfile(k).status = s)
      PROVE  /\ StoredProfile(k) = history[k][mver[w]]
              /\ InCluster(k) /\ StoredProfile(k) \in Profiles
             /\ StoredProfile(k).status # Verdict(k, StoredProfile(k))
  <2>1. mver[w] = Newest(k)
    BY <1>2 DEF Conflicts
  <2>2. StoredProfile(k) = history[k][mver[w]]
    BY <1>1, <2>1 DEF StoredProfile, Newest, IInv, StoreInv
  <2> QED
    BY <1>1, <1>2, <2>2, StoredType DEF InCluster, IInv
<1>3. ASSUME StoredProfile(k) \in Profiles
      PROVE  o \in Profiles /\ Verdict(k, o) = o.status
  <2>1. Verdict(k, StoredProfile(k)) \in {"none", "resolved", "unresolved"}
    BY DEF Verdict
  <2>2. /\ o \in Profiles /\ o.complete = StoredProfile(k).complete
        /\ o.status = Verdict(k, StoredProfile(k))
    BY <1>3, <2>1 DEF Profiles
  <2> QED
    BY <2>2 DEF Verdict, Understood
<1>4. \/ UNCHANGED history
      \/ /\ ~(Conflicts(k, mver[w]) \/ StoredProfile(k).status = s)
         /\ Store(k, [StoredProfile(k) EXCEPT !.status = s])
  BY DEF UpdateStatus
<1> QED
  BY <1>1, <1>2, <1>3, <1>4

LEMMA UpdateStatusIInv ==
  ASSUME IInv, NEW w \in Workers, UpdateStatus(w)
  PROVE  IInv'
<1>0. PICK k \in Keys : k = mkey[w]
  BY StatusWritten
<1> DEFINE o == [StoredProfile(k) EXCEPT !.status = Verdict(k, StoredProfile(k))]
<1>1. /\ mpc[w] = "status" /\ mpc' = [mpc EXCEPT ![w] = "send"]
      /\ UNCHANGED <<seen, lister, changes, mkey, mver>>
  BY DEF UpdateStatus, informerVars
<1>2. /\ mpc' \in [Workers -> {"get", "read", "status", "send"}]
      /\ \A v \in Workers : mpc'[v] = mpc[v] \/ (mpc[v] = "status" /\ mpc'[v] = "send")
  BY <1>1 DEF IInv, HandInv
<1>3. CASE UNCHANGED history
  BY <1>1, <1>2, <1>3 DEF IInv, StoreInv, HandInv, DebtInv, Exists, Newest, Owed, InCluster,
    StoredProfile
<1>4. CASE /\ Store(k, o) /\ o \in Profiles /\ InCluster(k)
           /\ StoredProfile(k).status # Verdict(k, StoredProfile(k)) /\ Verdict(k, o) = o.status
  <2>1. PICK p \in Profiles : p = o
    BY <1>4
  <2>2. Newest(k)' = Newest(k) + 1 /\ StoredProfile(k)' = p /\ Newest(k) \in Nat
    BY <1>4, <2>1, StoreKeeps, StoredType DEF IInv
  <2>3. Owed(k) = 1 /\ Owed(k)' = 0
    <3>1. StoredProfile(k)'.status = Verdict(k, StoredProfile(k)')
      BY <1>4, <2>1, <2>2
    <3> QED
      BY <1>4, <3>1 DEF Owed, InCluster, Verdict, Understood
  <2>4. Newest(k)' + Owed(k)' <= 2 * changes'[k]
    BY <1>1, <2>1, <2>2, <2>3 DEF IInv, DebtInv, StoreInv
  <2> QED
    BY <1>1, <1>2, <1>4, <2>1, <2>4, StoreIInv DEF IInv, StoreInv
<1> QED
  BY <1>0, <1>3, <1>4, StatusWritten

\* The informer's store takes over the versions in their order.
LEMMA WatchIInv ==
  ASSUME IInv, NEW k \in Keys, Watch(k)
  PROVE  IInv'
<1>0. PICK v \in Nat : v = seen[k] + 1
  BY DEF IInv, StoreInv
<1>1. /\ seen[k] \in Nat /\ seen[k] < Newest(k) /\ seen' = [seen EXCEPT ![k] = v]
      /\ UNCHANGED <<history, changes, mpc, mkey, mver>>
  BY <1>0 DEF Watch, apiVars, monitorVars, workerVars, IInv, StoreInv
<1>2. PICK u \in {0, v} : lister' = [lister EXCEPT ![k] = u] /\ (u = v => history[k][v] # Gone)
  BY <1>0, <1>1 DEF Watch, Remove, Create, Modify
<1>3. Newest(k) \in Nat
  BY StoredType DEF IInv
<1>4. StoreInv'
  <2>1. seen' \in [Keys -> Nat] /\ lister' \in [Keys -> Nat]
    BY <1>0, <1>1, <1>2 DEF IInv, StoreInv
  <2>2. ASSUME NEW j \in Keys, Exists(j)'
        PROVE  lister'[j] \in 1 .. Newest(j) /\ history[j][lister'[j]] # Gone
    BY <1>0, <1>1, <1>2, <1>3, <2>1, <2>2 DEF IInv, StoreInv, Exists
  <2> QED
    BY <1>1, <2>1, <2>2 DEF IInv, StoreInv, Newest
<1> QED
  BY <1>1, <1>4 DEF IInv, HandInv, DebtInv, Newest, Owed, InCluster, StoredProfile

LEMMA WorkerIInv ==
  ASSUME IInv, NEW w \in Workers, WorkerStep(w)
  PROVE  IInv'
<1> USE DEF IInv
<1>1. ASSUME NEW k \in Keys, Get(w, k) PROVE IInv'
  BY <1>1 DEF Get, apiVars, StoreInv, HandInv, DebtInv, Exists, Newest, Owed, InCluster,
    StoredProfile
<1>2. ASSUME Read(w) PROVE IInv'
  <2>1. /\ mkey[w] \in Keys /\ lister[mkey[w]] \in 1 .. Newest(mkey[w])
        /\ history[mkey[w]][lister[mkey[w]]] # Gone
    BY <1>2 DEF Read, StoreInv, HandInv
  <2> QED
    BY <1>2, <2>1 DEF Read, informerVars, apiVars, StoreInv, HandInv, DebtInv, Exists, Newest,
                      Owed, InCluster, StoredProfile
<1>3. ASSUME NotFound(w) \/ ReadFails(w) \/ Send(w) PROVE IInv'
  <2>1. WorkerDone(w) /\ UNCHANGED <<history, changes, seen, lister>>
    BY <1>3 DEF NotFound, ReadFails, Send, apiVars
  <2> QED
    BY <2>1 DEF WorkerDone, StoreInv, HandInv, DebtInv, Exists, Newest, Owed, InCluster,
      StoredProfile
<1>4. ASSUME UpdateStatusFails(w) PROVE IInv'
  BY <1>4 DEF UpdateStatusFails, informerVars, apiVars, StoreInv, HandInv, DebtInv, Exists,
              Newest, Owed, InCluster, StoredProfile
<1> QED
  BY <1>1, <1>2, <1>3, <1>4, UpdateStatusIInv DEF WorkerStep

LEMMA NextIInv == IInv /\ [ProfileNext]_profileVars => IInv'
<1> SUFFICES ASSUME IInv, [ProfileNext]_profileVars PROVE IInv'
  OBVIOUS
<1>1. ASSUME \/ \E k \in Keys : ResyncProfile(k) \/ BackOff(k)
             \/ Handlers
             \/ UNCHANGED profileVars
      PROVE  UNCHANGED <<history, changes, seen, lister, mpc, mkey, mver>>
  BY <1>1 DEF ResyncProfile, Resync, BackOff, BackOffOver, Handlers, HandleChange,
              HandleNothing, HandleDelete, SendRemoval, profileVars, informerVars, apiVars,
              monitorVars, workerVars
<1> QED
  BY <1>1, Undisturbed, OwnerIInv, WatchIInv, WorkerIInv DEF ProfileNext

-----------------------------------------------------------------------------
\* The monitor's status writes die out: there is at most one for each change of
\* the owner, however often they come back as updates.
THEOREM ProfileWritesDieOut == ProfileSpec => []OneWritePerChange
<1>1. IInv => OneWritePerChange
  <2> SUFFICES ASSUME IInv, NEW k \in Keys PROVE Newest(k) <= 2 * changes[k]
    BY DEF OneWritePerChange
  <2> QED
    <3>1. Newest(k) \in Nat /\ changes[k] \in Nat /\ Owed(k) \in {0, 1}
      BY StoredType DEF IInv, StoreInv, Owed
    <3> QED
      BY <3>1 DEF IInv, DebtInv
<1> QED
  BY <1>1, InitIInv, NextIInv, PTL DEF ProfileSpec

\* Whatever the owner does while a worker judges its copy of a profile, a status
\* that is written is the verdict on the profile it is written to.
THEOREM ProfileVerdictFits == ProfileSpec => VerdictFits
<1>1. IInv /\ [ProfileNext]_profileVars =>
        [\A k \in Keys :
           /\ history'[k] # history[k]
           /\ changes'[k] = changes[k]
           => StoredProfile(k)'.status = Verdict(k, StoredProfile(k)')]_profileVars
  <2> SUFFICES ASSUME IInv, ProfileNext, NEW k \in Keys, history'[k] # history[k],
                      changes'[k] = changes[k]
               PROVE  StoredProfile(k)'.status = Verdict(k, StoredProfile(k)')
    OBVIOUS
  \* The owner counts its change, so that the monitor must have written.
  <2>1. ~(\E j \in Keys : Owner(j))
    <3> SUFFICES ASSUME NEW j \in Keys, Owner(j) PROVE FALSE
      OBVIOUS
    <3>1. PICK o : OwnerStores(j, o)
      BY DEF Owner, CreateProfile, ChangeProfile, DeleteProfile
    <3>2. changes' = [changes EXCEPT ![j] = @ + 1]
          /\ history' = [history EXCEPT ![j] = Append(@, o)]
      BY <3>1 DEF OwnerStores, Store
    <3> QED
      BY <3>2 DEF IInv, StoreInv
  <2>2. PICK w \in Workers : UpdateStatus(w)
    BY <2>1 DEF ProfileNext, Watch, ResyncProfile, BackOff, Handlers, HandleChange,
      HandleNothing,
                HandleDelete, SendRemoval, WorkerStep, Get, Read, NotFound, ReadFails,
                UpdateStatusFails, Send, apiVars
  <2>3. PICK j \in Keys, o \in Profiles :
          Store(j, o) /\ Verdict(j, o) = o.status
    BY <2>2, StatusWritten
  <2>4. StoredProfile(j)' = o /\ (j # k => history'[k] = history[k])
    BY <2>3, StoreKeeps DEF IInv
  <2> QED
    BY <2>3, <2>4
<1> QED
  BY <1>1, InitIInv, NextIInv, PTL DEF ProfileSpec, VerdictFits
=============================================================================
