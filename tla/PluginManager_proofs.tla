------------------------ MODULE PluginManager_proofs ------------------------
(***************************************************************************)
(* The maps of the plugin manager for any number of plugins, of Register   *)
(* calls at a time, of stubs and of retries: no counter outlives the       *)
(* registration of its name, and a plugin is removed only after enough bad *)
(* checks of its stub and of those the stub has replaced.                  *)
(* And about Startup, with which plugins and manager begin: which panics   *)
(* an accepted configuration leaves.                                       *)
(***************************************************************************)
EXTENDS PluginManager, Startup, TLAPS

\* A call has a plugin, and a stub exactly from its dial to its end.
CallInv ==
    \A c \in Calls : /\ call[c].pc # "idle" => call[c].name \in Names
                     /\ call[c].pc = "insert" <=> call[c].stub # None

\* A counter never counts more checks than were bad since the name was free.
CountInv == \A n \in Names : Registered(n) => Count(n) <= badChecks[n] + inherited[n]

IInv == TypeOK /\ CallInv /\ CountersMatch /\ CountInv

\* The histories are capped where it does not matter any more.
LEMMA CappedSum ==
    ASSUME NEW a \in 0 .. Retries + 1, NEW b \in 0 .. Retries + 1
    PROVE  /\ Capped(a + b) \in 0 .. Retries + 1
           /\ \A k \in NoCount .. Retries : k <= a + b => k <= Capped(a + b)
           /\ Capped(a + 1) \in 0 .. Retries + 1
           /\ \A k \in NoCount .. Retries : k < Retries /\ k <= a + b => k + 1 <= Capped(a + 1) + b
           /\ a + b >= Retries => Capped(a + 1) + b > Retries
    BY RetriesAssumption DEF Capped, NoCount

-----------------------------------------------------------------------------
\* Losing connections leaves stubs.
LEMMA LostKeeps ==
    ASSUME NEW r \in StubRecords
    PROVE  Lost(r) \in StubRecords
    BY DEF Lost, StubRecords

LEMMA LoseAllKeeps ==
    ASSUME TypeOK, NEW N
    PROVE  LoseAll(N) \in [Stubs -> StubRecords]
    <1>1. \A s \in Stubs : stub[s] \in StubRecords
      BY DEF TypeOK
    <1> QED BY <1>1, LostKeeps DEF LoseAll

\* A step of the plugins, of their connections or of an iteration leaves the
\* maps alone, and of the calls what the maps depend on.
LEMMA Undisturbed ==
    ASSUME IInv, TypeOK',
           UNCHANGED <<registered, retries, managerHistory>>,
           \A c \in Calls : \/ /\ call'[c].pc = call[c].pc
                               /\ call'[c].name = call[c].name
                               /\ call'[c].stub = call[c].stub
                            \/ /\ call'[c].pc # "insert"
                               /\ call'[c].stub = None
                               /\ call'[c].pc # "idle" => call'[c].name \in Names
    PROVE  IInv'
    <1>1. CallInv'
      BY DEF IInv, CallInv
    <1>2. CountersMatch' /\ CountInv'
      BY DEF IInv, CountersMatch, CountInv, Registered, Count, managerHistory
    <1> QED BY <1>1, <1>2 DEF IInv

-----------------------------------------------------------------------------
LEMMA InitIInv == Init => IInv
    <1> SUFFICES ASSUME Init PROVE IInv
      OBVIOUS
    <1> USE RetriesAssumption, NoneAssumption DEF Init
    <1>1. NoStub \in StubRecords /\ NoCall \in CallRecords
      BY DEF NoStub, StubRecords, NoCall, CallRecords
    <1>2. TypeOK
      <2>1. stub \in [Stubs -> StubRecords] /\ call \in [Calls -> CallRecords]
        BY <1>1
      <2>2. mu \in Functors \cup {"free"} /\ itodo \subseteq Stubs
        OBVIOUS
      <2>3. stopped \in BOOLEAN /\ plugin \in [Names -> {"down", "serving", "waiting", "active"}]
        OBVIOUS
      <2>4. /\ registered \in [Names -> Stubs \cup {None}]
            /\ retries \in [Names -> NoCount .. Retries]
            /\ badChecks \in [Names -> 0 .. Retries + 1]
            /\ inherited \in [Names -> 0 .. Retries + 1]
        BY DEF NoCount
      <2> QED BY <2>1, <2>2, <2>3, <2>4 DEF TypeOK
    <1>3. CallInv
      BY DEF CallInv, NoCall
    <1>4. CountersMatch /\ CountInv
      BY DEF CountersMatch, CountInv, Registered
    <1> QED BY <1>2, <1>3, <1>4 DEF IInv

LEMMA NextTypeOK ==
    ASSUME IInv, [Next]_vars
    PROVE  TypeOK'
    <1> USE RetriesAssumption, NoneAssumption
    <1>0. TypeOK
      BY DEF IInv
    <1>1. \A N : LoseAll(N) \in [Stubs -> StubRecords]
      BY <1>0, LoseAllKeeps
    <1>2. \A N : Abandon(N) \in [Calls -> CallRecords]
      BY <1>0, ZenonT(30) DEF Abandon, TypeOK, managerHistory, CallRecords
    <1>3. NoCall \in CallRecords /\ NoStub \in StubRecords
      BY DEF NoCall, CallRecords, NoStub, StubRecords
    <1>4. ASSUME NEW n \in Names, PluginStep(n) PROVE TypeOK'
      <2>1. CASE PluginStart(n)
        BY <1>0, <2>1 DEF TypeOK, managerHistory, PluginStart, pmVars
      <2>2. CASE PluginDies(n)
        BY <1>0, <1>1, <1>2, <2>2 DEF TypeOK, managerHistory, PluginDies
      <2>3. CASE PluginUnsupported(n)
        BY <1>0, <1>1, <2>3 DEF TypeOK, managerHistory, PluginUnsupported
      <2>4. ASSUME NEW c \in Calls, PluginRegisters(n, c) PROVE TypeOK'
        <3>1. [NoCall EXCEPT !.pc = "check", !.name = n, !.live = TRUE] \in CallRecords
          BY DEF NoCall, CallRecords
        <3> QED BY <1>0, <2>4, <3>1 DEF TypeOK, managerHistory, PluginRegisters
      <2> QED BY <1>4, <2>1, <2>2, <2>3, <2>4 DEF PluginStep
    <1>5. ASSUME NEW c \in Calls, Refuse(c),
                 UNCHANGED <<registered, retries, mu, itodo, stopped, managerHistory>>
          PROVE  TypeOK'
      BY <1>0, <1>1, <1>3, <1>5 DEF TypeOK, managerHistory, Refuse
    <1>6. ASSUME NEW c \in Calls, RegisterStep(c) PROVE TypeOK'
      <2>0. call[c] \in CallRecords
        BY <1>0 DEF TypeOK, managerHistory
      <2>1. CASE RegisterCheck(c)
        <3>1. CASE Registered(call[c].name)
          BY <1>5, <2>1, <3>1 DEF RegisterCheck
        <3>2. CASE ~Registered(call[c].name)
          <4>1. [call[c] EXCEPT !.pc = "dial"] \in CallRecords
            BY <2>0 DEF CallRecords
          <4> QED BY <1>0, <2>1, <3>2, <4>1 DEF TypeOK, managerHistory, RegisterCheck
        <3> QED BY <3>1, <3>2
      <2>2. CASE RegisterInsert(c)
        <3>1. call[c].stub \in Stubs \cup {None}
          BY <2>0 DEF CallRecords
        <3>2. plugin' \in [Names -> {"down", "serving", "waiting", "active"}]
          BY <1>0, <2>2 DEF TypeOK, managerHistory, RegisterInsert
        <3>3. /\ badChecks' \in [Names -> 0 .. Retries + 1]
              /\ inherited' \in [Names -> 0 .. Retries + 1]
          <4> DEFINE sum == Capped(inherited[call[c].name] + badChecks[call[c].name])
          <4>1. call[c].name \in Names
            BY <2>2 DEF RegisterInsert, IInv, CallInv
          <4>2. 0 \in 0 .. Retries + 1 /\ sum \in 0 .. Retries + 1
            <5>1. /\ badChecks[call[c].name] \in 0 .. Retries + 1
                  /\ inherited[call[c].name] \in 0 .. Retries + 1
              BY <1>0, <4>1 DEF TypeOK
            <5> QED BY <5>1, CappedSum, SMTT(30)
          <4>3. /\ badChecks' = [badChecks EXCEPT ![call[c].name] = 0]
                /\ inherited' = [inherited EXCEPT ![call[c].name] =
                                   IF Registered(call[c].name) THEN sum ELSE 0]
            BY <2>2 DEF RegisterInsert
          <4> HIDE RetriesAssumption DEF sum
          <4> QED BY <1>0, <4>2, <4>3 DEF TypeOK, managerHistory
        <3>4. /\ registered' \in [Names -> Stubs \cup {None}]
              /\ call' \in [Calls -> CallRecords]
          BY <1>0, <1>3, <2>2, <3>1 DEF TypeOK, managerHistory, RegisterInsert
        <3> QED BY <1>0, <2>2, <3>2, <3>3, <3>4 DEF TypeOK, managerHistory, RegisterInsert
      <2>3. ASSUME NEW s \in Stubs, RegisterDial(c, s) PROVE TypeOK'
        <3>1. [name |-> call[c].name, conn |-> "ready", stream |-> "unset"] \in StubRecords
          BY <2>0 DEF CallRecords, StubRecords
        <3>2. [call[c] EXCEPT !.pc = "insert", !.stub = s] \in CallRecords
          BY <2>0 DEF CallRecords
        <3>3. call' = [call EXCEPT ![c] = [call[c] EXCEPT !.pc = "insert", !.stub = s]]
          BY <1>0, <2>0, <2>3 DEF RegisterDial, TypeOK, managerHistory, CallRecords
        <3> QED BY <1>0, <2>3, <3>1, <3>2, <3>3 DEF TypeOK, managerHistory, RegisterDial
      <2>4. CASE RegisterDialFails(c)
        BY <1>5, <2>4 DEF RegisterDialFails
      <2> QED BY <1>6, <2>1, <2>2, <2>3, <2>4 DEF RegisterStep, RegisterAdvances
    <1>7. ASSUME NEW f \in Functors, IterStart(f) PROVE TypeOK'
      BY <1>0, <1>7 DEF TypeOK, managerHistory, IterStart
    <1>8. CASE IterStep
      <2>1. CASE IterDone
        BY <1>0, <2>1 DEF TypeOK, managerHistory, IterDone
      <2>2. ASSUME NEW s \in Stubs, CallNextState(s) PROVE TypeOK'
        <3>1. stub' \in [Stubs -> StubRecords]
          <4>1. \A x \in {"open", "nil"} : [stub[s] EXCEPT !.stream = x] \in StubRecords
            BY <1>0 DEF TypeOK, managerHistory, StubRecords
          <4> QED BY <1>0, <2>2, <4>1 DEF TypeOK, managerHistory, CallNextState
        <3> QED BY <1>0, <2>2, <3>1 DEF TypeOK, managerHistory, CallNextState
      <2>3. ASSUME NEW s \in Stubs, NextStatePanics(s) PROVE TypeOK'
        <3>1. /\ registered' \in [Names -> Stubs \cup {None}]
              /\ retries' \in [Names -> NoCount .. Retries]
              /\ badChecks' \in [Names -> 0 .. Retries + 1]
              /\ inherited' \in [Names -> 0 .. Retries + 1]
          BY <2>3 DEF NextStatePanics, NoCount
        <3>2. stub' \in [Stubs -> StubRecords] /\ call' \in [Calls -> CallRecords]
          BY <1>3, <2>3 DEF NextStatePanics
        <3>3. plugin' \in [Names -> {"down", "serving", "waiting", "active"}]
          BY <1>0, <2>3 DEF TypeOK, managerHistory, NextStatePanics
        <3>4. mu' = "free" /\ itodo' = {} /\ stopped' \in BOOLEAN
          BY <2>3 DEF NextStatePanics
        <3> QED BY <3>1, <3>2, <3>3, <3>4 DEF TypeOK, managerHistory
      <2>4. ASSUME NEW s \in Stubs, CallUnary(s) PROVE TypeOK'
        BY <1>0, <2>4 DEF TypeOK, managerHistory, CallUnary
      <2> QED BY <1>8, <2>1, <2>2, <2>3, <2>4 DEF IterStep
    <1>9. CASE Refresh
      <2>1. \A n \in Names : NewRetries(n) \in NoCount .. Retries
        BY <1>0 DEF TypeOK, managerHistory, NewRetries, ToBeDeleted, Count, NoCount, Registered
      <2>2. \A n \in Names : Capped(badChecks[n] + 1) \in 0 .. Retries + 1
        BY <1>0, CappedSum DEF TypeOK, managerHistory
      <2> QED BY <1>0, <1>9, <2>1, <2>2 DEF TypeOK, managerHistory, Refresh
    <1>10. CASE Stop
      <2>1. PICK N : /\ stub' = [s \in Stubs |-> IF \E n \in Names : registered[n] = s
                                       THEN [LoseAll(N)[s] EXCEPT !.conn = "closed"]
                                       ELSE LoseAll(N)[s]]
                     /\ plugin' = [n \in Names |-> IF n \in N THEN "down" ELSE plugin[n]]
                     /\ call' = Abandon(N)
        BY <1>10 DEF Stop
      <2>2. \A s \in Stubs : [LoseAll(N)[s] EXCEPT !.conn = "closed"] \in StubRecords
        BY <1>1 DEF StubRecords
      <2>3. stub' \in [Stubs -> StubRecords]
        BY <1>1, <2>1, <2>2
      <2>4. plugin' \in [Names -> {"down", "serving", "waiting", "active"}]
        BY <1>0, <2>1 DEF TypeOK, managerHistory
      <2>5. call' \in [Calls -> CallRecords]
        BY <1>2, <2>1
      <2>6. stopped' \in BOOLEAN /\ UNCHANGED <<registered, retries, mu, itodo, managerHistory>>
        BY <1>10 DEF Stop
      <2> QED BY <1>0, <2>3, <2>4, <2>5, <2>6 DEF TypeOK, managerHistory
    <1>11. ASSUME NEW s \in Stubs, ConnectionLost(s) \/ Reconnected(s) PROVE TypeOK'
      <2>1. Lost(stub[s]) \in StubRecords /\ [stub[s] EXCEPT !.conn = "ready"] \in StubRecords
        BY <1>0, LostKeeps DEF TypeOK, managerHistory, StubRecords
      <2> QED BY <1>0, <1>11, <2>1 DEF TypeOK, managerHistory, ConnectionLost, Reconnected
    <1>12. CASE UNCHANGED vars
      BY <1>0, <1>12 DEF TypeOK, managerHistory, vars, pmVars
    <1> QED BY <1>4, <1>6, <1>7, <1>8, <1>9, <1>10, <1>11, <1>12 DEF Next

-----------------------------------------------------------------------------
\* What Refuse leaves of the stubs and the calls.
LEMMA RefuseKeeps ==
    ASSUME IInv, TypeOK', NEW c \in Calls, Refuse(c),
           UNCHANGED <<registered, retries, managerHistory>>
    PROVE  IInv'
    <1>1. TypeOK
      BY DEF IInv
    <1>2. \A d \in Calls : \/ call'[d] = call[d]
                           \/ call'[d] = NoCall
      BY <1>1 DEF Refuse, TypeOK
    <1> QED BY <1>2, Undisturbed DEF NoCall

LEMMA PluginKeeps ==
    ASSUME IInv, TypeOK', NEW n \in Names, PluginStep(n)
    PROVE  IInv'
    <1>0. TypeOK
      BY DEF IInv
    <1>1. CASE PluginStart(n)
      BY <1>1, Undisturbed DEF PluginStart, pmVars
    <1>2. CASE PluginDies(n)
      <2>1. \A c \in Calls : /\ call'[c].pc = call[c].pc /\ call'[c].name = call[c].name
                             /\ call'[c].stub = call[c].stub
        BY <1>0, <1>2 DEF PluginDies, Abandon, TypeOK, CallRecords
      <2> QED BY <1>0, <1>2, <2>1, Undisturbed DEF PluginDies
    <1>3. CASE PluginUnsupported(n)
      BY <1>0, <1>3, Undisturbed DEF PluginUnsupported
    <1>4. ASSUME NEW c \in Calls, PluginRegisters(n, c) PROVE IInv'
      <2>1. /\ call'[c] = [NoCall EXCEPT !.pc = "check", !.name = n, !.live = TRUE]
            /\ \A d \in Calls \ {c} : call'[d] = call[d]
        BY <1>0, <1>4 DEF PluginRegisters, TypeOK
      <2>2. call'[c].pc = "check" /\ call'[c].name = n /\ call'[c].stub = None
        BY <2>1 DEF NoCall
      <2> QED BY <1>4, <2>1, <2>2, Undisturbed DEF PluginRegisters
    <1> QED BY <1>1, <1>2, <1>3, <1>4 DEF PluginStep

LEMMA DialKeeps ==
    ASSUME IInv, TypeOK', NEW c \in Calls, NEW s \in Stubs, RegisterDial(c, s)
    PROVE  IInv'
    <1>0. TypeOK
      BY DEF IInv
    <1>1. call[c].pc = "dial" /\ call[c].name \in Names /\ s # None
      BY NoneAssumption DEF RegisterDial, IInv, CallInv
    <1>2. /\ call'[c].pc = "insert" /\ call'[c].name = call[c].name /\ call'[c].stub = s
          /\ \A d \in Calls \ {c} : call'[d] = call[d]
      BY <1>0 DEF RegisterDial, TypeOK, CallRecords
    <1>3. CallInv'
      BY <1>1, <1>2 DEF IInv, CallInv
    <1>4. CountersMatch' /\ CountInv'
      BY DEF RegisterDial, IInv, CountersMatch, CountInv, Registered, Count, managerHistory
    <1> QED BY <1>3, <1>4 DEF IInv

LEMMA InsertKeeps ==
    ASSUME IInv, TypeOK', NEW c \in Calls, RegisterInsert(c)
    PROVE  IInv'
    <1>0. TypeOK
      BY DEF IInv
    <1>1. PICK n \in Names, s \in Stubs :
            call[c].pc = "insert" /\ n = call[c].name /\ s = call[c].stub
      BY <1>0 DEF RegisterInsert, IInv, CallInv, TypeOK, CallRecords
    <1>2. s # None
      BY NoneAssumption
    <1>3. /\ registered'[n] = s /\ \A m \in Names \ {n} : registered'[m] = registered[m]
          /\ retries' = retries
      BY <1>0, <1>1 DEF RegisterInsert, TypeOK
    <1>4. /\ call'[c].pc = "idle" /\ call'[c].stub = None
          /\ \A d \in Calls \ {c} : call'[d] = call[d]
      BY <1>0 DEF RegisterInsert, TypeOK, NoCall
    <1>5. CallInv'
      BY <1>4 DEF IInv, CallInv
    <1>6. CountersMatch'
      BY <1>2, <1>3 DEF IInv, CountersMatch, Registered
    <1>7. CountInv'
      <2>1. /\ badChecks'[n] = 0
            /\ inherited'[n] = IF Registered(n) THEN Capped(inherited[n] + badChecks[n]) ELSE 0
            /\ \A m \in Names \ {n} : badChecks'[m] = badChecks[m] /\ inherited'[m] = inherited[m]
        BY <1>0, <1>1 DEF RegisterInsert, TypeOK
      <2>2. ASSUME NEW m \in Names \ {n}, Registered(m)'
            PROVE  Count(m)' <= badChecks'[m] + inherited'[m]
        BY <1>3, <2>1, <2>2 DEF IInv, CountInv, Count, Registered
      <2>3. Count(n)' = Count(n)
        BY <1>3 DEF Count
      <2>4. Count(n)' <= badChecks'[n] + inherited'[n]
        <3>1. /\ badChecks[n] \in 0 .. Retries + 1 /\ inherited[n] \in 0 .. Retries + 1
              /\ retries[n] \in NoCount .. Retries /\ inherited'[n] \in 0 .. Retries + 1
          BY <1>0 DEF TypeOK
        <3>2. CASE Registered(n)
          <4>1. Count(n) <= inherited[n] + badChecks[n] /\ Count(n) \in NoCount .. Retries
            BY <3>1, <3>2, RetriesAssumption DEF IInv, CountInv, Count, NoCount
          <4>2. Count(n) <= Capped(inherited[n] + badChecks[n])
            BY <3>1, <4>1, CappedSum
          <4> QED BY <2>1, <2>3, <3>1, <3>2, <4>1, <4>2 DEF NoCount
        <3>3. CASE ~Registered(n)
          <4>1. retries[n] = NoCount
            BY <3>3 DEF IInv, CountersMatch
          <4> QED BY <2>1, <2>3, <3>3, <4>1 DEF Count
        <3> QED BY <3>2, <3>3
      <2> QED BY <2>2, <2>4 DEF CountInv
    <1> QED BY <1>5, <1>6, <1>7 DEF IInv

LEMMA RefreshKeeps ==
    ASSUME IInv, TypeOK', Refresh
    PROVE  /\ IInv'
           /\ \A n \in Names : Registered(n) /\ registered'[n] = None
                              => badChecks'[n] + inherited[n] > Retries
    <1> USE RetriesAssumption
    <1>0. TypeOK
      BY DEF IInv
    <1>1. \A n \in Names : registered'[n] = IF ToBeDeleted(n) THEN None ELSE registered[n]
      BY DEF Refresh
    <1>2. CallInv'
      BY DEF Refresh, IInv, CallInv
    <1>3. CountersMatch'
      BY <1>1 DEF IInv, CountersMatch, Refresh, NewRetries, ToBeDeleted, Registered
    <1>4. ASSUME NEW n \in Names, Registered(n)
          PROVE  /\ Registered(n)' => Count(n)' <= badChecks'[n] + inherited'[n]
                 /\ ~Registered(n)' => badChecks'[n] + inherited[n] > Retries
      <2> DEFINE healthy == Healthy(registered[n])
      <2>1. /\ retries[n] \in NoCount .. Retries
            /\ badChecks[n] \in 0 .. Retries + 1 /\ inherited[n] \in 0 .. Retries + 1
            /\ Count(n) <= badChecks[n] + inherited[n]
        BY <1>0, <1>4 DEF TypeOK, IInv, CountInv
      <2>2. /\ retries'[n] = NewRetries(n)
            /\ badChecks'[n] = IF healthy THEN 0 ELSE Capped(badChecks[n] + 1)
            /\ inherited'[n] = IF healthy THEN 0 ELSE inherited[n]
        BY <1>4 DEF Refresh
      <2>3. Count(n) \in 0 .. Retries /\ Count(n) \in NoCount .. Retries
        BY <2>1 DEF Count, NoCount
      <2>4. CASE healthy
        <3>1. ~ToBeDeleted(n) /\ retries'[n] = 0 /\ badChecks'[n] = 0 /\ inherited'[n] = 0
          BY <1>4, <2>2, <2>4 DEF NewRetries, ToBeDeleted
        <3> QED BY <1>1, <1>4, <3>1 DEF Count, Registered
      <2>5. CASE ~healthy /\ ~ToBeDeleted(n)
        <3>1. retries'[n] = Count(n) + 1 /\ Count(n) < Retries
          BY <1>4, <2>2, <2>3, <2>5 DEF NewRetries, ToBeDeleted
        <3>2. Count(n) + 1 <= Capped(badChecks[n] + 1) + inherited[n]
          BY <2>1, <2>3, <3>1, CappedSum
        <3>3. Count(n)' = Count(n) + 1
          BY <2>3, <3>1 DEF Count, NoCount
        <3> QED BY <1>1, <1>4, <2>2, <2>5, <3>2, <3>3 DEF Registered
      <2>6. CASE ~healthy /\ ToBeDeleted(n)
        <3>1. Count(n) >= Retries
          BY <2>6 DEF ToBeDeleted
        <3>2. badChecks[n] + inherited[n] >= Retries
          BY <2>1, <2>3, <3>1
        <3>3. Capped(badChecks[n] + 1) + inherited[n] > Retries
          BY <2>1, <3>2, CappedSum
        <3> QED BY <1>1, <2>2, <2>6, <3>3 DEF Registered
      <2> QED BY <2>4, <2>5, <2>6
    <1>5. CountInv'
      <2>1. \A n \in Names : Registered(n)' => Registered(n)
        BY <1>1 DEF Registered
      <2> QED BY <1>4, <2>1 DEF CountInv
    <1> QED BY <1>2, <1>3, <1>4, <1>5 DEF IInv, Registered

\* A manager that has crashed comes back with empty maps.
LEMMA PanicKeeps ==
    ASSUME IInv, TypeOK', NEW s \in Stubs, NextStatePanics(s)
    PROVE  IInv'
    <1>1. /\ \A n \in Names : registered'[n] = None /\ retries'[n] = NoCount
          /\ \A c \in Calls : call'[c] = NoCall
      BY DEF NextStatePanics
    <1> QED BY <1>1 DEF IInv, CallInv, CountersMatch, CountInv, Registered, NoCall

LEMMA NextIInv ==
    ASSUME IInv, [Next]_vars
    PROVE  IInv'
    <1>0. TypeOK /\ TypeOK'
      BY NextTypeOK DEF IInv
    <1>1. ASSUME NEW n \in Names, PluginStep(n) PROVE IInv'
      BY <1>0, <1>1, PluginKeeps
    <1>2. ASSUME NEW c \in Calls, RegisterStep(c) PROVE IInv'
      <2>1. CASE RegisterCheck(c)
        <3>1. CASE Registered(call[c].name)
          BY <1>0, <2>1, <3>1, RefuseKeeps DEF RegisterCheck
        <3>2. CASE ~Registered(call[c].name)
          <4>1. /\ call[c].pc = "check" /\ call'[c].pc = "dial"
                /\ call'[c].name = call[c].name /\ call'[c].stub = call[c].stub
                /\ \A d \in Calls \ {c} : call'[d] = call[d]
            BY <1>0, <2>1, <3>2 DEF RegisterCheck, TypeOK, CallRecords
          <4>2. call[c].name \in Names /\ call[c].stub = None
            BY <4>1 DEF IInv, CallInv
          <4> QED BY <1>0, <2>1, <3>2, <4>1, <4>2, Undisturbed DEF RegisterCheck
        <3> QED BY <3>1, <3>2
      <2>2. CASE RegisterInsert(c)
        BY <1>0, <2>2, InsertKeeps
      <2>3. ASSUME NEW s \in Stubs, RegisterDial(c, s) PROVE IInv'
        BY <1>0, <2>3, DialKeeps
      <2>4. CASE RegisterDialFails(c)
        BY <1>0, <2>4, RefuseKeeps DEF RegisterDialFails
      <2> QED BY <1>2, <2>1, <2>2, <2>3, <2>4 DEF RegisterStep, RegisterAdvances
    <1>3. ASSUME NEW f \in Functors, IterStart(f) PROVE IInv'
      BY <1>0, <1>3, Undisturbed DEF IterStart
    <1>4. CASE IterStep
      <2>1. CASE IterDone
        BY <1>0, <2>1, Undisturbed DEF IterDone
      <2>2. ASSUME NEW s \in Stubs, CallNextState(s) PROVE IInv'
        BY <1>0, <2>2, Undisturbed DEF CallNextState
      <2>3. ASSUME NEW s \in Stubs, NextStatePanics(s) PROVE IInv'
        BY <1>0, <2>3, PanicKeeps
      <2>4. ASSUME NEW s \in Stubs, CallUnary(s) PROVE IInv'
        BY <1>0, <2>4, Undisturbed DEF CallUnary
      <2> QED BY <1>4, <2>1, <2>2, <2>3, <2>4 DEF IterStep
    <1>5. CASE Refresh
      BY <1>0, <1>5, RefreshKeeps
    <1>6. CASE Stop
      <2>1. PICK N : call' = Abandon(N)
        BY <1>6 DEF Stop
      <2>2. \A c \in Calls : /\ call'[c].pc = call[c].pc /\ call'[c].name = call[c].name
                             /\ call'[c].stub = call[c].stub
        BY <1>0, <2>1 DEF Abandon, TypeOK, CallRecords
      <2> QED BY <1>0, <1>6, <2>2, Undisturbed DEF Stop
    <1>7. ASSUME NEW s \in Stubs, ConnectionLost(s) \/ Reconnected(s) PROVE IInv'
      BY <1>0, <1>7, Undisturbed DEF ConnectionLost, Reconnected
    <1>8. CASE UNCHANGED vars
      BY <1>0, <1>8, Undisturbed DEF vars, pmVars
    <1> QED BY <1>1, <1>2, <1>3, <1>4, <1>5, <1>6, <1>7, <1>8 DEF Next

-----------------------------------------------------------------------------
\* For any number of plugins, calls and stubs, refreshRegisteredPlugin and
\* Register, which share the two maps under mu and dial without it, leave no
\* counter behind for a plugin that is not registered.
THEOREM ManagerCounters == Spec => []CountersMatch
    <1>1. IInv => CountersMatch
      BY DEF IInv
    <1> QED BY <1>1, InitIInv, NextIInv, PTL DEF Spec

\* For any number of plugins and retries, refreshRegisteredPlugin removes a
\* plugin only if more than Retries checks in a row were bad, those of the stubs
\* its registration has replaced included.
THEOREM ManagerRemoves == Spec => RemovedOnlyIfDead
    <1>1. IInv /\ [Next]_vars => [RemovedAfterRetries]_vars
      <2> SUFFICES ASSUME IInv, [Next]_vars,
                          NEW n \in Names, Registered(n), registered'[n] = None,
                          stub'[registered[n]] # NoStub
                   PROVE  badChecks'[n] + inherited[n] > Retries
        BY DEF RemovedAfterRetries
      <2>0. TypeOK /\ TypeOK'
        BY NextTypeOK DEF IInv
      <2>1. registered[n] \in Stubs
        BY <2>0 DEF TypeOK, Registered
      <2>2. registered' # registered
        BY DEF Registered
      <2>3. CASE Refresh
        BY <2>0, <2>3, RefreshKeeps
      <2>4. ASSUME NEW c \in Calls, RegisterInsert(c) PROVE FALSE
        <3>1. call[c].stub \in Stubs
          BY <2>0, <2>4 DEF RegisterInsert, IInv, CallInv, TypeOK, CallRecords
        <3>2. registered'[n] \in {registered[n], call[c].stub}
          BY <2>0, <2>4 DEF RegisterInsert, TypeOK
        <3> QED BY <2>1, <3>1, <3>2, NoneAssumption
      <2>5. ASSUME NEW s \in Stubs, NextStatePanics(s) PROVE FALSE
        BY <2>1, <2>5 DEF NextStatePanics
      <2>6. Refresh \/ (\E c \in Calls : RegisterInsert(c)) \/ (\E s \in Stubs : NextStatePanics(s))
        <3>1. ASSUME NEW m \in Names, PluginStep(m) PROVE FALSE
          BY <2>2, <3>1 DEF PluginStep, PluginStart, PluginDies, PluginUnsupported,
                            PluginRegisters, pmVars
        <3>2. ASSUME NEW c \in Calls, RegisterStep(c) PROVE RegisterInsert(c)
          BY <2>2, <3>2 DEF RegisterStep, RegisterAdvances, RegisterCheck, RegisterDial,
                            RegisterDialFails
        <3>3. ASSUME NEW f \in Functors, IterStart(f) PROVE FALSE
          BY <2>2, <3>3 DEF IterStart
        <3>4. ASSUME IterStep PROVE \E s \in Stubs : NextStatePanics(s)
          BY <2>2, <3>4 DEF IterStep, IterDone, CallNextState, CallUnary
        <3>5. ~Stop
          BY <2>2 DEF Stop
        <3>6. ASSUME NEW s \in Stubs, ConnectionLost(s) \/ Reconnected(s) PROVE FALSE
          BY <2>2, <3>6 DEF ConnectionLost, Reconnected
        <3>7. ~UNCHANGED vars
          BY <2>2 DEF vars, pmVars
        <3> QED BY <3>1, <3>2, <3>3, <3>4, <3>5, <3>6, <3>7 DEF Next
      <2> QED BY <2>3, <2>4, <2>5, <2>6
    <1> QED BY <1>1, InitIInv, NextIInv, PTL DEF Spec, RemovedOnlyIfDead

-----------------------------------------------------------------------------
(* The start of the programs. *)

\* A main program that goes on has an accepted configuration, and panics only
\* without a planner.
MainInv ==
    /\ mainConfig \in MainConfigs
    /\ mainPC \notin {"parse", "fatal"} \/ planner # "none" => ParseConfig(mainConfig)
    /\ mainPC = "panic" => planner = "nil"

\* So has a plugin program, which is the same one all the time.
ProgInv ==
    /\ prog = [name |-> prog.name, pc |-> prog.pc, dials |-> prog.dials, late |-> prog.late]
    /\ prog.pc \notin {"load", "fatal"} => Valid(prog.name, progConfig)
    /\ At("panic") => \/ prog.name = "rdt"
                      \/ prog.name = "cpu_scale" /\ progConfig.specific.maxProActiveCPU \in 1 .. 19

\* The fields of a configuration hold numbers.
LEMMA ConfigNumbers ==
  ASSUME NEW c \in MainConfigs, NEW f \in DOMAIN MainDefault
  PROVE  c[f] \in Int
<1> DEFINE values == [g \in DOMAIN MainDefault |->
                             IF g \in DOMAIN MaxOf THEN Edges(MaxOf[g])
                             ELSE IF g = "opportunisticCandidates" THEN Edges(1000)
                             ELSE IF g \in MustBeValid \cup {"queries", "file"} THEN Invalid
                             ELSE {-1, 0}]
<1>1. MainDefault[f] = 1
  BY DEF MainDefault
<1>2. \A g \in DOMAIN MaxOf : MaxOf[g] \in Int
  BY StartupAssumption DEF MaxOf
<1>3. \A g \in DOMAIN MainDefault : values[g] \subseteq Int
  BY <1>2 DEF Edges, Invalid
<1>4. c = MainDefault \/ \E g \in DOMAIN MainDefault : \E v \in values[g] : c = [MainDefault EXCEPT ![g] = v]
  BY DEF MainConfigs, Variants
<1> QED
  <2> HIDE DEF values
  <2>1. CASE c = MainDefault
    BY <1>1, <2>1
  <2>2. ASSUME NEW g \in DOMAIN MainDefault, NEW v \in values[g], c = [MainDefault EXCEPT ![g] = v]
        PROVE  c[f] \in Int
    BY <1>1, <1>3, <2>2
  <2> QED
    BY <1>4, <2>1, <2>2

\* What main() does after a step of its is a step or nothing at all.
LEMMA AfterGoesOn ==
  ASSUME NEW step \in {"parse", "planner", "controller", "kpiprofiles", "intents", "pods", "run",
                       "crdFactory", "podFactory"}
  PROVE  After(step) \notin {"parse", "fatal", "panic"}
<1>1. \E i \in DOMAIN MainSteps : MainSteps[i] = step
  BY DEF MainSteps
<1>2. PICK i \in DOMAIN MainSteps : /\ MainSteps[i] = step
                                    /\ After(step) = IF i = Len(MainSteps) THEN "up" ELSE MainSteps[i + 1]
  BY <1>1 DEF After
<1>3. i \in 1 .. 9 /\ Len(MainSteps) = 9
  BY <1>2 DEF MainSteps
<1>4. \A j \in 2 .. 9 : MainSteps[j] \notin {"parse", "fatal", "panic"}
  BY DEF MainSteps
<1> QED
  BY <1>2, <1>3, <1>4

LEMMA MainStepInv ==
  ASSUME MainInv, MainStep \/ FirstPlan
  PROVE  MainInv'
<1>1. mainConfig' = mainConfig
  BY DEF MainStep, FirstPlan, Parse, NewAPlanner, NewController, NewMonitor, RunController, StartFactory
<1>2. CASE FirstPlan
  BY <1>1, <1>2 DEF FirstPlan, MainInv, Crashed, ParseConfig, WithinLimits
<1> SUFFICES ASSUME MainStep PROVE MainInv'
  BY <1>2
<1>3. /\ "taskChannelLength" \in DOMAIN MaxOf /\ "controllerTimeout" \in DOMAIN MaxOf
      /\ "taskChannelLength" \in DOMAIN MainDefault /\ MaxOf.taskChannelLength \in Int
  BY DEF MaxOf, MainDefault
<1>4. mainConfig.taskChannelLength \in Int
  BY <1>3, ConfigNumbers DEF MainInv
<1>5. CASE \E ok \in BOOLEAN : Parse(ok)
  BY <1>1, <1>5, AfterGoesOn DEF Parse, Advance, Ends, MainInv, progVars, ParseConfig, WithinLimits
<1>6. CASE \E ok \in BOOLEAN : NewAPlanner(ok)
  BY <1>1, <1>6, AfterGoesOn DEF NewAPlanner, Advance, MainInv, ParseConfig, WithinLimits
<1>7. CASE NewController
  <2>1. mainPC = "controller" /\ ParseConfig(mainConfig)
    BY <1>7 DEF NewController, Advance, Ends, MainInv
  <2>2. mainConfig.taskChannelLength \in 1 .. MaxOf.taskChannelLength
    <3>1. mainConfig.taskChannelLength > 0 /\ mainConfig.taskChannelLength <= MaxOf.taskChannelLength
      BY <1>3, <2>1 DEF ParseConfig, WithinLimits
    <3> QED
      BY <1>3, <1>4, <3>1
  <2>3. mainPC' = After("controller")
    BY <1>7, <2>2 DEF NewController, Advance
  <2> QED
    BY <1>1, <2>1, <2>3, AfterGoesOn DEF MainInv, ParseConfig, WithinLimits
<1>8. CASE RunController
  <2>1. mainPC = "run" /\ ParseConfig(mainConfig)
    BY <1>8 DEF RunController, Advance, Ends, MainInv
  <2>2. mainPC' = After("run")
    BY <1>3, <1>8, <2>1 DEF RunController, Advance, ParseConfig, WithinLimits
  <2> QED
    BY <1>1, <2>1, <2>2, AfterGoesOn DEF MainInv, ParseConfig, WithinLimits
<1>9. CASE \E r \in Resources : NewMonitor(r)
  BY <1>1, <1>9, AfterGoesOn DEF NewMonitor, Advance, Ends, MainInv, Resources, ParseConfig, WithinLimits
<1>10. CASE \E f \in {"crdFactory", "podFactory"} : StartFactory(f)
  BY <1>1, <1>10, AfterGoesOn DEF StartFactory, Advance, MainInv, ParseConfig, WithinLimits
<1> QED
  BY <1>5, <1>6, <1>7, <1>8, <1>9, <1>10 DEF MainStep

LEMMA ProgStepInv ==
  ASSUME ProgInv, ProgStep \/ FirstUse
  PROVE  ProgInv'
<1>1. progConfig' = progConfig /\ prog'.name = prog.name
  BY DEF ProgStep, FirstUse, GoTo, Dials, DialFails, LoadAndCheck, NewActuator, StartStub, Registers, ProgInv
<1>2. Valid(prog'.name, progConfig') <=> Valid(prog.name, progConfig)
  BY <1>1
<1> HIDE DEF Valid
<1>3. CASE \E ok \in BOOLEAN : LoadAndCheck(ok)
  BY <1>1, <1>2, <1>3 DEF LoadAndCheck, At, GoTo, ProgInv
<1>4. CASE \E ok \in BOOLEAN : NewActuator(ok)
  BY <1>1, <1>2, <1>4 DEF NewActuator, At, GoTo, ProgInv
<1>5. CASE \E ok \in BOOLEAN : StartStub(ok)
  BY <1>1, <1>2, <1>5 DEF StartStub, At, GoTo, ProgInv
<1>6. CASE \E ok \in BOOLEAN : Registers(ok)
  BY <1>1, <1>2, <1>6 DEF Registers, At, GoTo, ProgInv
<1>7. CASE Dials
  BY <1>1, <1>2, <1>7 DEF Dials, At, ProgInv
<1>8. CASE DialFails
  BY <1>1, <1>2, <1>8 DEF DialFails, At, ProgInv
\* The rounding base and the number of profiles have been checked.
<1>9. CASE FirstUse
  <2>1. At("active") /\ UsePanics(prog.name, progConfig.specific) /\ prog' = [prog EXCEPT !.pc = "panic"]
    BY <1>9 DEF FirstUse, GoTo
  <2>2. Valid(prog.name, progConfig)
    BY <2>1 DEF At, ProgInv
  <2>3. isValidConf(prog.name, progConfig.specific)
    BY <2>2 DEF Valid
  <2>4. prog.name = "cpu_scale" /\ progConfig.specific.maxProActiveCPU \in 1 .. 19
    <3>1. CASE prog.name = "cpu_scale"
      <4>1. isValidCPUConf(progConfig.specific)
        BY <2>3, <3>1 DEF isValidConf
      <4>2. progConfig.specific.cpuRounding \in 1 .. 1000
        BY <4>1 DEF isValidCPUConf
      <4>3. progConfig.specific.cpuRounding # 0
        <5>1. \A x \in 1 .. 1000 : x # 0
          OBVIOUS
        <5> QED
          BY <4>2, <5>1, ZenonT(30)
      <4> QED
        BY <2>1, <3>1, <4>3, Zenon DEF UsePanics
    <3>2. CASE prog.name = "energy"
      BY <2>1, <2>3, <3>2 DEF UsePanics, isValidConf, isValidPowerConf
    <3>3. prog.name \in {"cpu_scale", "energy"}
      BY <2>1 DEF UsePanics
    <3> QED
      BY <3>1, <3>2, <3>3
  <2> QED
    BY <1>1, <1>2, <2>1, <2>2, <2>4 DEF At, ProgInv
<1> QED
  BY <1>3, <1>4, <1>5, <1>6, <1>7, <1>8, <1>9 DEF ProgStep

\* The two programs do not write each other's state.
LEMMA StartupInv == StartupSpec => [](MainInv /\ ProgInv)
<1>1. StartupInit => MainInv /\ ProgInv
  BY DEF StartupInit, MainInv, ProgInv, At
<1>2. MainInv /\ ProgInv /\ [StartupNext]_startupVars => (MainInv /\ ProgInv)'
  <2> SUFFICES ASSUME MainInv, ProgInv, [StartupNext]_startupVars PROVE (MainInv /\ ProgInv)'
    OBVIOUS
  <2>1. CASE MainStep \/ FirstPlan
    <3>1. UNCHANGED progVars
      BY <2>1 DEF MainStep, FirstPlan, Parse, NewAPlanner, NewController, NewMonitor, RunController,
                  StartFactory, progVars
    <3> QED
      BY <2>1, <3>1, MainStepInv DEF ProgInv, progVars, At
  <2>2. CASE ProgStep \/ FirstUse
    <3>1. UNCHANGED mainVars
      BY <2>2 DEF ProgStep, FirstUse, GoTo, Dials, DialFails, LoadAndCheck, NewActuator, StartStub,
                  Registers
    <3> QED
      BY <2>2, <3>1, ProgStepInv DEF MainInv, mainVars
  <2>3. CASE \E r \in Resources : Synced(r) \/ MonitorRuns(r)
    <3>1. UNCHANGED <<progVars, mainPC, mainConfig, planner>>
      BY <2>3 DEF Synced, MonitorRuns
    <3> QED
      BY <3>1 DEF MainInv, ProgInv, progVars, At
  <2>4. CASE UNCHANGED startupVars
    BY <2>4 DEF startupVars, mainVars, progVars, MainInv, ProgInv, At
  <2> QED
    BY <2>1, <2>2, <2>3, <2>4 DEF StartupNext
<1> QED
  BY <1>1, <1>2, PTL DEF StartupSpec

\* An accepted configuration does not make a program panic, whatever the
\* configuration, but for the three cases the property names.
THEOREM StartupPanics == StartupSpec => []PanicsExplained
<1>1. MainInv /\ ProgInv => PanicsExplained
  BY DEF MainInv, ProgInv, PanicsExplained
<1> QED
  BY <1>1, StartupInv, PTL

=============================================================================
