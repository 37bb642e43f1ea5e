----------------------------- MODULE WorkProofs -----------------------------
(***************************************************************************)
(* Proofs about what accompanies the work of a process, for any number of  *)
(* goroutines, subscribers and messages: the number of the request each    *)
(* goroutine works for (Session), the event of the shutdown (Observer),    *)
(* the log (Log) and the configuration (Config).                           *)
(***************************************************************************)
EXTENDS Session, Observer, Log, Config, SequenceTheorems, TLAPS

-----------------------------------------------------------------------------
(* The storage of the goroutines.                                          *)

Stacks == [gseq : Nat, value : Nat]
Works == [kind : {"none", "call", "timer", "async", "task", "queue"}, of : Nat]

SessionTypeOK ==
    /\ process \in {"app", "dao"} /\ gseq \in Nat
    /\ stackMap \in [Pointers -> Stacks]
    /\ work \in [Pointers -> Works]

\* Jobs are of requests, and only a dao has some.
JobsInv ==
    /\ jobs # {} => process = "dao"
    /\ \A j \in jobs : j.of \in Nat \ {0} /\ j.gseq = j.of

\* A dao stores no session value; nothing is left of one in the storage of a
\* pointer that is free; an assistant leaves its number, but it is of a dao.
PointerInv(p) ==
    /\ work[p].kind = "none" => work[p].of = 0
    /\ process = "dao" \/ Free(p) => stackMap[p].value = 0
    /\ work[p].kind = "queue" => process = "dao"
    /\ work[p].of # 0 =>
        /\ stackMap[p].gseq = work[p].of
        /\ work[p].kind # "timer" => stackMap[p].value \in {0, work[p].of}

SessionInv == SessionTypeOK /\ JobsInv /\ \A p \in Pointers : PointerInv(p)

LEMMA SessionStarts == SessionInit => SessionInv
  BY DEF SessionInit, SessionInv, SessionTypeOK, JobsInv, PointerInv, Stacks, Works,
         NoStack, Idle, Free

LEMMA PointerSpared ==
    ASSUME NEW p \in Pointers, PointerInv(p), UNCHANGED <<process, stackMap[p], work[p]>>
    PROVE  PointerInv(p)'
  BY DEF PointerInv, Free

\* A step disturbs one pointer only.
LEMMA PointerReplaced ==
    ASSUME SessionInv, SessionTypeOK', JobsInv', UNCHANGED process, NEW p \in Pointers,
           PointerInv(p)', \A q \in Pointers \ {p} : UNCHANGED <<stackMap[q], work[q]>>
    PROVE  SessionInv'
  BY PointerSpared DEF SessionInv

LEMMA SetGseqSets ==
    ASSUME SessionTypeOK, NEW p \in Pointers, NEW seq \in Nat
    PROVE  /\ SetGseq(stackMap, p, seq) \in [Pointers -> Stacks]
           /\ SetGseq(stackMap, p, seq)[p] = [gseq |-> seq, value |-> stackMap[p].value]
           /\ \A q \in Pointers \ {p} : SetGseq(stackMap, p, seq)[q] = stackMap[q]
  <1>1. stackMap[p] \in Stacks BY DEF SessionTypeOK
  <1>2. [stackMap[p] EXCEPT !.gseq = seq] = [gseq |-> seq, value |-> stackMap[p].value]
    BY <1>1 DEF Stacks
  <1>3. [gseq |-> seq, value |-> stackMap[p].value] \in Stacks BY <1>1 DEF Stacks
  <1>. QED BY <1>2, <1>3 DEF SessionTypeOK, SetGseq

\* A pointer gets work of the request seq, and its number.
LEMMA WorkGiven ==
    ASSUME SessionInv, JobsInv', gseq' \in Nat, UNCHANGED process,
           NEW p \in Pointers, NEW w \in Works, w.kind # "none", NEW seq \in Nat,
           work' = [work EXCEPT ![p] = w], stackMap' = SetGseq(stackMap, p, seq),
           w.of = seq, w.kind = "queue" => process = "dao",
           Free(p) \/ w.kind = "timer" \/ process = "dao"
    PROVE  SessionInv'
  <1>1. SessionTypeOK BY DEF SessionInv
  <1>2. /\ stackMap' \in [Pointers -> Stacks]
        /\ stackMap'[p] = [gseq |-> seq, value |-> stackMap[p].value]
        /\ \A q \in Pointers \ {p} : stackMap'[q] = stackMap[q]
    BY <1>1, SetGseqSets
  <1>3. work'[p] = w /\ \A q \in Pointers \ {p} : work'[q] = work[q]
    BY <1>1 DEF SessionTypeOK
  <1>4. SessionTypeOK' BY <1>1, <1>2 DEF SessionTypeOK
  <1>5. PointerInv(p)'
    <2>1. PointerInv(p) BY DEF SessionInv
    <2>. QED BY <1>2, <1>3, <2>1 DEF PointerInv, Free, Idle
  <1>. QED BY <1>2, <1>3, <1>4, <1>5, PointerReplaced

LEMMA NumbersKeep ==
    ASSUME SessionInv, NEW p \in Pointers, AppCall(p) \/ TimerRuns(p)
    PROVE  SessionInv'
  <1>1. gseq' \in Nat /\ JobsInv' /\ UNCHANGED process
    BY DEF AppCall, TimerRuns, GetGseq, SessionInv, SessionTypeOK, JobsInv
  <1>2. CASE AppCall(p)
    <2>1. [kind |-> "call", of |-> gseq'] \in Works BY <1>1 DEF Works
    <2>. QED BY <1>1, <1>2, <2>1, WorkGiven DEF AppCall
  <1>3. CASE TimerRuns(p)
    <2>1. work[p] \in Works /\ work[p].kind = "timer"
      BY <1>3 DEF TimerRuns, SessionInv, SessionTypeOK
    <2>. DEFINE w == [kind |-> "timer", of |-> gseq']
    <2>2. w \in Works /\ [work[p] EXCEPT !.of = gseq'] = w BY <1>1, <2>1 DEF Works
    <2>3. work' = [work EXCEPT ![p] = w] BY <1>3, <2>2 DEF TimerRuns
    <2>4. stackMap' = SetGseq(stackMap, p, gseq') BY <1>3 DEF TimerRuns
    <2>. QED BY <1>1, <2>2, <2>3, <2>4, WorkGiven
  <1>. QED BY <1>2, <1>3

\* A timer that has not run yet, a call of Health: no request, and no number.
LEMMA WorkWithout ==
    ASSUME SessionInv, NEW p \in Pointers, Free(p), NEW w \in Works,
           w.kind \in {"timer", "call"}, w.of = 0,
           work' = [work EXCEPT ![p] = w], UNCHANGED <<process, stackMap, gseq, jobs>>
    PROVE  SessionInv'
  <1>1. work'[p] = w /\ \A q \in Pointers \ {p} : work'[q] = work[q]
    BY DEF SessionInv, SessionTypeOK
  <1>2. SessionTypeOK' BY DEF SessionInv, SessionTypeOK
  <1>3. PointerInv(p)' BY <1>1 DEF SessionInv, PointerInv, Free, Idle
  <1>. QED BY <1>1, <1>2, <1>3, PointerReplaced DEF SessionInv, JobsInv

LEMMA TimerStartsKeeps ==
    ASSUME SessionInv, NEW p \in Pointers, TimerStarts(p) PROVE SessionInv'
  <1>1. [kind |-> "timer", of |-> 0] \in Works BY DEF Works
  <1>. QED BY <1>1, WorkWithout DEF TimerStarts

LEMMA DaoCallKeeps ==
    ASSUME SessionInv, NEW p \in Pointers, DaoCall(p) PROVE SessionInv'
  <1>1. PICK seq \in 0 .. MaxSeq :
          /\ process = "dao" \/ seq = 0
          /\ work' = [work EXCEPT ![p] = [kind |-> "call", of |-> seq]]
          /\ stackMap' = IF seq = 0 THEN stackMap ELSE SetGseq(stackMap, p, seq)
    <2>1. CASE process = "dao" BY <2>1 DEF DaoCall
    <2>2. CASE process # "dao"
      <3>1. 0 \in 0 .. MaxSeq BY SessionAssumption DEF SessionAssumption
      <3>. QED BY <2>2, <3>1 DEF DaoCall
    <2>. QED BY <2>1, <2>2
  <1>2. /\ seq \in Nat /\ [kind |-> "call", of |-> seq] \in Works
        /\ Free(p) /\ UNCHANGED <<process, gseq, jobs>>
    BY SessionAssumption DEF SessionAssumption, DaoCall, Works
  <1>3. CASE seq = 0 BY <1>1, <1>2, <1>3, WorkWithout
  <1>4. CASE seq # 0
    <2>1. gseq' \in Nat /\ JobsInv' BY <1>2 DEF SessionInv, SessionTypeOK, JobsInv
    <2>. QED BY <1>1, <1>2, <1>4, <2>1, WorkGiven
  <1>. QED BY <1>3, <1>4

LEMMA SessionSetKeeps ==
    ASSUME SessionInv, NEW p \in Pointers, SessionSet(p) PROVE SessionInv'
  <1>1. stackMap[p] \in Stacks /\ work[p] \in Works BY DEF SessionInv, SessionTypeOK
  <1>. DEFINE s == [gseq |-> stackMap[p].gseq, value |-> work[p].of]
  <1>2. s \in Stacks /\ [stackMap[p] EXCEPT !.value = work[p].of] = s
    BY <1>1 DEF Stacks, Works
  <1>3. stackMap' = [stackMap EXCEPT ![p] = s] BY <1>2 DEF SessionSet
  <1>4. stackMap'[p] = s /\ \A q \in Pointers \ {p} : stackMap'[q] = stackMap[q]
    BY <1>3 DEF SessionInv, SessionTypeOK
  <1>5. SessionTypeOK' BY <1>2, <1>3 DEF SessionSet, SessionInv, SessionTypeOK
  <1>6. PointerInv(p)'
    BY <1>4 DEF SessionSet, SessionInv, PointerInv, Free, Idle
  <1>. QED BY <1>4, <1>5, <1>6, PointerReplaced DEF SessionSet, SessionInv, JobsInv

LEMMA StartKeeps ==
    ASSUME SessionInv, NEW p \in Pointers, NEW q \in Pointers, NEW sort \in {"async", "task"},
           Start(p, q, sort), UNCHANGED <<process, gseq, jobs>>
    PROVE  SessionInv'
  <1>. DEFINE w == [kind |-> sort, of |-> work[p].of]
  <1>1. work[p].of \in Nat /\ work[p].of # 0
    BY DEF Start, SessionInv, SessionTypeOK, Works
  <1>2. w \in Works BY <1>1 DEF Works
  <1>3. Get(p) = work[p].of BY <1>1 DEF Get, SessionInv, PointerInv
  <1>4. work' = [work EXCEPT ![q] = w] /\ Free(q) BY DEF Start
  <1>5. stackMap' = SetGseq(stackMap, q, work[p].of) BY <1>1, <1>3 DEF Start
  <1>6. gseq' \in Nat /\ JobsInv' BY DEF SessionInv, SessionTypeOK, JobsInv
  <1>. QED BY <1>1, <1>2, <1>4, <1>5, <1>6, WorkGiven

LEMMA JobCastKeeps ==
    ASSUME SessionInv, NEW p \in Pointers, Cast(p) PROVE SessionInv'
  <1>1. work[p].of \in Nat \ {0} /\ Get(p) = work[p].of
    BY DEF Cast, Get, SessionInv, SessionTypeOK, PointerInv, Works
  <1>2. jobs' = jobs \cup {[of |-> work[p].of, gseq |-> work[p].of]} /\ process = "dao"
    BY <1>1 DEF Cast
  <1>3. JobsInv' BY <1>1, <1>2 DEF Cast, SessionInv, JobsInv
  <1>4. \A q \in Pointers : PointerInv(q)' BY PointerSpared DEF Cast, SessionInv
  <1>. QED BY <1>3, <1>4 DEF Cast, SessionInv, SessionTypeOK

LEMMA ExecuteKeeps ==
    ASSUME SessionInv, NEW p \in Pointers, NEW j \in jobs, Execute(p, j) PROVE SessionInv'
  <1>1. j.of \in Nat /\ j.gseq = j.of /\ process = "dao" BY DEF SessionInv, JobsInv
  <1>2. gseq' \in Nat /\ JobsInv' /\ UNCHANGED process
    BY DEF Execute, SessionInv, SessionTypeOK, JobsInv
  <1>3. [kind |-> "queue", of |-> j.of] \in Works BY <1>1 DEF Works
  <1>. QED BY <1>1, <1>2, <1>3, WorkGiven DEF Execute

LEMMA EndsKeeps ==
    ASSUME SessionInv, NEW p \in Pointers, Ends(p) \/ AssistEnds(p) PROVE SessionInv'
  <1>1. Idle \in Works /\ NoStack \in Stacks BY DEF Idle, NoStack, Works, Stacks
  <1>2. /\ work' = [work EXCEPT ![p] = Idle] /\ UNCHANGED <<process, gseq, jobs>>
        /\ \/ stackMap' = [stackMap EXCEPT ![p] = NoStack]
           \/ stackMap' = stackMap /\ work[p].kind = "queue"
    BY DEF Ends, AssistEnds, RemoveStack
  <1>3. SessionTypeOK' BY <1>1, <1>2 DEF SessionInv, SessionTypeOK
  <1>4. /\ work'[p] = Idle /\ stackMap'[p].value = 0
        /\ \A q \in Pointers \ {p} : UNCHANGED <<stackMap[q], work[q]>>
    BY <1>2 DEF SessionInv, SessionTypeOK, PointerInv, NoStack
  <1>5. PointerInv(p)' BY <1>4 DEF PointerInv, Idle
  <1>. QED BY <1>2, <1>3, <1>4, <1>5, PointerReplaced DEF SessionInv, JobsInv

\* The storage of a goroutine's pointer holds the number of the request it works
\* for; what an earlier user of the pointer left is no session value, and no
\* number that work without a request would take for one (run_stack.go).
THEOREM SessionInvariant == SessionSpec => []SessionInv
  <1>1. SessionInit => SessionInv BY SessionStarts
  <1>2. SessionInv /\ [SessionNext]_sessionVars => SessionInv'
    <2>. SUFFICES ASSUME SessionInv, [SessionNext]_sessionVars PROVE SessionInv' OBVIOUS
    <2>1. ASSUME NEW p \in Pointers, AppCall(p) \/ TimerStarts(p) \/ TimerRuns(p) \/ DaoCall(p)
          PROVE  SessionInv'
      BY <2>1, NumbersKeep, TimerStartsKeeps, DaoCallKeeps
    <2>2. ASSUME NEW p \in Pointers, SessionSet(p) \/ Cast(p) \/ Ends(p) \/ AssistEnds(p)
          PROVE  SessionInv'
      BY <2>2, SessionSetKeeps, JobCastKeeps, EndsKeeps
    <2>3. ASSUME NEW p \in Pointers, NEW q \in Pointers, Async(p, q) \/ GroupWait(p, q)
          PROVE  SessionInv'
      <3>1. Start(p, q, "async") \/ Start(p, q, "task") BY <2>3 DEF Async, GroupWait
      <3>2. UNCHANGED <<process, gseq, jobs>> BY <3>1 DEF Start
      <3>. QED BY <3>1, <3>2, StartKeeps
    <2>4. ASSUME NEW p \in Pointers, NEW j \in jobs, Execute(p, j) PROVE SessionInv'
      BY <2>4, ExecuteKeeps
    <2>5. CASE UNCHANGED sessionVars
      <3>1. \A p \in Pointers : PointerInv(p)'
        BY <2>5, PointerSpared DEF sessionVars, SessionInv
      <3>. QED BY <2>5, <3>1 DEF sessionVars, SessionInv, SessionTypeOK, JobsInv
    <2>. QED BY <2>1, <2>2, <2>3, <2>4, <2>5 DEF SessionNext
  <1>. QED BY <1>1, <1>2, PTL DEF SessionSpec

\* Work of a request finds the number of this request, and no session value of
\* another one, for any number of goroutines and however their pointers are
\* used again (run_stack.go).
THEOREM SessionCarriesGseq == SessionSpec => []WorkCarriesItsGseq
  <1>1. SessionInv => WorkCarriesItsGseq
    BY DEF SessionInv, PointerInv, WorkCarriesItsGseq
  <1>. QED BY <1>1, SessionInvariant, PTL

-----------------------------------------------------------------------------
(* The event of the shutdown.                                              *)

ObsTypeOK ==
    /\ gObserver \in ObServers \cup {NoObserver}
    /\ serMap \in [ObServers -> SUBSET ObServers]
    /\ sub \in [Subscribers -> {"new", "join", "create", "store", "in", "leave",
                                 "count", "delete", "out"}]
    /\ held \in [Subscribers -> ObServers \cup {NoObserver}]
    /\ owed \subseteq Subscribers
    /\ emit \in {"no", "loaded", "done"}

\* With the timers subscribed, the observer of the event is the one they
\* subscribed to: whoever comes joins it, and whoever leaves finds it in use.
TimersHold == TimerObserver \in serMap[TimerObserver]

SubscriberInv(s) ==
    /\ sub[s] \notin {"create", "store", "delete"}
    /\ sub[s] \in {"join", "leave", "count"} => held[s] = TimerObserver
    /\ sub[s] = "in" => s \in serMap[TimerObserver]
    /\ s \in owed => sub[s] = "in" /\ emit = "loaded"

ObsInv ==
    /\ ObsTypeOK
    /\ TimersHold =>
        /\ gObserver = TimerObserver
        /\ emit = "loaded" => emitted = TimerObserver
        /\ \A s \in Subscribers : SubscriberInv(s)

LEMMA ObsStarts == ObsInit => ObsInv
  <1>. SUFFICES ASSUME ObsInit PROVE ObsInv OBVIOUS
  <1>1. ObsTypeOK
    BY DEF ObsInit, ObsTypeOK, ObServers
  <1>2. TimersHold => gObserver = TimerObserver
    BY ObserverAssumption DEF ObserverAssumption, ObsInit, TimersHold, ObServers
  <1>. QED BY <1>1, <1>2 DEF ObsInit, ObsInv, SubscriberInv

LEMMA SubscriberSpared ==
    ASSUME NEW s \in Subscribers, SubscriberInv(s), UNCHANGED <<sub[s], held[s]>>,
           s \in serMap[TimerObserver] => s \in serMap'[TimerObserver],
           s \in owed' => s \in owed /\ emit' = emit
    PROVE  SubscriberInv(s)'
  BY DEF SubscriberInv

SubscriberStep(s) ==
    \/ AddLoad(s) \/ AddJoin(s) \/ AddStore(s)
    \/ RemoveLoad(s) \/ RemoveLeave(s) \/ RemoveCount(s) \/ RemoveDelete(s)

\* The timers are never subscribed by somebody else.
LEMMA SubscriberTypes ==
    ASSUME ObsTypeOK, NEW s \in Subscribers, SubscriberStep(s)
    PROVE  ObsTypeOK' /\ (TimersHold' => TimersHold)
  <1>0. s \in ObServers /\ TimerObserver \in ObServers /\ s # TimerObserver
    BY ObserverAssumption DEF ObserverAssumption, ObServers
  <1>1. CASE AddLoad(s)
    <2>1. held' \in [Subscribers -> ObServers \cup {NoObserver}]
      BY <1>0, <1>1 DEF AddLoad, ObsTypeOK
    <2>2. sub' \in [Subscribers -> {"new", "join", "create", "store", "in", "leave",
                                 "count", "delete", "out"}]
      BY <1>1 DEF AddLoad, ObsTypeOK
    <2>. QED BY <1>1, <2>1, <2>2 DEF AddLoad, ObsTypeOK, TimersHold, emitVars
  <1>2. CASE AddJoin(s)
    <2>1. sub' \in [Subscribers -> {"new", "join", "create", "store", "in", "leave",
                                 "count", "delete", "out"}]
      BY <1>2 DEF AddJoin, ObsTypeOK
    <2>2. serMap' \in [ObServers -> SUBSET ObServers]
      BY <1>0, <1>2 DEF AddJoin, ObsTypeOK
    <2>3. TimersHold' => TimersHold BY <1>0, <1>2 DEF AddJoin, ObsTypeOK, TimersHold
    <2>. QED BY <1>2, <2>1, <2>2, <2>3 DEF AddJoin, ObsTypeOK, emitVars
  <1>3. CASE AddStore(s)
    BY <1>0, <1>3 DEF AddStore, ObsTypeOK, TimersHold, emitVars
  <1>4. CASE RemoveLoad(s)
    <2>1. sub' \in [Subscribers -> {"new", "join", "create", "store", "in", "leave",
                                 "count", "delete", "out"}]
      BY <1>4 DEF RemoveLoad, ObsTypeOK
    <2>2. held' \in [Subscribers -> ObServers \cup {NoObserver}]
      BY <1>4 DEF RemoveLoad, ObsTypeOK
    <2>. QED BY <1>4, <2>1, <2>2 DEF RemoveLoad, ObsTypeOK, TimersHold, emitVars
  <1>5. CASE RemoveLeave(s)
    <2>1. sub' \in [Subscribers -> {"new", "join", "create", "store", "in", "leave",
                                 "count", "delete", "out"}]
      BY <1>5 DEF RemoveLeave, ObsTypeOK
    <2>2. serMap' \in [ObServers -> SUBSET ObServers]
      BY <1>5 DEF RemoveLeave, ObsTypeOK
    <2>3. TimersHold' => TimersHold BY <1>0, <1>5 DEF RemoveLeave, ObsTypeOK, TimersHold
    <2>. QED BY <1>5, <2>1, <2>2, <2>3 DEF RemoveLeave, ObsTypeOK, emitVars
  <1>6. CASE RemoveCount(s)
    BY <1>6 DEF RemoveCount, ObsTypeOK, TimersHold, emitVars
  <1>7. CASE RemoveDelete(s)
    BY <1>7 DEF RemoveDelete, ObsTypeOK, TimersHold, emitVars
  <1>. QED BY <1>1, <1>2, <1>3, <1>4, <1>5, <1>6, <1>7 DEF SubscriberStep

LEMMA SubscriberKeeps ==
    ASSUME ObsInv, NEW s \in Subscribers, SubscriberStep(s) PROVE ObsInv'
  <1>1. ObsTypeOK /\ ObsTypeOK' /\ (TimersHold' => TimersHold)
    BY SubscriberTypes DEF ObsInv
  <1>. SUFFICES ASSUME TimersHold
                PROVE  /\ gObserver' = TimerObserver
                       /\ emit' = "loaded" => emitted' = TimerObserver
                       /\ \A t \in Subscribers : SubscriberInv(t)'
    BY <1>1 DEF ObsInv
  <1>2. /\ TimerObserver \in ObServers /\ TimerObserver # NoObserver /\ s # TimerObserver
        /\ gObserver = TimerObserver /\ SubscriberInv(s)
    BY ObserverAssumption DEF ObserverAssumption, ObsInv, ObServers
  <1>3. sub[s] \notin {"create", "store", "delete"} BY <1>2 DEF SubscriberInv
  <1>4. UNCHANGED <<gObserver, emit, emitted>> /\ owed' \subseteq owed
    BY <1>3 DEF SubscriberStep, AddLoad, AddJoin, AddStore, RemoveLoad, RemoveLeave,
                RemoveCount, RemoveDelete, emitVars
  <1>5. ASSUME NEW t \in Subscribers, t # s PROVE SubscriberInv(t)'
    <2>1. UNCHANGED <<sub[t], held[t]>>
      BY <1>1, <1>5 DEF SubscriberStep, AddLoad, AddJoin, AddStore, RemoveLoad, RemoveLeave,
                RemoveCount, RemoveDelete, ObsTypeOK
    <2>2. t \in serMap[TimerObserver] => t \in serMap'[TimerObserver]
      <3>1. CASE UNCHANGED serMap BY <3>1
      <3>2. CASE AddJoin(s) BY <1>1, <1>2, <3>2 DEF AddJoin, ObsTypeOK
      <3>3. CASE RemoveLeave(s) BY <1>1, <1>2, <1>5, <3>3 DEF RemoveLeave, ObsTypeOK
      <3>. QED BY <3>1, <3>2, <3>3
           DEF SubscriberStep, AddLoad, AddStore, RemoveLoad, RemoveCount, RemoveDelete
    <2>. QED BY <1>4, <1>5, <2>1, <2>2, SubscriberSpared DEF ObsInv
  <1>6. SubscriberInv(s)'
    <2>1. CASE AddLoad(s)
      <3>1. sub'[s] = "join" /\ held'[s] = TimerObserver BY <1>1, <1>2, <2>1 DEF AddLoad, ObsTypeOK
      <3>2. s \notin owed' BY <1>2, <2>1 DEF AddLoad, SubscriberInv
      <3>. QED BY <3>1, <3>2 DEF SubscriberInv
    <2>2. CASE AddJoin(s)
      <3>1. sub[s] = "join" /\ held[s] = TimerObserver BY <1>2, <1>3, <2>2 DEF AddJoin, SubscriberInv
      <3>2. sub'[s] = "in" /\ s \in serMap'[TimerObserver]
        BY <1>1, <1>2, <2>2, <3>1 DEF AddJoin, ObsTypeOK
      <3>3. s \notin owed' BY <1>2, <2>2, <3>1 DEF AddJoin, SubscriberInv
      <3>. QED BY <3>2, <3>3 DEF SubscriberInv
    <2>3. CASE RemoveLoad(s)
      <3>1. sub'[s] = "leave" /\ held'[s] = TimerObserver /\ s \notin owed'
        BY <1>1, <1>2, <2>3 DEF RemoveLoad, ObsTypeOK
      <3>. QED BY <3>1 DEF SubscriberInv
    <2>4. CASE RemoveLeave(s)
      <3>1. sub'[s] = "count" /\ held'[s] = TimerObserver
        BY <1>1, <1>2, <2>4 DEF RemoveLeave, ObsTypeOK, SubscriberInv
      <3>2. s \notin owed' BY <1>2, <2>4 DEF RemoveLeave, SubscriberInv
      <3>. QED BY <3>1, <3>2 DEF SubscriberInv
    <2>5. CASE RemoveCount(s)
      <3>1. serMap[held[s]] # {} BY <1>2, <2>5 DEF RemoveCount, SubscriberInv, TimersHold
      <3>2. sub'[s] = "out" BY <1>1, <2>5, <3>1 DEF RemoveCount, ObsTypeOK
      <3>3. s \notin owed' BY <1>2, <2>5 DEF RemoveCount, SubscriberInv
      <3>. QED BY <3>2, <3>3 DEF SubscriberInv
    <2>. QED BY <1>3, <2>1, <2>2, <2>3, <2>4, <2>5 DEF SubscriberStep, AddStore, RemoveDelete
  <1>. QED BY <1>2, <1>4, <1>5, <1>6 DEF ObsInv

\* As long as the timers are subscribed their observer is the one in the map,
\* every subscriber is in it or joins it, and the shutdown goes round it
\* (observer.go AddEvent, RemoveEvent, Event).
THEOREM ObsInvariant == ObsSpec => []ObsInv
  <1>1. ObsInit => ObsInv BY ObsStarts
  <1>2. ObsInv /\ [ObsNext]_obsVars => ObsInv'
    <2>. SUFFICES ASSUME ObsInv, [ObsNext]_obsVars PROVE ObsInv' OBVIOUS
    <2>1. ASSUME NEW s \in Subscribers, SubscriberStep(s) PROVE ObsInv'
      BY <2>1, SubscriberKeeps
    <2>2. CASE EventLoad
      <3>1. TimerObserver # NoObserver
        BY ObserverAssumption DEF ObserverAssumption, ObServers
      <3>. QED
        BY <2>2, <3>1 DEF EventLoad, ObsInv, ObsTypeOK, TimersHold, SubscriberInv
    <2>3. CASE EventCalls
      BY <2>3 DEF EventCalls, ObsInv, ObsTypeOK, TimersHold, SubscriberInv
    <2>4. CASE UNCHANGED obsVars
      BY <2>4 DEF obsVars, emitVars, ObsInv, ObsTypeOK, TimersHold, SubscriberInv
    <2>. QED BY <2>1, <2>2, <2>3, <2>4 DEF ObsNext, SubscriberStep
  <1>. QED BY <1>1, <1>2, PTL DEF ObsSpec

\* In an application with timers the shutdown reaches every task that is
\* subscribed and does not leave meanwhile, for any number of tasks.
THEOREM ShutdownIsHeard == ObsSpec => []ShutdownReachesTasks
  <1>1. ObsInv => ShutdownReachesTasks
    BY DEF ObsInv, ObsTypeOK, TimersHold, SubscriberInv, ShutdownReachesTasks
  <1>. QED BY <1>1, ObsInvariant, PTL

-----------------------------------------------------------------------------
(* The log.                                                                *)

Lines == [n : Nat, late : BOOLEAN]

LogTypeOK ==
    /\ msg \in [Channels -> Seq(Nat)] /\ logged \in [LogKinds -> Nat]
    /\ writer \in [Channels -> Nat \cup {Gone}]
    /\ file \in [LogKinds -> Int] /\ fileName \in [LogKinds -> Int] /\ hour \in Nat
    /\ onFile \in [LogKinds -> SUBSET Lines] /\ marked \in [Channels -> Nat]
    /\ closing \in {"no", "infoMarked", "waiting", "closed"}
    /\ closeMsg \in Nat /\ closeLen \in Nat

\* Until Close has shut them, the file that is open is the one last named.
FileInv == \A k \in LogKinds : file[k] \in {Unopened, fileName[k]}

MarkSent(k) == IF k = "info" THEN closing # "no" ELSE closing \in {"waiting", "closed"}

Ended(k) == IF writer[k] = Gone THEN 1 ELSE 0

\* Each writer that has ended has told Close.
CountInv == closeMsg + closeLen = Ended("warn") + Ended("info")

OnFile(lines, n) == [n |-> n, late |-> FALSE] \in lines

\* Of a channel q, its writer w and what is in the files: the first len
\* messages that wait are the last ones up to last, the one before them is with
\* the writer or written, and so are all before.
Pending(q, w, lines, len, last) ==
    /\ len <= last
    /\ \A i \in 1 .. len : q[i] = last - len + i
    /\ w > 0 => w = last - len
    /\ \A n \in 1 .. last - len : n # w => OnFile(lines, n)

PendingIn(k, len, last) == Pending(msg[k], writer[k], onFile[k], len, last)

ChannelInv(k) ==
    IF writer[k] = Gone THEN MarkSent(k) /\ \A n \in 1 .. marked[k] : OnFile(onFile[k], n)
    ELSE IF ~MarkSent(k) THEN PendingIn(k, Len(msg[k]), logged[k])
    ELSE \E j \in 1 .. Len(msg[k]) : msg[k][j] = Mark /\ PendingIn(k, j - 1, marked[k])

LogInv ==
    /\ LogTypeOK
    /\ closing # "closed" =>
        FileInv /\ CountInv /\ \A k \in Channels : ChannelInv(k)
    /\ ClosedLogIsComplete

\* What keeps it: more that is written, more that waits, ...
LEMMA PendingSpared ==
    ASSUME NEW q, NEW w, NEW lines, NEW len \in Nat, NEW last \in Nat,
           Pending(q, w, lines, len, last), NEW q2, \A i \in 1 .. len : q2[i] = q[i],
           NEW lines2, lines \subseteq lines2
    PROVE  Pending(q2, w, lines2, len, last)
  BY DEF Pending, OnFile

\* ... one more message, ...
LEMMA PendingMore ==
    ASSUME NEW q \in Seq(Nat), NEW w \in Nat, NEW lines, NEW last \in Nat,
           Pending(q, w, lines, Len(q), last)
    PROVE  Pending(Append(q, last + 1), w, lines, Len(q) + 1, last + 1)
  <1>1. /\ Len(q) \in Nat /\ \A i \in 1 .. Len(q) : Append(q, last + 1)[i] = q[i]
        /\ Append(q, last + 1)[Len(q) + 1] = last + 1
    OBVIOUS
  <1>2. last + 1 - (Len(q) + 1) = last - Len(q) BY <1>1
  <1>3. ASSUME NEW i \in 1 .. Len(q) + 1
        PROVE  Append(q, last + 1)[i] = last - Len(q) + i
    <2>1. CASE i = Len(q) + 1 BY <1>1, <2>1
    <2>2. CASE i \in 1 .. Len(q) BY <1>1, <2>2 DEF Pending
    <2>. QED BY <1>1, <2>1, <2>2
  <1>. DEFINE q2 == Append(q, last + 1)
  <1>4. \A i \in 1 .. Len(q) + 1 : q2[i] = last + 1 - (Len(q) + 1) + i BY <1>2, <1>3
  <1>. HIDE DEF q2
  <1>5. Pending(q2, w, lines, Len(q) + 1, last + 1)
    <2>1. Len(q) + 1 <= last + 1 BY <1>1 DEF Pending
    <2>2. w > 0 => w = last + 1 - (Len(q) + 1) BY <1>2 DEF Pending
    <2>3. \A n \in 1 .. last + 1 - (Len(q) + 1) : n # w => OnFile(lines, n)
      BY <1>2 DEF Pending
    <2>. QED BY <1>4, <2>1, <2>2, <2>3 DEF Pending
  <1>. QED BY <1>5 DEF q2

\* ... the first one taken by the writer, ...
LEMMA PendingTaken ==
    ASSUME NEW q \in Seq(Nat), NEW lines, NEW len \in 1 .. Len(q), NEW last \in Nat,
           Pending(q, 0, lines, len, last)
    PROVE  Head(q) > 0 /\ Pending(Tail(q), Head(q), lines, len - 1, last)
  <1>1. /\ Len(q) \in Nat /\ len \in Nat /\ q # << >> /\ Head(q) = q[1]
        /\ \A i \in 1 .. Len(q) - 1 : Tail(q)[i] = q[i + 1]
    OBVIOUS
  <1>2. Head(q) = last - len + 1 /\ len <= last BY <1>1 DEF Pending
  <1>3. last - (len - 1) = last - len + 1 BY <1>1
  <1>4. ASSUME NEW i \in 1 .. len - 1 PROVE Tail(q)[i] = last - len + 1 + i
    BY <1>1, <1>4 DEF Pending
  <1>5. ASSUME NEW n \in 1 .. last - len + 1, n # last - len + 1 PROVE OnFile(lines, n)
    BY <1>1, <1>5 DEF Pending
  <1>. QED BY <1>1, <1>2, <1>3, <1>4, <1>5 DEF Pending

\* ... and written.
LEMMA PendingWritten ==
    ASSUME NEW q, NEW w \in Nat, w > 0, NEW lines, NEW len \in Nat, NEW last \in Nat,
           Pending(q, w, lines, len, last),
           NEW lines2, lines \subseteq lines2, OnFile(lines2, w)
    PROVE  Pending(q, 0, lines2, len, last)
  <1>1. \A n : OnFile(lines, n) => OnFile(lines2, n) BY DEF OnFile
  <1>. QED BY <1>1 DEF Pending

LEMMA LogStarts == LogInit => LogInv
  <1>. SUFFICES ASSUME LogInit PROVE LogInv OBVIOUS
  <1>1. LogTypeOK BY DEF LogInit, LogTypeOK, Channels, LogKinds, Gone, Unopened
  <1>2. FileInv /\ CountInv
    BY DEF LogInit, FileInv, CountInv, Ended, Gone, Channels, LogKinds
  <1>3. ASSUME NEW k \in Channels PROVE ChannelInv(k)
    <2>1. writer[k] = 0 /\ Len(msg[k]) = 0 /\ logged[k] = 0 /\ ~MarkSent(k)
      BY <1>3 DEF LogInit, MarkSent, Channels, LogKinds
    <2>. QED BY <2>1 DEF ChannelInv, PendingIn, Pending, Gone
  <1>. QED BY <1>1, <1>2, <1>3 DEF LogInit, LogInv, ClosedLogIsComplete

LEMMA ChannelSpared ==
    ASSUME NEW k \in Channels, ChannelInv(k), MarkSent(k)' <=> MarkSent(k),
           UNCHANGED <<msg[k], writer[k], logged[k], marked[k]>>, onFile[k] \subseteq onFile'[k]
    PROVE  ChannelInv(k)'
  <1>1. ASSUME NEW len, NEW last, PendingIn(k, len, last)
        PROVE  Pending(msg'[k], writer'[k], onFile'[k], len, last)
    BY <1>1 DEF PendingIn, Pending, OnFile
  <1>. QED BY <1>1 DEF ChannelInv, PendingIn, OnFile

\* What was complete stays so: the files only grow.
LEMMA CompleteStays ==
    ASSUME LogTypeOK, ClosedLogIsComplete, UNCHANGED <<closing, closeLen, marked>>,
           \A k \in Channels : onFile[k] \subseteq onFile'[k]
    PROVE  ClosedLogIsComplete'
  BY DEF ClosedLogIsComplete

LEMMA KindsDiffer == "error" \notin Channels /\ Channels \subseteq LogKinds /\ "error" \in LogKinds
  BY DEF Channels, LogKinds

\* A write goes to the file of the hour, unless Close has shut it.
LEMMA WriteWrites ==
    ASSUME LogTypeOK, NEW k \in LogKinds, NEW n \in Nat, Write(k, n)
    PROVE  /\ file' \in [LogKinds -> Int] /\ fileName' \in [LogKinds -> Int]
           /\ onFile' \in [LogKinds -> SUBSET Lines]
           /\ \A l \in LogKinds : onFile[l] \subseteq onFile'[l]
           /\ FileInv => FileInv' /\ [n |-> n, late |-> FALSE] \in onFile'[k]
  <1>. DEFINE line == [n |-> n, late |-> GetLogger(k) # hour]
  <1>1. GetLogger(k) \in Int BY DEF GetLogger, FileOfHour, LogTypeOK
  <1>2. line \in Lines BY DEF Lines
  <1>3. /\ file' = [file EXCEPT ![k] = GetLogger(k)]
        /\ fileName' = [fileName EXCEPT ![k] = hour]
        /\ onFile' = [onFile EXCEPT ![k] =
             IF GetLogger(k) = Shut THEN onFile[k] ELSE onFile[k] \cup {line}]
    BY DEF Write, FileOfHour
  <1>. HIDE DEF line
  <1>4. file' \in [LogKinds -> Int] /\ fileName' \in [LogKinds -> Int]
    BY <1>1, <1>3 DEF LogTypeOK
  <1>5. onFile' \in [LogKinds -> SUBSET Lines] BY <1>2, <1>3 DEF LogTypeOK
  <1>6. \A l \in LogKinds : onFile[l] \subseteq onFile'[l] BY <1>3 DEF LogTypeOK
  <1>7. ASSUME FileInv PROVE FileInv' /\ [n |-> n, late |-> FALSE] \in onFile'[k]
    <2>1. GetLogger(k) = hour BY <1>7 DEF FileInv, GetLogger, FileOfHour
    <2>2. FileInv' BY <1>3, <1>7, <2>1 DEF FileInv, LogTypeOK
    <2>3. line = [n |-> n, late |-> FALSE] BY <2>1 DEF line
    <2>4. hour # Shut BY DEF LogTypeOK, Shut
    <2>. QED BY <1>3, <2>1, <2>2, <2>3, <2>4 DEF LogTypeOK
  <1>. QED BY <1>4, <1>5, <1>6, <1>7

LEMMA EnqueueKeeps ==
    ASSUME LogInv, NEW k \in Channels, Enqueue(k) PROVE LogInv'
  <1>0. LogTypeOK /\ k \in LogKinds BY KindsDiffer DEF LogInv
  <1>1. /\ logged' = [logged EXCEPT ![k] = logged[k] + 1]
        /\ msg' = [msg EXCEPT ![k] = Append(msg[k], logged'[k])]
        /\ UNCHANGED <<writer, file, fileName, onFile, hour, closing, marked, closeMsg, closeLen>>
    BY DEF Enqueue, fileVars, closeVars
  <1>2. logged[k] \in Nat /\ logged'[k] = logged[k] + 1 /\ msg[k] \in Seq(Nat)
    BY <1>0, <1>1 DEF LogTypeOK
  <1>3. /\ msg'[k] \in Seq(Nat) /\ Len(msg'[k]) = Len(msg[k]) + 1 /\ Len(msg[k]) \in Nat
        /\ \A i \in 1 .. Len(msg[k]) : msg'[k][i] = msg[k][i]
        /\ msg'[k][Len(msg[k]) + 1] = logged[k] + 1
    <2>1. msg'[k] = Append(msg[k], logged[k] + 1) BY <1>0, <1>1, <1>2 DEF LogTypeOK
    <2>. QED BY <1>2, <2>1
  <1>4. LogTypeOK'
    <2>1. logged' \in [LogKinds -> Nat] BY <1>0, <1>1, <1>2 DEF LogTypeOK
    <2>2. msg' \in [Channels -> Seq(Nat)] BY <1>0, <1>1, <1>3 DEF LogTypeOK
    <2>. QED BY <1>0, <1>1, <2>1, <2>2 DEF LogTypeOK
  <1>5. ASSUME closing # "closed", NEW l \in Channels PROVE ChannelInv(l)'
    <2>1. ChannelInv(l) /\ (MarkSent(l)' <=> MarkSent(l))
      BY <1>1, <1>5 DEF LogInv, MarkSent
    <2>2. CASE l # k
      <3>1. UNCHANGED <<msg[l], logged[l], writer[l], marked[l], onFile[l]>>
        BY <1>0, <1>1, <2>2 DEF LogTypeOK
      <3>. QED BY <2>1, <3>1, ChannelSpared
    <2>3. CASE l = k
      <3>1. UNCHANGED <<writer[k], marked[k], onFile[k]>> BY <1>1
      <3>2. CASE writer[k] = Gone
        BY <2>1, <2>3, <3>1, <3>2 DEF ChannelInv, OnFile
      <3>3. CASE writer[k] # Gone /\ MarkSent(k)
        <4>1. PICK j \in 1 .. Len(msg[k]) : msg[k][j] = Mark /\ PendingIn(k, j - 1, marked[k])
          BY <2>1, <2>3, <3>3 DEF ChannelInv
        <4>0. 1 .. Len(msg[k]) \subseteq 1 .. Len(msg'[k]) BY <1>3
        <4>2. j \in 1 .. Len(msg'[k]) /\ msg'[k][j] = Mark
          <5>1. msg'[k][j] = msg[k][j] BY <1>3
          <5>. QED BY <4>0, <4>1, <5>1
        <4>3. j - 1 \in Nat /\ marked[k] \in Nat /\ \A i \in 1 .. j - 1 : msg'[k][i] = msg[k][i]
          <5>1. marked[k] \in Nat BY <1>0 DEF LogTypeOK
          <5>2. j - 1 \in Nat /\ \A i \in 1 .. j - 1 : i \in 1 .. Len(msg[k])
            BY <1>3, <4>1
          <5>. QED BY <1>3, <5>1, <5>2
        <4>4. Pending(msg'[k], writer'[k], onFile'[k], j - 1, marked[k])
          BY <3>1, <4>1, <4>3, PendingSpared DEF PendingIn
        <4>. QED BY <2>1, <2>3, <3>1, <3>3, <4>2, <4>4 DEF ChannelInv, PendingIn
      <3>4. CASE writer[k] # Gone /\ ~MarkSent(k)
        <4>1. PendingIn(k, Len(msg[k]), logged[k]) /\ writer[k] \in Nat
          BY <1>0, <2>1, <2>3, <3>4 DEF ChannelInv, LogTypeOK
        <4>2. msg'[k] = Append(msg[k], logged[k] + 1) BY <1>0, <1>1, <1>2 DEF LogTypeOK
        <4>3. Pending(msg'[k], writer[k], onFile[k], Len(msg[k]) + 1, logged[k] + 1)
          BY <1>2, <4>1, <4>2, PendingMore DEF PendingIn
        <4>. QED BY <1>2, <1>3, <2>1, <2>3, <3>1, <3>4, <4>3 DEF ChannelInv, PendingIn
      <3>. QED BY <3>2, <3>3, <3>4
    <2>. QED BY <2>2, <2>3
  <1>6. ClosedLogIsComplete' BY <1>0, <1>1, CompleteStays DEF LogInv
  <1>. QED BY <1>1, <1>4, <1>5, <1>6 DEF LogInv, FileInv, CountInv, Ended

LEMMA TakeKeeps ==
    ASSUME LogInv, NEW k \in Channels, Take(k) PROVE LogInv'
  <1>0. LogTypeOK /\ k \in LogKinds BY KindsDiffer DEF LogInv
  <1>1. /\ writer[k] = 0 /\ msg[k] # << >> /\ msg[k] \in Seq(Nat)
        /\ msg' = [msg EXCEPT ![k] = Tail(msg[k])]
        /\ UNCHANGED <<logged, file, fileName, onFile, hour, closing, marked, closeLen>>
    BY <1>0 DEF Take, fileVars, LogTypeOK
  <1>2. /\ Head(msg[k]) \in Nat /\ Head(msg[k]) = msg[k][1] /\ Tail(msg[k]) \in Seq(Nat)
        /\ Len(Tail(msg[k])) = Len(msg[k]) - 1 /\ Len(msg[k]) \in Nat /\ Len(msg[k]) > 0
        /\ \A i \in 1 .. Len(msg[k]) - 1 : Tail(msg[k])[i] = msg[k][i + 1]
    BY <1>1
  <1>3. msg'[k] = Tail(msg[k]) /\ \A l \in Channels \ {k} : msg'[l] = msg[l]
    BY <1>0, <1>1 DEF LogTypeOK
  <1>4. \/ Head(msg[k]) = Mark /\ writer' = [writer EXCEPT ![k] = Gone] /\ closeMsg' = closeMsg + 1
        \/ Head(msg[k]) # Mark /\ writer' = [writer EXCEPT ![k] = Head(msg[k])] /\ closeMsg' = closeMsg
    BY DEF Take
  <1>5. LogTypeOK'
    <2>1. msg' \in [Channels -> Seq(Nat)] BY <1>0, <1>1, <1>2 DEF LogTypeOK
    <2>2. writer' \in [Channels -> Nat \cup {Gone}] BY <1>0, <1>2, <1>4 DEF LogTypeOK
    <2>3. closeMsg' \in Nat
      <3>1. closeMsg \in Nat BY <1>0 DEF LogTypeOK
      <3>. QED BY <1>4, <3>1
    <2>. QED BY <1>0, <1>1, <2>1, <2>2, <2>3 DEF LogTypeOK
  <1>6. ClosedLogIsComplete' BY <1>0, <1>1, CompleteStays DEF LogInv
  <1>7. ASSUME closing # "closed" PROVE CountInv'
    <2>1. CountInv BY <1>7 DEF LogInv
    <2>2. CASE Head(msg[k]) # Mark
      <3>1. \A l \in Channels : Ended(l)' = Ended(l)
        BY <1>0, <1>1, <1>2, <1>4, <2>2 DEF Ended, LogTypeOK, Gone
      <3>2. Ended("warn")' = Ended("warn") /\ Ended("info")' = Ended("info")
        BY <3>1 DEF Channels
      <3>. QED BY <1>1, <1>4, <2>1, <2>2, <3>2 DEF CountInv
    <2>3. CASE Head(msg[k]) = Mark
      <3>1. Ended(k) = 0 /\ Ended(k)' = 1 /\ \A l \in Channels \ {k} : Ended(l)' = Ended(l)
        BY <1>0, <1>1, <1>4, <2>3 DEF Ended, LogTypeOK, Gone
      <3>2. Ended("warn") \in Nat /\ Ended("info") \in Nat /\ closeMsg \in Nat /\ closeLen \in Nat
        BY <1>0 DEF Ended, LogTypeOK
      <3>3. closeMsg' = closeMsg + 1 /\ closeLen' = closeLen BY <1>1, <1>4, <2>3
      <3>4. CASE k = "warn"
        <4>1. Ended("warn")' = Ended("warn") + 1 /\ Ended("info")' = Ended("info")
          BY <3>1, <3>4 DEF Channels
        <4>. QED BY <2>1, <3>2, <3>3, <4>1 DEF CountInv
      <3>5. CASE k = "info"
        <4>1. Ended("info")' = Ended("info") + 1 /\ Ended("warn")' = Ended("warn")
          BY <3>1, <3>5 DEF Channels
        <4>. QED BY <2>1, <3>2, <3>3, <4>1 DEF CountInv
      <3>. QED BY <3>4, <3>5 DEF Channels
    <2>. QED BY <2>2, <2>3
  <1>8. ASSUME closing # "closed", NEW l \in Channels PROVE ChannelInv(l)'
    <2>1. ChannelInv(l) /\ (MarkSent(l)' <=> MarkSent(l))
      BY <1>1, <1>8 DEF LogInv, MarkSent
    <2>2. CASE l # k
      <3>1. UNCHANGED <<msg[l], logged[l], writer[l], marked[l], onFile[l]>>
        BY <1>0, <1>1, <1>3, <1>4, <2>2 DEF LogTypeOK
      <3>. QED BY <2>1, <3>1, ChannelSpared
    <2>3. CASE l = k
      <3>0. writer[k] # Gone BY <1>1 DEF Gone
      <3>1. UNCHANGED <<marked[k], logged[k], onFile[k]>> /\ marked[k] \in Nat /\ logged[k] \in Nat
        BY <1>0, <1>1 DEF LogTypeOK
      <3>2. CASE MarkSent(k)
        <4>1. PICK j \in 1 .. Len(msg[k]) : msg[k][j] = Mark /\ PendingIn(k, j - 1, marked[k])
          BY <2>1, <2>3, <3>0, <3>2 DEF ChannelInv
        <4>2. CASE j = 1
          <5>1. writer'[k] = Gone BY <1>0, <1>2, <1>4, <4>1, <4>2 DEF LogTypeOK
          <5>2. \A n \in 1 .. marked[k] : OnFile(onFile[k], n)
            BY <1>1, <3>1, <4>1, <4>2 DEF PendingIn, Pending
          <5>. QED BY <2>1, <2>3, <3>1, <3>2, <5>1, <5>2 DEF ChannelInv
        <4>3. CASE j # 1
          <5>1. j - 1 \in 1 .. Len(msg[k]) BY <1>2, <4>1, <4>3
          <5>2. Head(msg[k]) > 0 /\ Pending(Tail(msg[k]), Head(msg[k]), onFile[k], j - 1 - 1, marked[k])
            BY <1>1, <3>1, <4>1, <5>1, PendingTaken DEF PendingIn
          <5>3. writer'[k] = Head(msg[k]) /\ writer'[k] # Gone
            BY <1>0, <1>2, <1>4, <5>2 DEF Mark, Gone, LogTypeOK
          <5>4. j - 1 \in 1 .. Len(msg'[k]) /\ msg'[k][j - 1] = Mark
            BY <1>2, <1>3, <4>1, <4>3
          <5>5. PendingIn(k, j - 1 - 1, marked[k])' BY <1>3, <3>1, <5>2, <5>3 DEF PendingIn
          <5>. QED BY <2>1, <2>3, <3>2, <5>3, <5>4, <5>5 DEF ChannelInv
        <4>. QED BY <4>2, <4>3
      <3>3. CASE ~MarkSent(k)
        <4>1. PendingIn(k, Len(msg[k]), logged[k]) BY <2>1, <2>3, <3>0, <3>3 DEF ChannelInv
        <4>2. Len(msg[k]) \in 1 .. Len(msg[k]) BY <1>2
        <4>3. /\ Head(msg[k]) > 0
              /\ Pending(Tail(msg[k]), Head(msg[k]), onFile[k], Len(msg[k]) - 1, logged[k])
          BY <1>1, <3>1, <4>1, <4>2, PendingTaken DEF PendingIn
        <4>4. writer'[k] = Head(msg[k]) /\ writer'[k] # Gone
          BY <1>0, <1>2, <1>4, <4>3 DEF Mark, Gone, LogTypeOK
        <4>5. PendingIn(k, Len(msg[k]), logged[k])'
          BY <1>2, <1>3, <3>1, <4>3, <4>4 DEF PendingIn
        <4>. QED BY <2>1, <2>3, <3>3, <4>4, <4>5 DEF ChannelInv
      <3>. QED BY <3>2, <3>3
    <2>. QED BY <2>2, <2>3
  <1>. QED BY <1>1, <1>5, <1>6, <1>7, <1>8 DEF LogInv, FileInv

LEMMA WritesKeep ==
    ASSUME LogInv, NEW k \in Channels, Writes(k) PROVE LogInv'
  <1>0. LogTypeOK /\ k \in LogKinds BY KindsDiffer DEF LogInv
  <1>1. /\ writer[k] \in Nat /\ writer[k] > 0 /\ Write(k, writer[k])
        /\ writer' = [writer EXCEPT ![k] = 0]
        /\ UNCHANGED <<msg, logged, hour, closing, marked, closeMsg, closeLen>>
    BY <1>0 DEF Writes, closeVars, LogTypeOK, Gone
  <1>2. /\ file' \in [LogKinds -> Int] /\ fileName' \in [LogKinds -> Int]
        /\ onFile' \in [LogKinds -> SUBSET Lines]
        /\ \A l \in LogKinds : onFile[l] \subseteq onFile'[l]
        /\ FileInv => FileInv' /\ OnFile(onFile'[k], writer[k])
    BY <1>0, <1>1, WriteWrites DEF OnFile
  <1>3. LogTypeOK' BY <1>0, <1>1, <1>2 DEF LogTypeOK
  <1>4. ClosedLogIsComplete' BY <1>0, <1>1, <1>2, CompleteStays, KindsDiffer DEF LogInv
  <1>5. ASSUME closing # "closed" PROVE CountInv' /\ \A l \in Channels : ChannelInv(l)'
    <2>1. \A l \in Channels : Ended(l)' = Ended(l) BY <1>0, <1>1 DEF Ended, LogTypeOK, Gone
    <2>2. Ended("warn")' = Ended("warn") /\ Ended("info")' = Ended("info")
      BY <2>1 DEF Channels
    <2>3. CountInv' BY <1>1, <1>5, <2>2 DEF LogInv, CountInv
    <2>4. ASSUME NEW l \in Channels PROVE ChannelInv(l)'
      <3>1. ChannelInv(l) /\ (MarkSent(l)' <=> MarkSent(l))
        BY <1>1, <1>5 DEF LogInv, MarkSent
      <3>2. CASE l # k
        <4>1. UNCHANGED <<msg[l], logged[l], writer[l], marked[l]>>
          BY <1>0, <1>1, <3>2 DEF LogTypeOK
        <4>. QED BY <1>2, <3>1, <4>1, ChannelSpared, KindsDiffer
      <3>3. CASE l = k
        <4>1. /\ writer[k] # Gone /\ writer'[k] = 0 /\ writer'[k] # Gone
              /\ onFile[k] \subseteq onFile'[k] /\ OnFile(onFile'[k], writer[k])
              /\ msg[k] \in Seq(Nat) /\ Len(msg[k]) \in Nat
              /\ marked[k] \in Nat /\ logged[k] \in Nat
          BY <1>0, <1>1, <1>2, <1>5 DEF LogInv, LogTypeOK, Gone
        <4>2. ASSUME NEW len \in Nat, NEW last \in Nat, PendingIn(k, len, last)
              PROVE  Pending(msg'[k], writer'[k], onFile'[k], len, last)
          BY <1>1, <4>1, <4>2, PendingWritten DEF PendingIn
        <4>3. CASE MarkSent(k)
          <5>1. PICK j \in 1 .. Len(msg[k]) : msg[k][j] = Mark /\ PendingIn(k, j - 1, marked[k])
            BY <3>1, <3>3, <4>1, <4>3 DEF ChannelInv
          <5>2. Pending(msg'[k], writer'[k], onFile'[k], j - 1, marked[k])
            BY <4>1, <4>2, <5>1
          <5>. QED BY <1>1, <3>1, <3>3, <4>1, <4>3, <5>1, <5>2 DEF ChannelInv, PendingIn
        <4>4. CASE ~MarkSent(k)
          <5>1. PendingIn(k, Len(msg[k]), logged[k]) BY <3>1, <3>3, <4>1, <4>4 DEF ChannelInv
          <5>2. Pending(msg'[k], writer'[k], onFile'[k], Len(msg[k]), logged[k])
            BY <4>1, <4>2, <5>1
          <5>. QED BY <1>1, <3>1, <3>3, <4>1, <4>4, <5>2 DEF ChannelInv, PendingIn
        <4>. QED BY <4>3, <4>4
      <3>. QED BY <3>2, <3>3
    <2>. QED BY <2>3, <2>4
  <1>. QED BY <1>1, <1>2, <1>3, <1>4, <1>5 DEF LogInv

LEMMA LogErrorKeeps ==
    ASSUME LogInv, LogError PROVE LogInv'
  <1>0. LogTypeOK BY DEF LogInv
  <1>1. /\ logged' = [logged EXCEPT !["error"] = logged["error"] + 1]
        /\ Write("error", logged'["error"])
        /\ UNCHANGED <<msg, writer, hour, closing, marked, closeMsg, closeLen>>
    BY DEF LogError, closeVars
  <1>2. logged' \in [LogKinds -> Nat] /\ logged'["error"] \in Nat
    BY <1>0, <1>1, KindsDiffer DEF LogTypeOK
  <1>3. /\ file' \in [LogKinds -> Int] /\ fileName' \in [LogKinds -> Int]
        /\ onFile' \in [LogKinds -> SUBSET Lines]
        /\ \A l \in LogKinds : onFile[l] \subseteq onFile'[l]
        /\ FileInv => FileInv'
    BY <1>0, <1>1, <1>2, WriteWrites, KindsDiffer
  <1>4. LogTypeOK' BY <1>0, <1>1, <1>2, <1>3 DEF LogTypeOK
  <1>5. ClosedLogIsComplete' BY <1>0, <1>1, <1>3, CompleteStays, KindsDiffer DEF LogInv
  <1>6. ASSUME closing # "closed", NEW l \in Channels PROVE ChannelInv(l)'
    <2>1. ChannelInv(l) /\ (MarkSent(l)' <=> MarkSent(l))
      BY <1>1, <1>6 DEF LogInv, MarkSent
    <2>2. UNCHANGED <<msg[l], logged[l], writer[l], marked[l]>> /\ onFile[l] \subseteq onFile'[l]
      BY <1>0, <1>1, <1>3, KindsDiffer DEF LogTypeOK
    <2>. QED BY <2>1, <2>2, ChannelSpared
  <1>. QED BY <1>1, <1>3, <1>4, <1>5, <1>6 DEF LogInv, CountInv, Ended

LEMMA SendMarkKeeps ==
    ASSUME LogInv, NEW k \in Channels, NEW to \in {"infoMarked", "waiting"},
           \/ k = "info" /\ to = "infoMarked" /\ SendMark(k, "no", to)
           \/ k = "warn" /\ to = "waiting" /\ SendMark(k, "infoMarked", to)
    PROVE  LogInv'
  <1>0. LogTypeOK /\ k \in LogKinds BY KindsDiffer DEF LogInv
  <1>1. /\ msg' = [msg EXCEPT ![k] = Append(msg[k], Mark)]
        /\ marked' = [marked EXCEPT ![k] = logged[k]] /\ closing' = to
        /\ UNCHANGED <<logged, writer, file, fileName, onFile, hour, closeMsg, closeLen>>
        /\ closing # "closed" /\ closing' # "closed"
    BY DEF SendMark, fileVars
  <1>2. /\ ~MarkSent(k) /\ MarkSent(k)' /\ \A l \in Channels \ {k} : MarkSent(l)' <=> MarkSent(l)
    BY DEF SendMark, MarkSent, Channels
  <1>3. /\ msg[k] \in Seq(Nat) /\ Len(msg[k]) \in Nat /\ logged[k] \in Nat
        /\ Append(msg[k], Mark) \in Seq(Nat) /\ Len(Append(msg[k], Mark)) = Len(msg[k]) + 1
        /\ \A i \in 1 .. Len(msg[k]) : Append(msg[k], Mark)[i] = msg[k][i]
        /\ Append(msg[k], Mark)[Len(msg[k]) + 1] = Mark
    BY <1>0 DEF LogTypeOK, Mark
  <1>4. LogTypeOK'
    <2>1. msg' \in [Channels -> Seq(Nat)] /\ marked' \in [Channels -> Nat]
      BY <1>0, <1>1, <1>3 DEF LogTypeOK
    <2>. QED BY <1>0, <1>1, <2>1 DEF LogTypeOK
  <1>5. ClosedLogIsComplete' BY <1>1 DEF ClosedLogIsComplete
  <1>6. ASSUME NEW l \in Channels PROVE ChannelInv(l)'
    <2>1. ChannelInv(l) BY <1>1 DEF LogInv
    <2>2. CASE l # k
      <3>1. UNCHANGED <<msg[l], logged[l], writer[l], marked[l], onFile[l]>>
        BY <1>0, <1>1, <2>2 DEF LogTypeOK
      <3>. QED BY <1>2, <2>1, <2>2, <3>1, ChannelSpared
    <2>3. CASE l = k
      <3>1. writer[k] # Gone /\ PendingIn(k, Len(msg[k]), logged[k])
        BY <1>2, <2>1, <2>3 DEF ChannelInv
      <3>2. msg'[k] = Append(msg[k], Mark) /\ marked'[k] = logged[k]
        BY <1>0, <1>1 DEF LogTypeOK
      <3>3. Pending(msg'[k], writer[k], onFile[k], Len(msg[k]), logged[k])
        BY <1>3, <3>1, <3>2, PendingSpared DEF PendingIn
      <3>4. PICK j \in 1 .. Len(msg'[k]) : msg'[k][j] = Mark /\ j - 1 = Len(msg[k])
        BY <1>3, <3>2
      <3>5. PendingIn(k, j - 1, marked[k])' BY <1>1, <3>2, <3>3, <3>4 DEF PendingIn
      <3>. QED BY <1>1, <1>2, <2>3, <3>1, <3>4, <3>5 DEF ChannelInv
    <2>. QED BY <2>2, <2>3
  <1>. QED BY <1>1, <1>4, <1>5, <1>6 DEF LogInv, FileInv, CountInv, Ended

LEMMA CloseTurnKeeps ==
    ASSUME LogInv, CloseTurn PROVE LogInv'
  <1>0. LogTypeOK BY DEF LogInv
  <1>1. /\ closing = "waiting"
        /\ UNCHANGED <<msg, logged, writer, file, fileName, onFile, hour, closing, marked>>
        /\ closeMsg' \in Nat /\ closeLen' \in Nat /\ closeMsg' + closeLen' = closeMsg + closeLen
    <2>1. closeMsg \in Nat /\ closeLen \in Nat BY <1>0 DEF LogTypeOK
    <2>2. \/ closeMsg > 0 /\ closeMsg' = closeMsg - 1 /\ closeLen' = closeLen + 1
          \/ closeMsg' = closeMsg /\ closeLen' = closeLen
      BY DEF CloseTurn
    <2>3. closeMsg' \in Nat /\ closeLen' \in Nat /\ closeMsg' + closeLen' = closeMsg + closeLen
      BY <2>1, <2>2
    <2>. QED BY <2>3 DEF CloseTurn, fileVars
  <1>2. \A l \in Channels : ChannelInv(l)'
    BY <1>1, ChannelSpared DEF LogInv, MarkSent
  <1>. QED
    BY <1>0, <1>1, <1>2 DEF LogInv, LogTypeOK, FileInv, CountInv, Ended, ClosedLogIsComplete

\* Who has heard of both writers knows that both have written their part.
LEMMA CloseFilesKeeps ==
    ASSUME LogInv, CloseFiles PROVE LogInv'
  <1>0. LogTypeOK BY DEF LogInv
  <1>1. /\ closing = "waiting" /\ closing' = "closed"
        /\ file' = [k \in LogKinds |-> IF file[k] = Unopened THEN Unopened ELSE Shut]
        /\ UNCHANGED <<msg, logged, writer, fileName, onFile, hour, marked, closeMsg, closeLen>>
    BY DEF CloseFiles
  <1>2. LogTypeOK' BY <1>0, <1>1 DEF LogTypeOK, Unopened, Shut
  <1>3. ASSUME closeLen = 2, NEW k \in Channels, NEW n \in 1 .. marked[k]
        PROVE  OnFile(onFile[k], n)
    <2>1. closeMsg + closeLen = Ended("warn") + Ended("info") /\ ChannelInv(k)
      BY <1>1 DEF LogInv, CountInv
    <2>2. /\ closeMsg \in Nat
          /\ Ended("warn") \in {0, 1} /\ Ended("info") \in {0, 1}
      BY <1>0 DEF Ended, LogTypeOK
    <2>3. Ended("warn") = 1 /\ Ended("info") = 1 BY <1>3, <2>1, <2>2
    <2>4. writer[k] = Gone BY <2>3 DEF Ended, Channels
    <2>. QED BY <1>3, <2>1, <2>4 DEF ChannelInv
  <1>4. ClosedLogIsComplete' BY <1>1, <1>3 DEF ClosedLogIsComplete, OnFile
  <1>. QED BY <1>1, <1>2, <1>4 DEF LogInv

\* Of each channel the messages that wait, the one its writer holds and those in
\* the files are all that were sent, up to the mark of Close if it was sent; the
\* file that is open is that of the hour (log.go).
THEOREM LogInvariant == LogSpec => []LogInv
  <1>1. LogInit => LogInv BY LogStarts
  <1>2. LogInv /\ [LogNext]_logVars => LogInv'
    <2>. SUFFICES ASSUME LogInv, [LogNext]_logVars PROVE LogInv' OBVIOUS
    <2>1. CASE Warning \/ Notice
      BY <2>1, EnqueueKeeps DEF Warning, Notice, Channels
    <2>2. CASE WarnRun \/ InfoRun
      BY <2>2, TakeKeeps, WritesKeep DEF WarnRun, InfoRun, Channels
    <2>3. CASE HourStrikes \/ UNCHANGED logVars
      <3>1. /\ UNCHANGED <<msg, logged, writer, file, fileName, onFile, closing, marked,
                          closeMsg, closeLen>>
            /\ hour' \in Nat
        BY <2>3 DEF HourStrikes, logVars, fileVars, closeVars, LogInv, LogTypeOK
      <3>2. ASSUME closing # "closed" PROVE \A l \in Channels : ChannelInv(l)'
        BY <3>1, <3>2, ChannelSpared DEF LogInv, MarkSent
      <3>. QED
        BY <3>1, <3>2 DEF LogInv, LogTypeOK, FileInv, CountInv, Ended, ClosedLogIsComplete
    <2>4. CASE CloseLog
      <3>1. CASE SendMark("info", "no", "infoMarked") BY <3>1, SendMarkKeeps DEF Channels
      <3>2. CASE SendMark("warn", "infoMarked", "waiting") BY <3>2, SendMarkKeeps DEF Channels
      <3>. QED BY <2>4, <3>1, <3>2, CloseTurnKeeps, CloseFilesKeeps DEF CloseLog
    <2>. QED BY <2>1, <2>2, <2>3, <2>4, LogErrorKeeps DEF LogNext
  <1>. QED BY <1>1, <1>2, PTL DEF LogSpec

\* When Close has heard of both writers the files hold every message sent
\* before its marks, each in the file of its hour, for any number of messages
\* and any length of the channels (log.go).
THEOREM LogClosesComplete == LogSpec => []ClosedLogIsComplete
  BY LogInvariant, PTL DEF LogInv

-----------------------------------------------------------------------------
(* The configuration.                                                      *)

Files   == {"first", "second", "inc"}
Entries == {"default", "s"} \X {"k"}
Texts   == {"1", "2", "3", "4", "5"}
Datas   == UNION {[D -> Texts] : D \in SUBSET Entries}
Frames  == [file : Files, at : Nat \ {0}, section : {"default", "s"}, data : Datas]
AllLines == FirstLines \cup IncLines \cup {Missing[1], Set("k", "", "5")}

ConfTypeOK ==
    /\ disk \in [Files -> Seq(AllLines)]
    /\ tried \in 0 .. 2 /\ conf \in {"none", "panic", "overflow", "loaded"}
    /\ frames \in Seq(Frames)

\* The places that give a value in the lines before line n.
PlacesTo(f, n, at) == {p \in Places(f, at) : p[1] < n}

\* A value is the text of the last of some places, if there are any.
IsLast(data, f, places, at) ==
    IF places = {} THEN at \notin DOMAIN data
    ELSE at \in DOMAIN data /\ \E p \in places :
            (\A q \in places : After(p, q)) /\ data[at] = Text(f, p)

\* What a file looked like that has been read to the end, within another one.
IncParses == LineKinds("inc") \cap {"broken", "missing", "include"} = {}

KindsTo(f, n) == {disk[f][m].kind : m \in 1 .. n - 1}

\* A parseData has read the lines before its line, and an included file none
\* that includes: it would never have come back from there.
FrameInv(frame) ==
    /\ frame.at <= Len(disk[frame.file]) + 1
    /\ KindsTo(frame.file, frame.at) \cap {"broken", "missing"} = {}
    /\ "include" \in KindsTo(frame.file, frame.at) => frame.file # "inc" /\ IncParses
    /\ frame.section = SectionOf(frame.file, frame.at)
    /\ \A at \in Entries : IsLast(frame.data, frame.file, PlacesTo(frame.file, frame.at, at), at)

GoodFrames == {frame \in Frames : FrameInv(frame)}

\* The outermost file is the candidate, the others are included one in another.
StackInv ==
    \A i \in 1 .. Len(frames) :
        /\ frames[i].file = IF i = Len(frames) THEN Candidates[tried] ELSE "inc"
        /\ i > 1 => /\ frames[i].at <= Len(disk[frames[i].file])
                    /\ disk[frames[i].file][frames[i].at].kind = "include"

Failing == {f \in Files : ~Parses(f)}

AttemptInv ==
    /\ frames # << >> => tried > 0
    /\ \A t \in 1 .. tried - 1 : Candidates[t] \in Failing
    /\ conf = "none" /\ frames = << >> /\ tried > 0 => Candidates[tried] \in Failing

ConfigInv ==
    /\ ConfTypeOK /\ frames \in Seq(GoodFrames)
    /\ StackInv /\ AttemptInv /\ LastWins

LEMMA LineFacts ==
  ASSUME NEW l \in AllLines
  PROVE  /\ l.kind \in {"section", "set", "include", "broken", "missing"}
         /\ l.kind = "section" => Lower(l.name) = "s"
         /\ l.kind = "set" => Lower(l.key) = "k" /\ Expand(l) \in Texts
         /\ l.kind = "include" => Lower(l.file) = "inc"
<1>1. AllLines = {Section("S"), Section("s"), Set("k", "", "1"), Set("K", "SET", "2"),
                  Set("k", "UNSET", "4"), Set("k", "", "5"), Include("INC"), Include("inc"),
                  Broken, [kind |-> "missing"]}
  BY DEF AllLines, FirstLines, IncLines, Missing
<1>2. CASE l \in {Section("S"), Section("s")}
  BY <1>2 DEF Section, Lower
<1>3. CASE l \in {Set("k", "", "1"), Set("K", "SET", "2"), Set("k", "UNSET", "4"), Set("k", "", "5")}
  <2>2. Env["SET"] = "3" /\ Env["UNSET"] = ""
    BY DEF Env
  <2>3. /\ l.kind = "set" /\ l.key \in {"k", "K"}
        /\ l.env \in {"", "SET", "UNSET"} /\ l.text \in Texts
    <3>1. CASE l = Set("k", "", "1")
      BY <3>1 DEF Set, Texts
    <3>2. CASE l = Set("K", "SET", "2")
      BY <3>2 DEF Set, Texts
    <3>3. CASE l = Set("k", "UNSET", "4")
      BY <3>3 DEF Set, Texts
    <3>4. CASE l = Set("k", "", "5")
      BY <3>4 DEF Set, Texts
    <3> QED BY <1>3, <3>1, <3>2, <3>3, <3>4
  <2> HIDE DEF Env
  <2>4. Lower(l.key) = "k"
    BY <2>3 DEF Lower
  <2>5. Expand(l) \in Texts
    BY <2>2, <2>3 DEF Expand, Texts
  <2> QED BY <2>3, <2>4, <2>5
<1>4. CASE l \in {Include("INC"), Include("inc")}
  BY <1>4 DEF Include, Lower
<1>5. CASE l \in {Broken, [kind |-> "missing"]}
  BY <1>5 DEF Broken
<1> QED BY <1>1, <1>2, <1>3, <1>4, <1>5

LEMMA DiskIsTyped == ConfigInit => disk \in [Files -> Seq(AllLines)]
<1> SUFFICES ASSUME ConfigInit PROVE disk \in [Files -> Seq(AllLines)]
  OBVIOUS
<1>0. \A l \in AllLines : << l >> \in Seq(AllLines)
  OBVIOUS
<1>1. ASSUME NEW L \in SUBSET AllLines, NEW n \in Nat, NEW c \in Contents(L, n)
      PROVE  c \in Seq(AllLines)
  <2>1. CASE c = Missing
    <3>1. Missing[1] \in AllLines /\ Missing = << Missing[1] >>
      BY DEF Missing, AllLines
    <3> QED BY <1>0, <2>1, <3>1
  <2>2. CASE c # Missing
    <3>1. PICK m \in 0 .. n : c \in [1 .. m -> L]
      <4>1. c \in UNION {[1 .. m -> L] : m \in 0 .. n}
        BY <2>2 DEF Contents
      <4>2. PICK T \in {[1 .. m -> L] : m \in 0 .. n} : c \in T
        BY <4>1
      <4> QED BY <4>2
    <3> QED BY <3>1
  <2> QED BY <2>1, <2>2
<1>2. /\ Contents(FirstLines, MaxLines) \subseteq Seq(AllLines)
      /\ Contents(IncLines, MaxInc) \subseteq Seq(AllLines)
  BY <1>1, ConfigAssumption DEF AllLines
<1>3. {Missing, << Set("k", "", "5") >>} \subseteq Seq(AllLines)
  BY DEF Missing, AllLines
<1> QED BY <1>2, <1>3 DEF ConfigInit, Files

\* What lies at the place where a frame reads.
LEMMA PlaceIsTyped ==
  ASSUME ConfTypeOK, NEW f \in Files
  PROVE  /\ disk[f] \in Seq(AllLines) /\ Len(disk[f]) \in Nat
         /\ \A n \in 1 .. Len(disk[f]) : disk[f][n] \in AllLines
         /\ disk.inc = disk["inc"]
BY DEF ConfTypeOK

LEMMA SectionOfNext ==
  ASSUME NEW f, NEW n \in Nat \ {0}
  PROVE  SectionOf(f, n + 1) =
            IF disk[f][n].kind = "section" THEN Lower(disk[f][n].name) ELSE SectionOf(f, n)
<1> DEFINE starts(k) == {m \in 1 .. k - 1 : disk[f][m].kind = "section"}
           last(S) == CHOOSE m \in S : \A o \in S : o <= m
<1>0. \A k : SectionOf(f, k) = IF starts(k) = {} THEN "default"
                               ELSE Lower(disk[f][last(starts(k))].name)
  BY DEF SectionOf
<1>1. CASE disk[f][n].kind = "section"
  <2>1. n \in starts(n + 1) /\ \A o \in starts(n + 1) : o <= n
    BY <1>1
  <2>2. last(starts(n + 1)) = n
    BY <2>1
  <2> HIDE DEF last, starts
  <2> QED BY <1>0, <1>1, <2>1, <2>2
<1>2. CASE disk[f][n].kind # "section"
  <2>1. starts(n + 1) = starts(n)
    BY <1>2
  <2> HIDE DEF last, starts
  <2> QED BY <1>0, <1>2, <2>1
<1> QED BY <1>1, <1>2

LEMMA SectionOfFirst == ASSUME NEW f PROVE SectionOf(f, 1) = "default"
BY DEF SectionOf

LEMMA KindsNext ==
  ASSUME NEW f, NEW n \in Nat \ {0}
  PROVE  KindsTo(f, n + 1) = KindsTo(f, n) \cup {disk[f][n].kind}
BY DEF KindsTo

LEMMA PlacesAreTyped ==
  ASSUME ConfTypeOK, NEW f \in Files, NEW at, NEW p \in Places(f, at)
  PROVE  p = <<p[1], p[2]>> /\ p[1] \in Nat \ {0} /\ p[2] \in Nat /\ p[1] <= Len(disk[f])
BY PlaceIsTyped DEF Places, Files

\* The places of line n.
LEMMA PlacesNext ==
  ASSUME ConfTypeOK, NEW f \in Files, NEW n \in 1 .. Len(disk[f]), NEW at
  PROVE  /\ disk[f][n].kind \notin {"set", "include"} => PlacesTo(f, n + 1, at) = PlacesTo(f, n, at)
         /\ disk[f][n].kind = "set" =>
              PlacesTo(f, n + 1, at) =
                PlacesTo(f, n, at) \cup (IF Sets(f, n, at) THEN {<<n, 0>>} ELSE {})
         /\ disk[f][n].kind = "include" =>
              PlacesTo(f, n + 1, at) =
                PlacesTo(f, n, at) \cup {<<n, k>> : k \in {m \in 1 .. Len(disk.inc) : Sets("inc", m, at)}}
<1>1. PlacesTo(f, n + 1, at) = PlacesTo(f, n, at) \cup {p \in Places(f, at) : p[1] = n}
  <2>1. \A p \in Places(f, at) : p[1] \in Nat
    BY PlacesAreTyped
  <2>2. n \in Nat
    BY PlaceIsTyped
  <2> QED BY <2>1, <2>2 DEF PlacesTo
<1>2. ASSUME NEW p \in Places(f, at), p[1] = n
      PROVE  \/ disk[f][n].kind = "set" /\ Sets(f, n, at) /\ p = <<n, 0>>
             \/ /\ disk[f][n].kind = "include"
                /\ \E k \in {m \in 1 .. Len(disk.inc) : Sets("inc", m, at)} : p = <<n, k>>
  BY <1>2 DEF Places, Sets
<1>3. disk[f][n].kind = "set" /\ Sets(f, n, at) => <<n, 0>> \in Places(f, at)
  BY DEF Places
<1>4. ASSUME disk[f][n].kind = "include", NEW k \in 1 .. Len(disk.inc), Sets("inc", k, at)
      PROVE  <<n, k>> \in Places(f, at)
  BY <1>4 DEF Places
<1> QED BY <1>1, <1>2, <1>3, <1>4

LEMMA DiskStays ==
  ASSUME disk' = disk
  PROVE  GoodFrames' = GoodFrames /\ Failing' = Failing
BY DEF GoodFrames, Failing, FrameInv, KindsTo, IncParses, LineKinds, PlacesTo, Places, Sets,
       SectionOf, IsLast, Text, Expand, Parses

\* A frame at work: its line.
LEMMA TopIsGood ==
  ASSUME ConfigInv, frames # << >>
  PROVE  /\ Top \in GoodFrames /\ Top \in Frames /\ Top.file \in Files /\ FrameInv(Top)
         /\ Top = frames[1] /\ Len(frames) \in Nat \ {0} /\ Top.at \in Nat \ {0}
         /\ More => Top.at \in 1 .. Len(disk[Top.file]) /\ Line \in AllLines
<1>1. Top = frames[1] /\ Len(frames) \in Nat \ {0} /\ Top \in GoodFrames
  BY DEF ConfigInv, Top
<1>2. Top \in Frames /\ FrameInv(Top) /\ Top.file \in Files /\ Top.at \in Nat \ {0}
  BY <1>1 DEF GoodFrames, Frames
<1>3. More => Top.at \in 1 .. Len(disk[Top.file]) /\ Line \in AllLines
  BY <1>2, PlaceIsTyped DEF More, Line, ConfigInv
<1> QED BY <1>1, <1>2, <1>3

LEMMA MergedTyped ==
  ASSUME NEW old \in Datas, NEW new \in Datas
  PROVE  /\ Merged(old, new) \in Datas /\ DOMAIN Merged(old, new) = DOMAIN old \cup DOMAIN new
         /\ \A at \in DOMAIN new : Merged(old, new)[at] = new[at]
         /\ \A at \in DOMAIN old \ DOMAIN new : Merged(old, new)[at] = old[at]
<1>1. \A d \in Datas : DOMAIN d \in SUBSET Entries /\ \A at \in DOMAIN d : d[at] \in Texts
  BY DEF Datas
<1>2. Merged(old, new) \in [DOMAIN old \cup DOMAIN new -> Texts]
  BY <1>1 DEF Merged
<1>3. DOMAIN old \cup DOMAIN new \in SUBSET Entries
  BY <1>1
<1> QED BY <1>2, <1>3 DEF Merged, Datas

LEMMA NoDataTyped == NoData \in Datas /\ DOMAIN NoData = {}
<1>1. NoData \in [{} -> Texts] /\ DOMAIN NoData = {}
  BY DEF NoData
<1> QED BY <1>1 DEF Datas

\* The file of the top frame is read on: by one line, with what it says.
LEMMA LineKeeps ==
  ASSUME ConfigInv, frames # << >>, conf = "none", UNCHANGED <<disk, tried, conf, loaded>>,
         NEW frame \in GoodFrames, frame.file = Top.file,
         frames' = << frame >> \o Tail(frames)
  PROVE  ConfigInv'
<1>1. /\ frames' \in Seq(GoodFrames) /\ frames' # << >> /\ Len(frames') = Len(frames)
      /\ frames'[1] = frame /\ \A i \in 2 .. Len(frames) : frames'[i] = frames[i]
  <2>1. frames \in Seq(GoodFrames)
    BY DEF ConfigInv
  <2> QED BY <2>1
<1>2. GoodFrames' = GoodFrames /\ Failing' = Failing
  BY DiskStays
<1>3. ConfTypeOK'
  BY <1>1 DEF ConfigInv, ConfTypeOK, GoodFrames
<1>4. StackInv'
  <2>1. \A i \in 1 .. Len(frames') : /\ i \in 1 .. Len(frames) /\ frames'[i].file = frames[i].file
                                     /\ i > 1 => frames'[i] = frames[i]
    <3>1. Len(frames) \in Nat \ {0} /\ Top = frames[1]
      BY TopIsGood
    <3> SUFFICES ASSUME NEW i \in 1 .. Len(frames')
                 PROVE  /\ i \in 1 .. Len(frames) /\ frames'[i].file = frames[i].file
                        /\ i > 1 => frames'[i] = frames[i]
      OBVIOUS
    <3>2. i \in 1 .. Len(frames) /\ (i = 1 \/ i \in 2 .. Len(frames))
      BY <1>1, <3>1
    <3> QED BY <1>1, <3>1, <3>2
  <2>2. disk' = disk /\ tried' = tried /\ Len(frames') = Len(frames) /\ StackInv
    BY <1>1 DEF ConfigInv
  <2>3. ASSUME NEW i \in 1 .. Len(frames')
        PROVE  /\ frames'[i].file = IF i = Len(frames') THEN Candidates[tried'] ELSE "inc"
               /\ i > 1 => /\ frames'[i].at <= Len(disk'[frames'[i].file])
                           /\ disk'[frames'[i].file][frames'[i].at].kind = "include"
    <3>1. /\ i \in 1 .. Len(frames) /\ frames'[i].file = frames[i].file
          /\ i > 1 => frames'[i] = frames[i]
      BY <2>1
    <3>2. /\ frames[i].file = IF i = Len(frames) THEN Candidates[tried] ELSE "inc"
          /\ i > 1 => /\ frames[i].at <= Len(disk[frames[i].file])
                      /\ disk[frames[i].file][frames[i].at].kind = "include"
      BY <2>2, <3>1 DEF StackInv
    <3> QED BY <2>2, <3>1, <3>2
  <2> QED BY <2>3 DEF StackInv
<1>5. AttemptInv' /\ LastWins'
  BY <1>1, <1>2 DEF ConfigInv, AttemptInv, LastWins
<1> QED BY <1>1, <1>2, <1>3, <1>4, <1>5 DEF ConfigInv

\* A frame that goes on to the next line, in another section or with other data.
InSection(frame, s) == [[frame EXCEPT !.section = s] EXCEPT !.at = @ + 1]
WithData(frame, d)  == [[frame EXCEPT !.data = d] EXCEPT !.at = @ + 1]
Including(frame, d) == [frame EXCEPT !.at = @ + 1, !.data = d]

LEMMA FrameGoesOn ==
  ASSUME NEW frame \in Frames, NEW s \in {"default", "s"}, NEW d \in Datas
  PROVE  /\ LET next == InSection(frame, s)
            IN  /\ next \in Frames /\ next.file = frame.file /\ next.at = frame.at + 1
                /\ next.section = s /\ next.data = frame.data
         /\ \A next \in {WithData(frame, d), Including(frame, d)} :
                /\ next \in Frames /\ next.file = frame.file /\ next.at = frame.at + 1
                /\ next.section = frame.section /\ next.data = d
<1>1. ASSUME NEW r \in Frames, NEW n \in Nat \ {0} PROVE [r EXCEPT !.at = n] \in Frames
  BY DEF Frames
<1>2. ASSUME NEW r \in Frames PROVE r.at + 1 \in Nat \ {0}
  BY DEF Frames
<1>3. ASSUME NEW r \in Frames PROVE [r EXCEPT !.at = @ + 1] \in Frames
  BY <1>1, <1>2
<1>4. [frame EXCEPT !.section = s] \in Frames /\ [frame EXCEPT !.data = d] \in Frames
  BY DEF Frames
<1>5. ASSUME NEW n \in Nat \ {0} PROVE [frame EXCEPT !.at = n, !.data = d] \in Frames
  BY DEF Frames
<1>6. /\ InSection(frame, s) \in Frames /\ WithData(frame, d) \in Frames
      /\ Including(frame, d) \in Frames
  BY <1>2, <1>3, <1>4, <1>5 DEF InSection, WithData, Including
<1>7. LET next == InSection(frame, s)
      IN  /\ next.file = frame.file /\ next.at = frame.at + 1
          /\ next.section = s /\ next.data = frame.data
  BY DEF Frames, InSection
<1>8. LET next == WithData(frame, d)
      IN  /\ next.file = frame.file /\ next.at = frame.at + 1
          /\ next.section = frame.section /\ next.data = d
  BY DEF Frames, WithData
<1>9. LET next == Including(frame, d)
      IN  /\ next.file = frame.file /\ next.at = frame.at + 1
          /\ next.section = frame.section /\ next.data = d
  BY DEF Frames, Including
<1> QED BY <1>6, <1>7, <1>8, <1>9

LEMMA SectionKeeps ==
  ASSUME ConfigInv, ReadSection
  PROVE  ConfigInv'
<1> DEFINE f == Top.file
           n == Top.at
           frame == InSection(Top, Lower(Line.name))
<1>1. /\ frames # << >> /\ conf = "none" /\ UNCHANGED <<disk, tried, conf, loaded>>
      /\ frames' = << frame >> \o Tail(frames) /\ disk[f][n].kind = "section" /\ More
  BY DEF ReadSection, More, Goes, Line, InSection
<1>2. f \in Files /\ n \in 1 .. Len(disk[f]) /\ n \in Nat \ {0} /\ Line \in AllLines
  BY <1>1, TopIsGood
<1>3. /\ frame.file = f /\ frame.at = n + 1 /\ frame.section = Lower(disk[f][n].name)
      /\ frame.data = Top.data /\ frame \in Frames
  <2>1. Lower(Line.name) \in {"default", "s"}
    BY <1>1, <1>2, LineFacts DEF Line
  <2>2. Top \in Frames
    BY <1>1, TopIsGood
  <2>3. Top.data \in Datas
    BY <2>2 DEF Frames
  <2>4. /\ frame.file = f /\ frame.at = n + 1 /\ frame.section = Lower(Line.name)
        /\ frame.data = Top.data /\ frame \in Frames
    BY <2>1, <2>2, <2>3, FrameGoesOn
  <2> QED BY <2>4 DEF Line
<1>4. FrameInv(frame)
  <2>1. FrameInv(Top)
    BY <1>1, TopIsGood
  <2>2. KindsTo(f, n + 1) = KindsTo(f, n) \cup {"section"}
    BY <1>1, <1>2, KindsNext
  <2>3. frame.section = SectionOf(f, n + 1)
    BY <1>1, <1>2, <1>3, SectionOfNext
  <2>4. \A at \in Entries : PlacesTo(f, n + 1, at) = PlacesTo(f, n, at)
    BY <1>1, <1>2, PlacesNext DEF ConfigInv
  <2>5. n + 1 <= Len(disk[f]) + 1
    BY <1>2, PlaceIsTyped DEF ConfigInv
  <2> HIDE DEF frame
  <2> QED BY <1>3, <2>1, <2>2, <2>3, <2>4, <2>5 DEF FrameInv, IsLast
<1> HIDE DEF frame
<1> QED BY <1>1, <1>3, <1>4, LineKeeps DEF GoodFrames

\* A line that sets a value is the last place of its section and key so far.
LEMMA SetKeeps ==
  ASSUME ConfigInv, ReadSet
  PROVE  ConfigInv'
<1> DEFINE f == Top.file
           n == Top.at
           key == <<Top.section, Lower(Line.key)>>
           new == [a \in {key} |-> Expand(Line)]
           frame == WithData(Top, Merged(Top.data, new))
<1>1. /\ frames # << >> /\ conf = "none" /\ UNCHANGED <<disk, tried, conf, loaded>>
      /\ frames' = << frame >> \o Tail(frames) /\ disk[f][n].kind = "set" /\ More
  BY DEF ReadSet, More, Goes, Line, WithData
<1>2. f \in Files /\ n \in 1 .. Len(disk[f]) /\ n \in Nat \ {0} /\ Line \in AllLines
  BY <1>1, TopIsGood
<1>3. /\ Top \in Frames /\ Top.data \in Datas /\ Top.section \in {"default", "s"}
      /\ FrameInv(Top)
  BY <1>1, TopIsGood DEF Frames
<1>4. key \in Entries /\ Expand(Line) \in Texts
  BY <1>1, <1>2, <1>3, LineFacts DEF Entries, Line
<1>5. new \in Datas /\ DOMAIN new = {key} /\ new[key] = Expand(Line)
  <2>1. new \in [{key} -> Texts] /\ {key} \in SUBSET Entries
    BY <1>4
  <2> QED BY <2>1 DEF Datas
<1> HIDE DEF new
<1>6. /\ Merged(Top.data, new) \in Datas
      /\ DOMAIN Merged(Top.data, new) = DOMAIN Top.data \cup {key}
      /\ Merged(Top.data, new)[key] = Expand(Line)
      /\ \A at \in DOMAIN Top.data \ {key} : Merged(Top.data, new)[at] = Top.data[at]
  <2>1. Top.data \in Datas /\ new \in Datas
    BY <1>3, <1>5
  <2>2. /\ Merged(Top.data, new) \in Datas
        /\ DOMAIN Merged(Top.data, new) = DOMAIN Top.data \cup DOMAIN new
        /\ \A at \in DOMAIN new : Merged(Top.data, new)[at] = new[at]
        /\ \A at \in DOMAIN Top.data \ DOMAIN new : Merged(Top.data, new)[at] = Top.data[at]
    BY ONLY <2>1, MergedTyped
  <2> HIDE DEF key
  <2> QED BY <1>5, <2>2
<1>7. /\ frame.file = f /\ frame.at = n + 1 /\ frame.section = Top.section
      /\ frame.data = Merged(Top.data, new) /\ frame \in Frames
  BY <1>3, <1>6, FrameGoesOn
<1> HIDE DEF frame
<1>8. FrameInv(frame)
  <2>1. KindsTo(f, n + 1) = KindsTo(f, n) \cup {"set"}
    BY <1>1, <1>2, KindsNext
  <2>2. frame.section = SectionOf(f, n + 1) /\ Top.section = SectionOf(f, n)
    BY <1>1, <1>2, <1>3, <1>7, SectionOfNext DEF FrameInv
  <2>3. n + 1 <= Len(disk[f]) + 1
    BY <1>2, PlaceIsTyped DEF ConfigInv
  <2>4. ASSUME NEW at \in Entries
        PROVE  IsLast(frame.data, f, PlacesTo(f, n + 1, at), at)
    <3>1. /\ PlacesTo(f, n + 1, at) = PlacesTo(f, n, at) \cup (IF Sets(f, n, at) THEN {<<n, 0>>} ELSE {})
          /\ Sets(f, n, at) <=> at = key
      BY <1>1, <1>2, <2>2, PlacesNext DEF ConfigInv, Sets, Line
    <3>2. IsLast(Top.data, f, PlacesTo(f, n, at), at)
      BY <1>3 DEF FrameInv
    <3>3. CASE at # key
      BY <1>6, <1>7, <3>1, <3>2, <3>3 DEF IsLast
    <3>4. CASE at = key
      <4>1. \A q \in PlacesTo(f, n, at) : After(<<n, 0>>, q)
        BY <1>2, PlacesAreTyped DEF PlacesTo, After, ConfigInv
      <4>2. After(<<n, 0>>, <<n, 0>>)
        BY <1>2 DEF After
      <4>3. Text(f, <<n, 0>>) = Expand(Line)
        BY DEF Text, Line
      <4>4. at \in DOMAIN frame.data /\ frame.data[at] = Text(f, <<n, 0>>)
        BY <1>6, <1>7, <3>4, <4>3
      <4> HIDE DEF key
      <4> QED BY <3>1, <3>4, <4>1, <4>2, <4>4 DEF IsLast
    <3> QED BY <3>3, <3>4
  <2> QED BY <1>3, <1>7, <2>1, <2>2, <2>3, <2>4 DEF FrameInv
<1> QED BY <1>1, <1>7, <1>8, LineKeeps DEF GoodFrames

\* An included file is read from its start.
LEMMA NewFrame ==
  ASSUME ConfTypeOK, NEW f \in Files
  PROVE  Frame(f) \in GoodFrames /\ Frame(f).file = f
<1>1. /\ Frame(f).file = f /\ Frame(f).at = 1 /\ Frame(f).section = "default"
      /\ Frame(f).data = NoData /\ Frame(f) \in Frames
  BY NoDataTyped DEF Frame, Frames
<1>2. KindsTo(f, 1) = {} /\ Len(disk[f]) \in Nat
  BY PlaceIsTyped DEF KindsTo
<1>3. ASSUME NEW at PROVE PlacesTo(f, 1, at) = {}
  BY PlacesAreTyped DEF PlacesTo
<1>4. FrameInv(Frame(f))
  BY <1>1, <1>2, <1>3, SectionOfFirst, NoDataTyped DEF FrameInv, IsLast
<1> QED BY <1>1, <1>4 DEF GoodFrames

LEMMA IncludeKeeps ==
  ASSUME ConfigInv, ReadInclude
  PROVE  ConfigInv'
<1>1. /\ frames # << >> /\ conf = "none" /\ UNCHANGED <<disk, tried, loaded>> /\ More
      /\ Line.kind = "include"
  BY DEF ReadInclude, More
<1>2. GoodFrames' = GoodFrames /\ Failing' = Failing
  BY <1>1, DiskStays
<1>3. CASE conf' = "overflow" /\ UNCHANGED frames
  <2>1. ConfTypeOK' /\ StackInv'
    BY <1>1, <1>3 DEF ConfigInv, ConfTypeOK, StackInv
  <2>2. AttemptInv' /\ LastWins' /\ frames' \in Seq(GoodFrames')
    BY <1>1, <1>2, <1>3 DEF ConfigInv, AttemptInv, LastWins
  <2> QED BY <2>1, <2>2 DEF ConfigInv
<1>4. CASE frames' = << Frame(Lower(Line.file)) >> \o frames /\ conf' = conf
  <2>1. Lower(Line.file) = "inc" /\ Line \in AllLines
    BY <1>1, TopIsGood, LineFacts
  <2>2. Frame("inc") \in GoodFrames /\ Frame("inc").file = "inc"
    BY NewFrame DEF ConfigInv, Files
  <2>3. frames \in Seq(GoodFrames) /\ Len(frames) \in Nat \ {0}
    BY <1>1 DEF ConfigInv
  <2>4. /\ frames' \in Seq(GoodFrames) /\ frames' # << >> /\ Len(frames') = Len(frames) + 1
        /\ frames'[1] = Frame("inc") /\ \A i \in 1 .. Len(frames) : frames'[i + 1] = frames[i]
    BY <1>4, <2>1, <2>2, <2>3
  <2>5. ConfTypeOK'
    BY <1>1, <1>4, <2>4 DEF ConfigInv, ConfTypeOK, GoodFrames
  <2>6. StackInv'
    <3> SUFFICES ASSUME NEW i \in 1 .. Len(frames')
                 PROVE  /\ frames'[i].file = IF i = Len(frames') THEN Candidates[tried] ELSE "inc"
                        /\ i > 1 => /\ frames'[i].at <= Len(disk[frames'[i].file])
                                    /\ disk[frames'[i].file][frames'[i].at].kind = "include"
      BY <1>1 DEF StackInv
    <3>1. CASE i = 1
      BY <2>2, <2>3, <2>4, <3>1
    <3>2. CASE i # 1
      <4>1. i - 1 \in 1 .. Len(frames) /\ frames'[i] = frames[i - 1]
        BY <2>3, <2>4, <3>2
      <4>2. CASE i = 2
        BY <1>1, <2>3, <2>4, <4>1, <4>2, TopIsGood DEF ConfigInv, StackInv, More, Line
      <4>3. CASE i # 2
        BY <2>3, <2>4, <3>2, <4>1, <4>3 DEF ConfigInv, StackInv
      <4> QED BY <4>2, <4>3
    <3> QED BY <3>1, <3>2
  <2>7. AttemptInv' /\ LastWins'
    BY <1>1, <1>2, <1>4, <2>4 DEF ConfigInv, AttemptInv, LastWins
  <2> QED BY <1>2, <2>4, <2>5, <2>6, <2>7 DEF ConfigInv
<1> QED BY <1>3, <1>4 DEF ReadInclude

\* An error leaves a candidate that does not parse.
LEMMA FailsKeeps ==
  ASSUME ConfigInv, ReadFails
  PROVE  ConfigInv'
<1>1. /\ frames # << >> /\ conf = "none" /\ UNCHANGED <<disk, tried, conf, loaded>> /\ More
      /\ Line.kind \in {"broken", "missing"} /\ frames' = << >>
  BY DEF ReadFails, More
<1>2. GoodFrames' = GoodFrames /\ Failing' = Failing
  BY <1>1, DiskStays
<1>3. /\ Len(frames) \in Nat \ {0} /\ Top = frames[1] /\ Top.file \in Files
      /\ Top.at \in 1 .. Len(disk[Top.file])
  BY <1>1, TopIsGood
<1>4. LineKinds(Top.file) \cap {"broken", "missing"} # {}
  BY <1>1, <1>3 DEF LineKinds, Line
<1>5. Candidates[tried] \in Failing
  <2>1. tried \in 1 .. 2
    BY <1>1 DEF ConfigInv, ConfTypeOK, AttemptInv
  <2>2. Candidates[tried] \in Files
    BY <2>1 DEF Candidates, Files
  <2>3. CASE Len(frames) = 1
    <3>1. Top.file = Candidates[tried]
      BY <1>3, <2>3 DEF ConfigInv, StackInv
    <3> QED BY <1>4, <2>2, <3>1 DEF Failing, Parses
  <2>4. CASE Len(frames) # 1
    <3> DEFINE last == frames[Len(frames)]
    <3>0. StackInv /\ 1 \in 1 .. Len(frames) /\ Len(frames) \in 1 .. Len(frames) /\ Len(frames) > 1
      <4>1. StackInv
        BY DEF ConfigInv
      <4>2. Len(frames) \in Nat /\ Len(frames) # 0 /\ Len(frames) # 1
        BY <1>3, <2>4
      <4>3. Len(frames) > 1
        BY ONLY <4>2
      <4> QED BY <4>1, <4>2, <4>3
    <3>1. Top.file = "inc" /\ last.file = Candidates[tried]
      BY <1>3, <2>4, <3>0 DEF StackInv
    <3>2. last.at <= Len(disk[last.file]) /\ disk[last.file][last.at].kind = "include"
      BY <3>0 DEF StackInv
    <3>3. last.at \in Nat \ {0} /\ Len(disk[last.file]) \in Nat
      <4>1. last \in Frames
        BY <1>3 DEF ConfigInv, GoodFrames
      <4> QED BY <2>2, <3>1, <4>1, PlaceIsTyped DEF Frames, ConfigInv
    <3>4. "include" \in LineKinds(last.file)
      BY <3>2, <3>3 DEF LineKinds
    <3> QED BY <1>4, <2>2, <3>1, <3>4 DEF Failing, Parses
  <2> QED BY <2>3, <2>4
<1>6. ConfTypeOK' /\ frames' \in Seq(GoodFrames')
  BY <1>1 DEF ConfigInv, ConfTypeOK
<1>7. StackInv' /\ AttemptInv' /\ LastWins'
  BY <1>1, <1>2, <1>5 DEF ConfigInv, StackInv, AttemptInv, LastWins
<1> QED BY <1>6, <1>7 DEF ConfigInv

LEMMA AttemptKeeps ==
  ASSUME ConfigInv, Attempt
  PROVE  ConfigInv'
<1>1. conf = "none" /\ frames = << >> /\ UNCHANGED <<disk, loaded>>
  BY DEF Attempt
<1>2. GoodFrames' = GoodFrames /\ Failing' = Failing
  BY <1>1, DiskStays
<1>3. Len(Candidates) = 2
  BY DEF Candidates
<1>4. CASE tried = 2
  <2>1. conf' = "panic" /\ UNCHANGED <<tried, frames>>
    BY <1>3, <1>4 DEF Attempt
  <2>2. ConfTypeOK' /\ StackInv' /\ frames' \in Seq(GoodFrames')
    BY <1>1, <1>2, <2>1 DEF ConfigInv, ConfTypeOK, StackInv
  <2>3. AttemptInv' /\ LastWins'
    BY <1>1, <1>2, <2>1 DEF ConfigInv, AttemptInv, LastWins
  <2> QED BY <2>2, <2>3 DEF ConfigInv
<1>5. CASE tried # 2
  <2>1. tried' = tried + 1 /\ frames' = << Frame(Candidates[tried + 1]) >> /\ conf' = conf
    BY <1>3, <1>5 DEF Attempt
  <2>2. tried \in 0 .. 1 /\ tried' \in 1 .. 2
    BY <1>5, <2>1 DEF ConfigInv, ConfTypeOK
  <2>3. Candidates[tried + 1] \in Files
    BY <2>2 DEF Candidates, Files
  <2>4. /\ Frame(Candidates[tried + 1]) \in GoodFrames
        /\ Frame(Candidates[tried + 1]).file = Candidates[tried + 1]
    BY <2>3, NewFrame DEF ConfigInv
  <2>5. /\ frames' \in Seq(GoodFrames) /\ Len(frames') = 1 /\ frames' # << >>
        /\ frames'[1].file = Candidates[tried']
    BY <2>1, <2>4
  <2>6. ConfTypeOK'
    BY <1>1, <2>1, <2>2, <2>5 DEF ConfigInv, ConfTypeOK, GoodFrames
  <2>7. StackInv'
    BY <2>5 DEF StackInv
  <2>8. AttemptInv' /\ LastWins'
    BY <1>1, <1>2, <2>1, <2>2, <2>5 DEF ConfigInv, AttemptInv, LastWins
  <2> QED BY <1>2, <2>5, <2>6, <2>7, <2>8 DEF ConfigInv
<1> QED BY <1>4, <1>5

LEMMA InitConfig == ConfigInit => ConfigInv
<1> SUFFICES ASSUME ConfigInit PROVE ConfigInv
  OBVIOUS
<1>1. tried = 0 /\ frames = << >> /\ conf = "none"
  BY DEF ConfigInit
<1>2. ConfTypeOK /\ frames \in Seq(GoodFrames)
  BY <1>1, DiskIsTyped DEF ConfTypeOK
<1>3. StackInv
  BY <1>1 DEF StackInv
<1>4. AttemptInv /\ LastWins
  BY <1>1 DEF AttemptInv, LastWins
<1> QED BY <1>2, <1>3, <1>4 DEF ConfigInv

LEMMA TwoForOne ==
  ASSUME NEW S, NEW s \in Seq(S), Len(s) >= 2, NEW x \in S
  PROVE  LET t == << x >> \o Tail(Tail(s))
         IN  /\ t \in Seq(S) /\ t # << >> /\ Len(t) = Len(s) - 1 /\ t[1] = x
             /\ \A i \in 2 .. Len(s) - 1 : t[i] = s[i + 1]
<1>1. Tail(s) \in Seq(S) /\ Len(Tail(s)) = Len(s) - 1 /\ \A i \in 1 .. Len(s) - 1 : Tail(s)[i] = s[i + 1]
  OBVIOUS
<1>2. /\ Tail(Tail(s)) \in Seq(S) /\ Len(Tail(Tail(s))) = Len(s) - 2
      /\ \A i \in 1 .. Len(s) - 2 : Tail(Tail(s))[i] = Tail(s)[i + 1]
  <2> DEFINE t == Tail(s)
  <2>0. t \in Seq(S) /\ Len(t) = Len(s) - 1
    BY <1>1
  <2>1. t \in Seq(S) /\ Len(t) = Len(s) - 1 /\ Len(t) >= 1 /\ t # << >>
    <3>1. Len(t) # 0 /\ Len(t) >= 1
      BY <2>0
    <3> HIDE DEF t
    <3> QED BY <2>0, <3>1
  <2> HIDE DEF t
  <2>2. Tail(t) \in Seq(S) /\ Len(Tail(t)) = Len(t) - 1
    BY <2>1
  <2>3. \A i \in 1 .. Len(t) - 1 : Tail(t)[i] = t[i + 1]
    BY <2>1
  <2>4. Len(t) - 1 = Len(s) - 2
    BY <2>1
  <2> QED BY <2>2, <2>3, <2>4 DEF t
<1> DEFINE r == Tail(Tail(s))
<1>3. r \in Seq(S) /\ Len(r) = Len(s) - 2 /\ \A i \in 1 .. Len(s) - 2 : r[i] = s[i + 2]
  BY <1>1, <1>2
<1> HIDE DEF r
<1>4. /\ << x >> \o r \in Seq(S) /\ Len(<< x >> \o r) = Len(s) - 1 /\ (<< x >> \o r)[1] = x
      /\ \A i \in 1 .. Len(r) : (<< x >> \o r)[i + 1] = r[i]
  BY <1>3
<1>5. ASSUME NEW i \in 2 .. Len(s) - 1 PROVE (<< x >> \o r)[i] = s[i + 1]
  <2>1. i - 1 \in 1 .. Len(r) /\ i - 1 + 1 = i /\ (i - 1) + 2 = i + 1 /\ i - 1 \in 1 .. Len(s) - 2
    BY <1>3
  <2> QED BY <1>3, <1>4, <2>1
<1> QED BY <1>4, <1>5 DEF r

\* The end of an included file.  It includes nothing, so its includer is the
\* candidate, and where it gives a value that place is the candidate's last.
LEMMA InnerEndKeeps ==
  ASSUME ConfigInv, ReadEnds, Len(frames) # 1
  PROVE  ConfigInv'
<1> DEFINE inner == frames[1]
           outer == frames[2]
           f == outer.file
           n == outer.at
           frame == Including(outer, Merged(outer.data, inner.data))
<1>1. /\ frames # << >> /\ conf = "none" /\ UNCHANGED <<disk, tried, conf, loaded>>
      /\ Top.at > Len(disk[Top.file])
      /\ frames' = << frame >> \o Tail(Tail(frames))
  BY TopIsGood DEF ReadEnds, Included, Including
<1>2. /\ frames \in Seq(GoodFrames) /\ Len(frames) \in Nat /\ Len(frames) >= 2 /\ Top = inner
      /\ inner \in Frames /\ FrameInv(inner) /\ outer \in Frames /\ FrameInv(outer)
  BY <1>1, TopIsGood DEF ConfigInv, GoodFrames
<1>3. /\ inner.file = "inc" /\ n <= Len(disk[f]) /\ disk[f][n].kind = "include"
  <2>1. StackInv /\ 1 \in 1 .. Len(frames) /\ 2 \in 1 .. Len(frames) /\ 1 # Len(frames)
    BY <1>2 DEF ConfigInv
  <2> QED BY <2>1 DEF StackInv
<1>4. f \in Files /\ n \in 1 .. Len(disk[f]) /\ n \in Nat \ {0} /\ Len(disk["inc"]) \in Nat
      /\ disk.inc = disk["inc"] /\ "inc" \in Files /\ inner.at \in Nat
  BY <1>2, <1>3, PlaceIsTyped DEF Frames, Files, ConfigInv
<1>5. inner.at = Len(disk["inc"]) + 1 /\ KindsTo("inc", inner.at) = LineKinds("inc")
  <2>1. inner.at > Len(disk["inc"]) /\ inner.at <= Len(disk["inc"]) + 1
    BY <1>1, <1>2, <1>3 DEF FrameInv
  <2>2. inner.at = Len(disk["inc"]) + 1
    BY <1>4, <2>1
  <2>3. 1 .. inner.at - 1 = 1 .. Len(disk["inc"])
    BY <1>4, <2>2
  <2> QED BY <2>2, <2>3 DEF KindsTo, LineKinds
<1>6. IncParses
  BY <1>2, <1>3, <1>5 DEF FrameInv, IncParses
<1>7. f # "inc"
  BY <1>3, <1>4, <1>6 DEF IncParses, LineKinds
<1>8. outer.data \in Datas /\ inner.data \in Datas /\ outer.section \in {"default", "s"}
  BY <1>2 DEF Frames
<1>9. /\ Merged(outer.data, inner.data) \in Datas
      /\ DOMAIN Merged(outer.data, inner.data) = DOMAIN outer.data \cup DOMAIN inner.data
      /\ \A at \in DOMAIN inner.data : Merged(outer.data, inner.data)[at] = inner.data[at]
      /\ \A at \in DOMAIN outer.data \ DOMAIN inner.data :
            Merged(outer.data, inner.data)[at] = outer.data[at]
  BY <1>8, MergedTyped
<1>10. /\ frame.file = f /\ frame.at = n + 1 /\ frame.section = outer.section
       /\ frame.data = Merged(outer.data, inner.data) /\ frame \in Frames
  <2> DEFINE d == Merged(outer.data, inner.data)
  <2> HIDE DEF d
  <2>1. d \in Datas /\ outer.section \in {"default", "s"}
    BY <1>2, <1>9 DEF Frames, d
  <2>2. LET next == Including(outer, d)
        IN  /\ next \in Frames /\ next.file = outer.file /\ next.at = outer.at + 1
            /\ next.section = outer.section /\ next.data = d
    BY <1>2, <2>1, FrameGoesOn
  <2> QED BY <2>2 DEF d
<1> HIDE DEF frame
<1>11. FrameInv(frame)
  <2>1. KindsTo(f, n + 1) = KindsTo(f, n) \cup {"include"}
    <3>1. disk[f][n].kind = "include" /\ n \in Nat \ {0}
      BY <1>3, <1>4
    <3> HIDE DEF f, n
    <3> QED BY <3>1, KindsNext
  <2>2. frame.section = SectionOf(f, n + 1)
    BY <1>2, <1>3, <1>4, <1>10, SectionOfNext DEF FrameInv
  <2>3. n + 1 <= Len(disk[f]) + 1
    BY <1>4, PlaceIsTyped DEF ConfigInv
  <2>4. ASSUME NEW at \in Entries
        PROVE  IsLast(frame.data, f, PlacesTo(f, n + 1, at), at)
    <3> DEFINE lines == {m \in 1 .. Len(disk.inc) : Sets("inc", m, at)}
               data == Merged(outer.data, inner.data)
    <3>1. PlacesTo(f, n + 1, at) = PlacesTo(f, n, at) \cup {<<n, k>> : k \in lines}
      BY <1>3, <1>4, PlacesNext DEF ConfigInv
    <3>2. PlacesTo("inc", inner.at, at) = {<<k, 0>> : k \in lines}
      <4>1. \A m \in 1 .. Len(disk["inc"]) : disk["inc"][m].kind # "include"
        BY <1>6 DEF IncParses, LineKinds
      <4>2. Places("inc", at) = {<<k, 0>> : k \in lines}
        BY <1>4, <4>1 DEF Places
      <4> QED BY <1>4, <1>5, <4>2 DEF PlacesTo
    <3>3. IsLast(outer.data, f, PlacesTo(f, n, at), at)
      BY <1>2 DEF FrameInv
    <3>4. IsLast(inner.data, "inc", {<<k, 0>> : k \in lines}, at)
      BY <1>2, <1>3, <3>2 DEF FrameInv
    <3>5. CASE lines = {}
      BY <1>9, <1>10, <3>1, <3>3, <3>4, <3>5 DEF IsLast
    <3>6. CASE lines # {}
      <4>1. PICK k \in lines : /\ at \in DOMAIN inner.data
                               /\ \A q \in {<<j, 0>> : j \in lines} : After(<<k, 0>>, q)
                               /\ inner.data[at] = Text("inc", <<k, 0>>)
        BY <3>4, <3>6 DEF IsLast
      <4>2. \A j \in lines : After(<<k, 0>>, <<j, 0>>)
        BY <4>1
      <4>3. k \in Nat /\ \A j \in lines : j \in Nat /\ k >= j
        BY <1>4, <4>2 DEF After
      <4>4. \A q \in PlacesTo(f, n, at) : After(<<n, k>>, q)
        BY <1>4, PlacesAreTyped DEF PlacesTo, After, ConfigInv
      <4>5. \A q \in {<<n, j>> : j \in lines} : After(<<n, k>>, q)
        BY <1>4, <4>3 DEF After
      <4>6. Text(f, <<n, k>>) = Text("inc", <<k, 0>>)
        BY <1>4, <4>1 DEF Text
      <4>7. at \in DOMAIN frame.data /\ frame.data[at] = Text(f, <<n, k>>)
        BY <1>9, <1>10, <4>1, <4>6
      <4>8. <<n, k>> \in PlacesTo(f, n + 1, at)
        BY <3>1
      <4> HIDE DEF lines
      <4> QED BY <3>1, <4>4, <4>5, <4>7, <4>8 DEF IsLast
    <3> QED BY <3>5, <3>6
  <2> QED BY <1>2, <1>6, <1>7, <1>10, <2>1, <2>2, <2>3, <2>4 DEF FrameInv
<1>12. frame \in GoodFrames
  BY <1>10, <1>11 DEF GoodFrames
<1>13. /\ frames' \in Seq(GoodFrames) /\ frames' # << >> /\ Len(frames') = Len(frames) - 1
       /\ frames'[1] = frame /\ \A i \in 2 .. Len(frames) - 1 : frames'[i] = frames[i + 1]
  BY <1>1, <1>2, <1>12, TwoForOne
<1>14. GoodFrames' = GoodFrames /\ Failing' = Failing
  BY <1>1, DiskStays
<1>15. ConfTypeOK'
  BY <1>1, <1>13 DEF ConfigInv, ConfTypeOK, GoodFrames
<1>16. StackInv'
  <2> SUFFICES ASSUME NEW i \in 1 .. Len(frames')
               PROVE  /\ frames'[i].file = IF i = Len(frames') THEN Candidates[tried] ELSE "inc"
                      /\ i > 1 => /\ frames'[i].at <= Len(disk[frames'[i].file])
                                  /\ disk[frames'[i].file][frames'[i].at].kind = "include"
    BY <1>1 DEF StackInv
  <2>1. i + 1 \in 1 .. Len(frames) /\ frames'[i].file = frames[i + 1].file
        /\ (i > 1 => frames'[i] = frames[i + 1]) /\ (i = Len(frames') <=> i + 1 = Len(frames))
    <3>1. i = 1 \/ i \in 2 .. Len(frames) - 1
      BY <1>2, <1>13
    <3> QED BY <1>2, <1>10, <1>13, <3>1
  <2>2. i + 1 > 1
    BY <2>1
  <2> QED BY <2>1, <2>2 DEF ConfigInv, StackInv
<1>17. AttemptInv' /\ LastWins'
  BY <1>1, <1>13, <1>14 DEF ConfigInv, AttemptInv, LastWins
<1> QED BY <1>13, <1>14, <1>15, <1>16, <1>17 DEF ConfigInv

\* The end of the candidate: what was read of it is all of it.
LEMMA OuterEndKeeps ==
  ASSUME ConfigInv, ReadEnds, Len(frames) = 1
  PROVE  ConfigInv'
<1> DEFINE f == Candidates[tried]
<1>1. /\ frames # << >> /\ conf = "none" /\ UNCHANGED <<disk, tried>>
      /\ Top.at > Len(disk[Top.file])
      /\ conf' = "loaded" /\ loaded' = Top.data /\ frames' = << >>
  BY DEF ReadEnds
<1>2. Top = frames[1] /\ Top \in Frames /\ FrameInv(Top) /\ Top.file \in Files
  BY <1>1, TopIsGood
<1>3. Top.file = f
  BY <1>2 DEF ConfigInv, StackInv
<1>4. Top.at = Len(disk[f]) + 1 /\ Len(disk[f]) \in Nat /\ f \in Files
  BY <1>1, <1>2, <1>3, PlaceIsTyped DEF FrameInv, Frames, ConfigInv
<1>5. KindsTo(f, Top.at) = LineKinds(f)
  BY <1>4 DEF KindsTo, LineKinds
<1>6. Parses(f)
  BY <1>2, <1>3, <1>5 DEF FrameInv, Parses, IncParses
<1>7. ASSUME NEW at \in Entries PROVE IsLast(Top.data, f, Places(f, at), at)
  <2>1. PlacesTo(f, Top.at, at) = Places(f, at)
    BY <1>4, PlacesAreTyped DEF PlacesTo, ConfigInv
  <2> QED BY <1>2, <1>3, <2>1 DEF FrameInv
<1>8. \A t \in 1 .. tried - 1 : ~Parses(Candidates[t])
  BY DEF ConfigInv, AttemptInv, Failing
<1>9. ConfTypeOK' /\ frames' \in Seq(GoodFrames')
  BY <1>1 DEF ConfigInv, ConfTypeOK
<1>10. Failing' = Failing
  BY <1>1, DiskStays
<1>11. StackInv' /\ AttemptInv'
  BY <1>1, <1>10 DEF ConfigInv, StackInv, AttemptInv
<1>12. \A g : Parses(g)' = Parses(g)
  BY <1>1 DEF Parses, LineKinds
<1>13. \A g, at, p : /\ Places(g, at)' = Places(g, at) /\ Text(g, p)' = Text(g, p)
                     /\ GetData(at)' = IF at \in DOMAIN Top.data THEN Top.data[at] ELSE ""
  BY <1>1 DEF Places, Sets, SectionOf, Text, Expand, GetData
<1>14. ASSUME NEW at \in Entries PROVE HasLast(f, at)'
  <2>1. tried' = tried
    BY <1>1
  <2>2. PICK g : g = f
    OBVIOUS
  <2>3. HasLast(g, at)'
    <3>1. IsLast(Top.data, g, Places(g, at), at)
      BY <1>7, <2>2
    <3>2. /\ Places(g, at)' = Places(g, at) /\ \A p : Text(g, p)' = Text(g, p)
          /\ GetData(at)' = IF at \in DOMAIN Top.data THEN Top.data[at] ELSE ""
      BY <1>13
    <3>3. CASE Places(g, at) = {}
      BY <3>1, <3>2, <3>3 DEF HasLast, IsLast
    <3>4. CASE Places(g, at) # {}
      <4>1. PICK p \in Places(g, at) : /\ at \in DOMAIN Top.data
              /\ (\A q \in Places(g, at) : After(p, q)) /\ Top.data[at] = Text(g, p)
        BY <3>1, <3>4 DEF IsLast
      <4>2. GetData(at)' = Text(g, p)'
        BY <3>2, <4>1
      <4>3. (p \in Places(g, at) /\ \A q \in Places(g, at) : After(p, q))'
        BY <3>2, <4>1 DEF After
      <4> QED BY <4>2, <4>3 DEF HasLast
    <3> QED BY <3>3, <3>4
  <2> QED BY <2>1, <2>2, <2>3
<1>15. LastWins'
  <2>1. Parses(f)' /\ (\A t \in 1 .. tried - 1 : ~Parses(Candidates[t]))'
    BY <1>1, <1>6, <1>8, <1>12
  <2>2. (\A s \in {"default", "s"}, k \in {"k"} : HasLast(f, <<s, k>>))'
    BY <1>14 DEF Entries
  <2> QED BY <2>1, <2>2 DEF LastWins
<1> QED BY <1>9, <1>11, <1>15 DEF ConfigInv

LEMMA StutterKeeps ==
  ASSUME ConfigInv, UNCHANGED confVars
  PROVE  ConfigInv'
<1>1. GoodFrames' = GoodFrames /\ Failing' = Failing
  BY DiskStays DEF confVars
<1>2. ConfTypeOK' /\ StackInv' /\ AttemptInv' /\ frames' \in Seq(GoodFrames')
  BY <1>1 DEF ConfigInv, ConfTypeOK, StackInv, AttemptInv, confVars
<1>3. LastWins'
  <2>1. \A g : Parses(g)' = Parses(g)
    BY DEF Parses, LineKinds, confVars
  <2>2. \A g, at : HasLast(g, at)' <=> HasLast(g, at)
    <3>1. \A g, at, p : /\ Places(g, at)' = Places(g, at) /\ Text(g, p)' = Text(g, p)
                        /\ GetData(at)' = GetData(at)
      BY DEF Places, Sets, SectionOf, Text, Expand, GetData, confVars
    <3> QED BY <3>1 DEF HasLast, After
  <2> QED BY <2>1, <2>2 DEF ConfigInv, LastWins, confVars
<1> QED BY <1>1, <1>2, <1>3 DEF ConfigInv

\* The stack of parseData and what each has read (config.go parseData).
THEOREM ConfigInvariant == ConfigSpec => []ConfigInv
<1>1. ASSUME ConfigInv, [ConfigNext]_confVars PROVE ConfigInv'
  BY <1>1, AttemptKeeps, SectionKeeps, SetKeeps, IncludeKeeps, FailsKeeps, InnerEndKeeps,
     OuterEndKeeps, StutterKeeps DEF ConfigNext
<1> QED BY <1>1, InitConfig, PTL DEF ConfigSpec

\* The configuration is one candidate's, and each key has the text of its last
\* place (config.go LoadConfig, parseData).
THEOREM ConfigLastWins == ConfigSpec => []LastWins
<1>1. ConfigInv => LastWins
  BY DEF ConfigInv
<1> QED BY <1>1, ConfigInvariant, PTL
=============================================================================
