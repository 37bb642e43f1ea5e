------------------------------ MODULE DaoProofs ------------------------------
(***************************************************************************)
(* Proofs about a dao, for any number of keys, controllers, components,    *)
(* goroutines, attempts and jobs: its in-memory source (ComMemory), its    *)
(* http api (ComApi), the start, which connects its sources (DaoStart),    *)
(* the transactions of a model (Transaction), its job queue (DaoQueue) and *)
(* the heartbeats a dao or a gateway sends (HealthClient).                 *)
(***************************************************************************)
EXTENDS ComMemory, ComApi, DaoStart, Transaction, DaoQueue, HealthClient,
        FiniteSetTheorems, SequenceTheorems, TLAPS

-----------------------------------------------------------------------------
(* The in-memory source.                                                   *)

MemoryTypeOK ==
    /\ values \in [Keys -> Int] /\ mtimeout \in [Keys -> Nat]
    /\ winners \in [Keys -> SUBSET Users] /\ counted \in [Keys -> Nat]
    /\ time \in Nat /\ due \subseteq Keys

\* A key that somebody has won is there, and one that is not there has left
\* nothing behind: no count and no deadline.
KeyInv(k) ==
    /\ \A p, q \in winners[k] : p = q
    /\ winners[k] # {} => Exist(k)
    /\ IF Exist(k) THEN values[k] = counted[k] ELSE counted[k] = 0
    /\ mtimeout[k] # 0 => Exist(k)

MemoryInv == MemoryTypeOK /\ \A k \in Keys : KeyInv(k)

keyVars(k) == <<values[k], mtimeout[k], winners[k], counted[k]>>

LEMMA KeySpared ==
    ASSUME NEW k, KeyInv(k), UNCHANGED keyVars(k) PROVE KeyInv(k)'
  BY DEF KeyInv, keyVars, Exist, Absent

LEMMA MemoryStarts == MemoryInit => MemoryInv
  BY DEF MemoryInit, MemoryInv, MemoryTypeOK, KeyInv, Exist, Absent

\* What a Set, a Setnx of absent keys, or a deletion does to each key.
LEMMA MultiSetKeeps ==
    ASSUME MemoryInv, NEW K \in SUBSET Keys, MultiSet(K) PROVE MemoryInv'
  <1>1. MemoryTypeOK'
    BY DEF MemoryInv, MemoryTypeOK, MultiSet, Stored, With, sweepVars
  <1>2. ASSUME NEW k \in Keys PROVE KeyInv(k)'
    BY <1>2 DEF MemoryInv, MemoryTypeOK, KeyInv, Exist, Absent, MultiSet, Stored, With
  <1>. QED BY <1>1, <1>2 DEF MemoryInv

LEMMA SetByOneKeeps ==
    ASSUME MemoryInv, NEW K \in SUBSET Keys, NEW p \in Users,
           \A k \in K : ~Exist(k), SetByOne(p, K)
    PROVE  MemoryInv'
  <1>1. MemoryTypeOK'
    <2>1. winners' \in [Keys -> SUBSET Users]
      BY DEF MemoryInv, MemoryTypeOK, SetByOne
    <2>. QED BY <2>1 DEF MemoryInv, MemoryTypeOK, SetByOne, Stored, With, sweepVars
  <1>2. ASSUME NEW k \in Keys PROVE KeyInv(k)'
    <2>1. CASE k \in K
      <3>1. winners[k] = {} /\ counted[k] = 0 BY <2>1 DEF MemoryInv, KeyInv
      <3>2. winners'[k] = {p} /\ values'[k] = 0 /\ counted'[k] = 0
        BY <1>2, <2>1, <3>1 DEF SetByOne, Stored, With
      <3>. QED BY <3>2 DEF KeyInv, Exist, Absent
    <2>2. CASE k \notin K
      BY <1>2, <2>2, KeySpared DEF MemoryInv, keyVars, SetByOne, Stored, With
    <2>. QED BY <2>1, <2>2
  <1>. QED BY <1>1, <1>2 DEF MemoryInv

LEMMA DropKeeps ==
    ASSUME MemoryInv, NEW K \in SUBSET Keys, Drop(K), time' \in Nat, due' \subseteq Keys
    PROVE  MemoryInv'
  <1>1. MemoryTypeOK'
    BY DEF MemoryInv, MemoryTypeOK, Drop, Removed, With, Absent
  <1>2. ASSUME NEW k \in Keys PROVE KeyInv(k)'
    BY <1>2 DEF MemoryInv, KeyInv, Drop, Removed, With, Exist, Absent
  <1>. QED BY <1>1, <1>2 DEF MemoryInv

LEMMA IncrKeeps ==
    ASSUME MemoryInv, NEW k \in Keys, Incr(k) PROVE MemoryInv'
  <1>1. values'[k] = counted'[k] /\ counted'[k] \in Nat
    BY DEF MemoryInv, MemoryTypeOK, KeyInv, Incr, Stored, With
  <1>2. MemoryTypeOK'
    BY DEF MemoryInv, MemoryTypeOK, Incr, Stored, With, sweepVars
  <1>3. ASSUME NEW l \in Keys PROVE KeyInv(l)'
    <2>1. CASE l = k
      <3>1. UNCHANGED <<winners, mtimeout>> BY DEF Incr
      <3>2. KeyInv(l) BY <1>3 DEF MemoryInv
      <3>. QED BY <1>1, <2>1, <3>1, <3>2 DEF KeyInv, Exist, Absent, Incr
    <2>2. CASE l # k
      BY <1>3, <2>2, KeySpared DEF MemoryInv, keyVars, Incr, Stored, With
    <2>. QED BY <2>1, <2>2
  <1>. QED BY <1>2, <1>3 DEF MemoryInv

LEMMA ExpireKeeps ==
    ASSUME MemoryInv, NEW k \in Keys, NEW sec \in 1 .. MaxSec, Expire(k, sec)
    PROVE  MemoryInv'
  <1>1. sec \in Nat BY MemoryAssumption DEF MemoryAssumption
  <1>2. MemoryTypeOK'
    BY <1>1 DEF MemoryInv, MemoryTypeOK, Expire, sweepVars
  <1>3. ASSUME NEW l \in Keys PROVE KeyInv(l)'
    BY <1>3 DEF MemoryInv, MemoryTypeOK, KeyInv, Expire, Exist, Absent
  <1>. QED BY <1>2, <1>3 DEF MemoryInv

\* The inductive invariant of the in-memory source: of those that tried to
\* create a key since it was deleted one has succeeded, what is counted is
\* what was counted since, and a key that is not there has no deadline.
THEOREM MemoryInvariant == MemorySpec => []MemoryInv
  <1>1. MemoryInit => MemoryInv BY MemoryStarts
  <1>2. MemoryInv /\ [MemoryNext]_memoryVars => MemoryInv'
    <2>. SUFFICES ASSUME MemoryInv, [MemoryNext]_memoryVars PROVE MemoryInv' OBVIOUS
    <2>1. ASSUME NEW K \in SUBSET Keys \ {{}},
                 MultiSet(K) \/ Delete(K) \/ \E p \in Users : MultiSetnx(p, K)
          PROVE  MemoryInv'
      <3>1. CASE MultiSet(K) BY <3>1, MultiSetKeeps
      <3>2. CASE Delete(K)
        BY <3>2, DropKeeps DEF Delete, MemoryInv, MemoryTypeOK, sweepVars
      <3>3. ASSUME NEW p \in Users, MultiSetnx(p, K) PROVE MemoryInv'
        BY <3>3, SetByOneKeeps DEF MultiSetnx
      <3>. QED BY <2>1, <3>1, <3>2, <3>3
    <2>2. ASSUME NEW k \in Keys, Incr(k) \/ \E p \in Users : Setnx(p, k) PROVE MemoryInv'
      <3>1. ASSUME NEW p \in Users, Setnx(p, k) PROVE MemoryInv'
        BY <2>2, <3>1, SetByOneKeeps DEF Setnx
      <3>. QED BY <2>2, <3>1, IncrKeeps
    <2>3. ASSUME NEW k \in Keys, NEW sec \in 1 .. MaxSec, Expire(k, sec) PROVE MemoryInv'
      BY <2>3, ExpireKeeps
    <2>4. CASE DeleteAll
      BY <2>4, DropKeeps DEF DeleteAll, Delete, MemoryInv, MemoryTypeOK, sweepVars
    <2>5. CASE Sweep
      <3>1. CASE DeleteDue
        <4>1. PICK k \in due : Drop({k}) /\ due' = due \ {k} BY <3>1 DEF DeleteDue
        <4>2. time' \in Nat /\ due' \subseteq Keys /\ k \in Keys
          BY <3>1, <4>1 DEF DeleteDue, MemoryInv, MemoryTypeOK
        <4>. QED BY <4>1, <4>2, DropKeeps
      <3>2. CASE SweepBegin \/ Collect \/ SweepEnd
        <4>1. UNCHANGED <<values, mtimeout, winners, counted, time>> /\ due' \subseteq Keys
          BY <3>2 DEF SweepBegin, Collect, SweepEnd, MemoryInv, MemoryTypeOK
        <4>2. \A k \in Keys : KeyInv(k)' BY <4>1, KeySpared DEF MemoryInv, keyVars
        <4>. QED BY <4>1, <4>2 DEF MemoryInv, MemoryTypeOK
      <3>. QED BY <2>5, <3>1, <3>2 DEF Sweep
    <2>6. CASE Clock \/ UNCHANGED memoryVars
      <3>1. /\ UNCHANGED <<values, mtimeout, winners, counted, due>>
            /\ time' = time \/ time' = time + 1
        BY <2>6 DEF Clock, memoryVars, sweepVars
      <3>2. \A k \in Keys : KeyInv(k)' BY <3>1, KeySpared DEF MemoryInv, keyVars
      <3>. QED BY <3>1, <3>2 DEF MemoryInv, MemoryTypeOK
    <2>. QED BY <2>1, <2>2, <2>3, <2>4, <2>5, <2>6 DEF MemoryNext
  <1>. QED BY <1>1, <1>2, PTL DEF MemorySpec

\* Setnx serves as a lock: of all that try a key one has succeeded until it is
\* deleted or swept, whatever the sweep and the others do (com_memory.go).
THEOREM MemoryLocks == MemorySpec => []OneSetnxWins
  <1>1. MemoryInv => OneSetnxWins
    <2>. SUFFICES ASSUME MemoryInv, NEW k \in Keys
                  PROVE  /\ Cardinality(winners[k]) <= 1
                         /\ Exist(k) => values[k] = counted[k]
                         /\ mtimeout[k] # 0 => Exist(k)
      BY DEF OneSetnxWins
    <2>1. CASE winners[k] = {} BY <2>1, FS_EmptySet DEF MemoryInv, KeyInv
    <2>2. ASSUME NEW p \in winners[k] PROVE winners[k] = {p}
      BY DEF MemoryInv, KeyInv
    <2>3. winners[k] # {} => Cardinality(winners[k]) = 1 BY <2>2, FS_Singleton
    <2>. QED BY <2>1, <2>3 DEF MemoryInv, KeyInv
  <1>. QED BY <1>1, MemoryInvariant, PTL

-----------------------------------------------------------------------------
(* The http api.                                                           *)

ApiTypeOK ==
    /\ req \in [kind : RequestKinds, params : {0, 1}, files : BOOLEAN,
                Body : {"nil", "whole", "drained", "files", "rest"}, query : Nat,
                resp : BOOLEAN, body : {"nil", "whole", "cut"}]
    /\ try \in Nat /\ late \in Nat /\ executed \in Nat
    /\ attempt \in {"idle", "ready", "dialling", "sent", "executed", "returned"}

\* Executions there have been or may still be of what was sent.
OnItsWay == executed + late + (IF attempt = "sent" THEN 1 ELSE 0)

\* A body that is there has been there since the first attempt; as long as one
\* with a length is whole nothing has been sent, and it is sent once.
BodyInv ==
    /\ try = 0 =>
        executed = 0 /\ late = 0 /\ req.body = "nil" /\ attempt \in {"idle", "ready"}
    /\ attempt = "idle" => try = 0
    /\ req.kind # "get" /\ (req.files \/ req.params > 0) /\ req.Body = "nil" => try = 0
    /\ req.kind = "get" => req.Body = "nil"
    /\ req.Body = "whole" => OnItsWay = 0 /\ attempt # "executed"
    /\ req.Body = "drained" => OnItsWay <= 1

ApiInv == ApiTypeOK /\ BodyInv

\* As long as a body with a length is whole nothing of it has been sent, and once
\* it is drained it is on its way, or executed, at most once (com_api.go).
THEOREM ApiInvariant == ApiSpec => []ApiInv
  <1>1. ApiInit => ApiInv
    <2>. SUFFICES ASSUME ApiInit PROVE ApiInv OBVIOUS
    <2>1. PICK kind \in RequestKinds, params \in {0, 1}, files \in BOOLEAN :
            req = [kind |-> kind, params |-> params, files |-> files, Body |-> "nil",
                   query |-> 0, resp |-> FALSE, body |-> "nil"]
      BY DEF ApiInit
    <2>2. ApiTypeOK BY <2>1 DEF ApiInit, ApiTypeOK
    <2>3. BodyInv BY <2>1 DEF ApiInit, BodyInv, OnItsWay
    <2>. QED BY <2>2, <2>3 DEF ApiInv
  <1>2. ApiInv /\ [ApiNext]_apiVars => ApiInv'
    <2>. SUFFICES ASSUME ApiInv, [ApiNext]_apiVars PROVE ApiInv' OBVIOUS
    <2>. USE DEF ApiInv, ApiTypeOK, BodyInv, OnItsWay
    <2>1. CASE Prepare BY <2>1 DEF Prepare
    <2>2. CASE Cached BY <2>2 DEF Cached
    <2>3. CASE DoRequest BY <2>3 DEF DoRequest, BuildURL, NewBody
    <2>4. CASE DialRefused BY <2>4 DEF DialRefused, AttemptFails
    <2>5. CASE Send BY <2>5 DEF Send
    <2>6. CASE SendDrained BY <2>6 DEF SendDrained, AttemptFails
    <2>7. CASE Serve BY <2>7 DEF Serve
    <2>8. CASE ExecuteLate BY <2>8 DEF ExecuteLate
    <2>9. CASE NoAnswer
      <3>1. /\ UNCHANGED <<req, try, executed>>
            /\ attempt' \in {"ready", "returned"}
            /\ \/ attempt = "sent" /\ late' \in {late, late + 1}
               \/ attempt = "executed" /\ late' = late
        BY <2>9 DEF NoAnswer, AttemptFails
      <3>2. late' \in Nat BY <3>1
      <3>3. ApiTypeOK' BY <3>1, <3>2
      <3>4. CASE attempt = "sent"
        <4>1. OnItsWay = executed + late + 1 /\ OnItsWay' = executed + late' BY <3>1, <3>4
        <4>. HIDE DEF OnItsWay
        <4>2. BodyInv' BY <3>1, <3>4, <4>1
        <4>. QED BY <3>3, <4>2
      <3>5. CASE attempt = "executed"
        <4>1. OnItsWay' = OnItsWay BY <3>1, <3>5
        <4>. HIDE DEF OnItsWay
        <4>2. BodyInv' BY <3>1, <3>5, <4>1
        <4>. QED BY <3>3, <4>2
      <3>. QED BY <3>1, <3>4, <3>5
    <2>10. ASSUME NEW content \in {"whole", "cut"}, Answer(content) PROVE ApiInv'
      BY <2>10 DEF Answer, AttemptFails
    <2>11. CASE UNCHANGED apiVars BY <2>11 DEF apiVars
    <2>. QED
      BY <2>1, <2>2, <2>3, <2>4, <2>5, <2>6, <2>7, <2>8, <2>9, <2>10, <2>11 DEF ApiNext
  <1>. QED BY <1>1, <1>2, PTL DEF ApiSpec

\* However many attempts a call may make (com_api.go makes two), a request whose
\* body has a length is executed once at most, late answers and retries included.
THEOREM ApiPostsOnce == ApiSpec => []PostedOnce
  <1>1. ApiInv => PostedOnce
    BY DEF ApiInv, ApiTypeOK, BodyInv, OnItsWay, PostedOnce
  <1>. QED BY <1>1, ApiInvariant, PTL
-----------------------------------------------------------------------------
(* The start of a dao.                                                     *)

StartTypeOK ==
    /\ \A c \in Coms : comConf[c].sources \subseteq {"model", "cache"}
    /\ main \in {"init", "connect", "run", "telnetDone", "exit", "throw"}
    /\ serviceMap \subseteq Coms \cup {Health} /\ Health \in serviceMap
    /\ openCom \subseteq Coms
    /\ task \in [Coms -> {"idle", "dialDB", "dialRedis", "adding"}]
    /\ told \in [Coms -> SUBSET {"model", "cache"}]

\* A source that was told is open; who set the key of a component with a model
\* was the model, which dials a database of db.conf until it has its alias.
SourcesInv(c) ==
    /\ \A s \in told[c] : <<c, s>> \in opened
    /\ ~Telnet =>
        /\ ConnDB(c) \in connDBMap /\ Has(c, "model") => "model" \in told[c]
        /\ "model" \in told[c] =>
            /\ Dialable(c)
            /\ task[c] = "dialDB" \/ <<c, FirstDriver(c)>> \in dataBaseCache

\* The open components have their controllers; when the dao listens all their
\* sources have been told, no task is at work, and no other controller is left.
PhaseInv ==
    /\ main = "init" => openCom = {}
    /\ \A c \in openCom : comConf[c].on = "on"
    /\ main = "connect" => openCom \subseteq serviceMap
    /\ main = "run" =>
        /\ ~Telnet /\ announced = openCom /\ serviceMap = openCom \cup {Health}
        /\ \A c \in openCom : task[c] = "idle" /\ told[c] = comConf[c].sources

StartInv ==
    /\ StartTypeOK /\ PhaseInv
    /\ \A c \in Coms : SourcesInv(c)
    /\ fetched \notin {"unopened", "panic"}

LEMMA FirstDriverConfigured ==
    ASSUME NEW c \in Coms, Dialable(c) PROVE FirstDriver(c) \in comConf[c].db
  <1>. DEFINE S == Configured(c)
  <1>1. S \subseteq 1 .. 5 /\ S # {} BY DEF Configured, Drivers, Dialable
  <1>2. \E i \in S : \A j \in S : i <= j
    <2>. HIDE DEF S
    <2>1. CASE 1 \in S BY <1>1, <2>1
    <2>2. CASE 1 \notin S /\ 2 \in S BY <1>1, <2>2
    <2>3. CASE 1 \notin S /\ 2 \notin S /\ 3 \in S BY <1>1, <2>3
    <2>4. CASE 1 \notin S /\ 2 \notin S /\ 3 \notin S /\ 4 \in S BY <1>1, <2>4
    <2>5. CASE 1 \notin S /\ 2 \notin S /\ 3 \notin S /\ 4 \notin S
      <3>1. \A i \in S : i = 5 BY <1>1, <2>5
      <3>2. 5 \in S BY <1>1, <3>1
      <3>. QED BY <3>1, <3>2
    <2>. QED BY <2>1, <2>2, <2>3, <2>4, <2>5
  <1>3. (CHOOSE i \in S : \A j \in S : i <= j) \in S BY <1>2
  <1>. QED BY <1>3 DEF FirstDriver, Configured

LEMMA StartStarts == DaoStartInit => StartInv
  <1>. SUFFICES ASSUME DaoStartInit PROVE StartInv OBVIOUS
  <1>1. StartTypeOK
    <2>1. ASSUME NEW c \in Coms PROVE comConf[c].sources \subseteq {"model", "cache"}
      BY DEF DaoStartInit
    <2>. QED BY <2>1 DEF DaoStartInit, StartTypeOK
  <1>2. ASSUME NEW c \in Coms PROVE SourcesInv(c)
    BY <1>2 DEF DaoStartInit, SourcesInv
  <1>. QED BY <1>1, <1>2 DEF DaoStartInit, StartInv, PhaseInv

\* What the sources of a component are is not disturbed by the others.
LEMMA SourcesSpared ==
    ASSUME NEW c \in Coms, SourcesInv(c), UNCHANGED <<comConf, task[c], told[c]>>,
           opened \subseteq opened', dataBaseCache \subseteq dataBaseCache',
           ConnDB(c) \in connDBMap' => ConnDB(c) \in connDBMap
    PROVE  SourcesInv(c)'
  <1>1. UNCHANGED <<Telnet, ConnDB(c), Has(c, "model"), Dialable(c), FirstDriver(c)>>
    BY DEF Telnet, ConnDB, Has, Dialable, FirstDriver, Configured
  <1>. QED BY <1>1 DEF SourcesInv

\* Steps that leave the sources alone, among them those that end the program.
LEMMA SourcesUntouched ==
    ASSUME StartInv, UNCHANGED <<comConf, sourceVars>>
    PROVE  \A c \in Coms : SourcesInv(c)'
  BY SourcesSpared DEF StartInv, sourceVars

LEMMA ProgramEnds ==
    ASSUME StartInv, main' \in {"exit", "throw", "telnetDone"},
           UNCHANGED <<comConf, serviceMap, openCom, sourceVars, fetched>>
    PROVE  StartInv'
  <1>1. \A c \in Coms : SourcesInv(c)' BY SourcesUntouched
  <1>. QED BY <1>1 DEF StartInv, StartTypeOK, PhaseInv, sourceVars

LEMMA RegControllerKeeps ==
    ASSUME StartInv, NEW c \in Coms, RegController(c) PROVE StartInv'
  <1>1. CASE main' = "exit" /\ UNCHANGED serviceMap
    BY <1>1, ProgramEnds DEF RegController
  <1>2. CASE Register(c) /\ UNCHANGED main
    <2>1. \A d \in Coms : SourcesInv(d)' BY SourcesUntouched DEF RegController
    <2>. QED BY <1>2, <2>1 DEF RegController, Register, StartInv, StartTypeOK, PhaseInv, sourceVars
  <1>. QED BY <1>1, <1>2 DEF RegController

LEMMA ComRunKeeps ==
    ASSUME StartInv, ComRun PROVE StartInv'
  <1>1. \A c \in Coms : SourcesInv(c)' BY SourcesUntouched DEF ComRun
  <1>. QED BY <1>1 DEF ComRun, StartInv, StartTypeOK, PhaseInv, sourceVars

\* A source that has its turn is told: what it is told is kept in mind by the
\* task, or there is an alias already.
LEMMA OnKeeps ==
    ASSUME StartInv, NEW c \in Coms, NEW source \in {"model", "cache"}, TurnOf(c, source),
           NEW step \in {"dialDB", "dialRedis"}, On(c, source, step),
           source = "model" => step = "dialDB" /\ (ConnDB(c) \in connDBMap \/ Dialable(c))
    PROVE  StartInv'
  <1>1. /\ task' = [task EXCEPT ![c] = IF ConnDB(c) \in connDBMap THEN "idle" ELSE step]
        /\ told' = [told EXCEPT ![c] = @ \cup {source}]
        /\ opened' = opened \cup {<<c, source>>} /\ connDBMap' = connDBMap \cup {ConnDB(c)}
        /\ UNCHANGED <<comConf, main, serviceMap, openCom, dataBaseCache, announced, fetched>>
        /\ main = "connect" /\ c \in openCom /\ task[c] = "idle" /\ Has(c, source)
    BY DEF On, GoesOn, TurnOf
  <1>2. StartTypeOK' BY <1>1 DEF StartInv, StartTypeOK
  <1>3. PhaseInv' BY <1>1 DEF StartInv, PhaseInv
  <1>4. ASSUME NEW d \in Coms PROVE SourcesInv(d)'
    <2>1. CASE d # c
      BY <1>1, <2>1, SourcesSpared DEF StartInv, StartTypeOK, ConnDB
    <2>2. CASE d = c
      <3>1. UNCHANGED <<Telnet, ConnDB(c), Has(c, "model"), Dialable(c), FirstDriver(c)>>
        BY <1>1 DEF Telnet, ConnDB, Has, Dialable, FirstDriver, Configured
      <3>2. /\ told'[c] = told[c] \cup {source}
            /\ task'[c] = IF ConnDB(c) \in connDBMap THEN "idle" ELSE step
        BY <1>1 DEF StartInv, StartTypeOK
      <3>3. \A s \in told'[c] : <<c, s>> \in opened'
        BY <1>1, <3>2 DEF StartInv, SourcesInv
      <3>4. ASSUME ~Telnet, Has(c, "model") PROVE "model" \in told'[c]
        BY <1>1, <3>2, <3>4 DEF TurnOf, ModelBeforeCache
      <3>5. ASSUME ~Telnet, "model" \in told'[c]
            PROVE  /\ Dialable(c)
                   /\ task'[c] = "dialDB" \/ <<c, FirstDriver(c)>> \in dataBaseCache
        <4>1. SourcesInv(c) BY DEF StartInv
        <4>2. CASE "model" \in told[c]
          BY <1>1, <3>5, <4>1, <4>2 DEF SourcesInv
        <4>3. CASE "model" \notin told[c]
          <5>1. source = "model" BY <3>2, <3>5, <4>3
          <5>2. ConnDB(c) \notin connDBMap BY <1>1, <3>5, <4>1, <4>3, <5>1 DEF SourcesInv
          <5>. QED BY <3>2, <5>1, <5>2
        <4>. QED BY <4>2, <4>3
      <3>. QED BY <1>1, <2>2, <3>1, <3>3, <3>4, <3>5 DEF SourcesInv
    <2>. QED BY <2>1, <2>2
  <1>. QED BY <1>1, <1>2, <1>3, <1>4 DEF StartInv

\* The other steps of a task: it goes on, and dialDB ends with the alias.
LEMMA TaskKeeps ==
    ASSUME StartInv, NEW c \in Coms, NEW to \in {"idle", "adding"}, GoesOn(c, to),
           main = "connect", main' \in {"connect", "throw"},
           UNCHANGED <<comConf, serviceMap, openCom, told, connDBMap, opened, fetched>>,
           dataBaseCache \subseteq dataBaseCache',
           task[c] = "dialDB" => <<c, FirstDriver(c)>> \in dataBaseCache'
    PROVE  StartInv'
  <1>1. task' = [task EXCEPT ![c] = to] BY DEF GoesOn
  <1>2. StartTypeOK' BY <1>1 DEF StartInv, StartTypeOK
  <1>3. PhaseInv' BY DEF StartInv, PhaseInv
  <1>4. ASSUME NEW d \in Coms PROVE SourcesInv(d)'
    <2>1. CASE d # c
      BY <1>1, <2>1, SourcesSpared DEF StartInv, StartTypeOK
    <2>2. CASE d = c
      <3>1. UNCHANGED <<Telnet, ConnDB(c), Has(c, "model"), Dialable(c), FirstDriver(c)>>
        BY DEF Telnet, ConnDB, Has, Dialable, FirstDriver, Configured
      <3>. QED BY <2>2, <3>1 DEF StartInv, SourcesInv
    <2>. QED BY <2>1, <2>2
  <1>. QED BY <1>2, <1>3, <1>4 DEF StartInv

LEMMA ComTaskKeeps ==
    ASSUME StartInv, NEW c \in Coms, ComTask(c) PROVE StartInv'
  <1>1. CASE OrmOnExits(c) BY <1>1, ProgramEnds DEF OrmOnExits
  <1>2. CASE OrmOn(c) BY <1>2, OnKeeps DEF OrmOn
  <1>3. CASE RegisterDataBase(c)
    <2>1. /\ main = "connect" /\ main' = "connect" /\ GoesOn(c, "idle")
          /\ dataBaseCache \subseteq dataBaseCache'
          /\ <<c, FirstDriver(c)>> \in dataBaseCache'
          /\ UNCHANGED <<comConf, serviceMap, openCom, told, connDBMap, opened, fetched>>
      BY <1>3 DEF RegisterDataBase, Dialling, AddAlias
    <2>. QED BY <2>1, TaskKeeps
  <1>4. CASE RedisOn(c) BY <1>4, OnKeeps DEF RedisOn
  <1>5. CASE DialExits(c) BY <1>5, ProgramEnds DEF DialExits
  <1>6. CASE AddDatabase(c)
    <2>1. /\ main = "connect" /\ main' = "connect" /\ GoesOn(c, "adding")
          /\ dataBaseCache \subseteq dataBaseCache' /\ task[c] = "dialRedis"
          /\ UNCHANGED <<comConf, serviceMap, openCom, told, connDBMap, opened, fetched>>
      BY <1>6 DEF AddDatabase, Dialling
    <2>. QED BY <2>1, TaskKeeps
  <1>7. CASE Added(c)
    <2>1. /\ main = "connect" /\ main' \in {"connect", "throw"} /\ GoesOn(c, "idle")
          /\ dataBaseCache \subseteq dataBaseCache' /\ task[c] = "adding"
          /\ UNCHANGED <<comConf, serviceMap, openCom, told, connDBMap, opened, fetched>>
      BY <1>7 DEF Added, Dialling
    <2>. QED BY <2>1, TaskKeeps
  <1>. QED BY <1>1, <1>2, <1>3, <1>4, <1>5, <1>6, <1>7 DEF ComTask

LEMMA ListenKeeps ==
    ASSUME StartInv, Listen PROVE StartInv'
  <1>1. \A c \in Coms : SourcesInv(c)' BY SourcesUntouched DEF Listen
  <1>2. /\ main = "connect" /\ ~Telnet /\ main' \in {"run", "exit"}
        /\ \A c \in openCom : task[c] = "idle" /\ told[c] = comConf[c].sources
        /\ serviceMap' = serviceMap \ (Coms \ openCom)
        /\ main' = "run" => announced' = openCom
        /\ UNCHANGED <<comConf, openCom, task, told, fetched>>
    BY DEF Listen, AllConnected, CancelController, UnRegister, HookRpcBind, StartHealth, sourceVars
  <1>3. serviceMap' = openCom \cup {Health}
    BY <1>2, ComsAssumption DEF ComsAssumption, StartInv, StartTypeOK, PhaseInv
  <1>4. StartTypeOK' BY <1>2, <1>3 DEF StartInv, StartTypeOK
  <1>5. PhaseInv'
    <2>1. UNCHANGED Telnet BY <1>2 DEF Telnet
    <2>. QED BY <1>2, <1>3, <2>1 DEF StartInv, PhaseInv
  <1>. QED BY <1>1, <1>2, <1>4, <1>5 DEF StartInv

\* A call of a controller finds its own sources.
LEMMA CallFinds ==
    ASSUME StartInv, NEW c \in Coms, Serves(c), NEW s, Has(c, s)
    PROVE  /\ <<c, s>> \in opened
           /\ s = "model" => NewModel(c) = "conn"
  <1>1. c \in openCom /\ ~Telnet /\ task[c] = "idle" /\ told[c] = comConf[c].sources
    BY ComsAssumption DEF ComsAssumption, Serves, StartInv, PhaseInv
  <1>2. s \in told[c] BY <1>1 DEF Has
  <1>3. s = "model" => <<c, FirstDriver(c)>> \in dataBaseCache
    BY <1>1, <1>2 DEF StartInv, SourcesInv
  <1>. QED BY <1>2, <1>3 DEF StartInv, SourcesInv, NewModel

LEMMA FetchKeeps ==
    ASSUME StartInv, NEW outcome, outcome \notin {"unopened", "panic"}, Fetches(outcome)
    PROVE  StartInv'
  <1>1. \A c \in Coms : SourcesInv(c)' BY SourcesUntouched DEF Fetches
  <1>2. /\ UNCHANGED <<comConf, serviceMap, openCom, task, told, announced>>
        /\ main' \in {main, "exit"} /\ fetched' = outcome
    BY DEF Fetches, sourceVars
  <1>3. UNCHANGED Telnet BY <1>2 DEF Telnet
  <1>4. StartTypeOK' BY <1>2 DEF StartInv, StartTypeOK
  <1>5. PhaseInv' BY <1>2, <1>3 DEF StartInv, PhaseInv
  <1>. QED BY <1>1, <1>2, <1>4, <1>5 DEF StartInv

LEMMA CallKeeps ==
    ASSUME StartInv, NEW c \in Coms, NEW d \in Coms, CallModel(c, d) \/ CallCache(c, d)
    PROVE  StartInv'
  <1>1. CASE CallModel(c, d)
    <2>1. Serves(c) BY <1>1 DEF CallModel
    <2>2. PICK outcome \in {"foreign", "unregistered", "conn"} : Fetches(outcome)
      <3>1. CASE c # d BY <1>1, <3>1 DEF CallModel, Located
      <3>2. CASE c = d /\ ~Has(c, "model") BY <1>1, <3>2 DEF CallModel, Located
      <3>3. CASE c = d /\ Has(c, "model")
        BY <1>1, <2>1, <3>3, CallFinds DEF CallModel, Located
      <3>. QED BY <3>1, <3>2, <3>3
    <2>. QED BY <2>2, FetchKeeps
  <1>2. CASE CallCache(c, d)
    <2>1. Serves(c) BY <1>2 DEF CallCache
    <2>2. PICK outcome \in {"foreign", "unregistered", "conn", "error"} : Fetches(outcome)
      <3>1. CASE c # d BY <1>2, <3>1 DEF CallCache, Located
      <3>2. CASE c = d /\ ~Has(c, "cache") BY <1>2, <3>2 DEF CallCache, Located
      <3>3. CASE c = d /\ Has(c, "cache")
        BY <1>2, <2>1, <3>3, CallFinds DEF CallCache, Located, DoCache
      <3>. QED BY <3>1, <3>2, <3>3
    <2>. QED BY <2>2, FetchKeeps
  <1>. QED BY <1>1, <1>2

\* What a component was told is open is open, and its model has dialled a
\* database of db.conf or is about to; when the dao listens, the controllers
\* registered are those of the open components, and all of these have been
\* told all their sources (dao.go Run).
THEOREM StartInvariant == DaoStartSpec => []StartInv
  <1>1. DaoStartInit => StartInv BY StartStarts
  <1>2. StartInv /\ [DaoStartNext]_daoStartVars => StartInv'
    <2>. SUFFICES ASSUME StartInv, [DaoStartNext]_daoStartVars PROVE StartInv' OBVIOUS
    <2>1. CASE TelnetEnds BY <2>1, ProgramEnds DEF TelnetEnds
    <2>2. CASE UNCHANGED daoStartVars
      <3>1. UNCHANGED <<comConf, sourceVars>> BY <2>2 DEF daoStartVars, sourceVars
      <3>2. UNCHANGED Telnet BY <3>1 DEF Telnet
      <3>3. \A c \in Coms : SourcesInv(c)' BY <3>1, SourcesUntouched
      <3>. QED BY <2>2, <3>2, <3>3 DEF daoStartVars, StartInv, StartTypeOK, PhaseInv
    <2>. QED
      BY <2>1, <2>2, RegControllerKeeps, ComTaskKeeps, CallKeeps, ComRunKeeps, ListenKeeps
      DEF DaoStartNext
  <1>. QED BY <1>1, <1>2, PTL DEF DaoStartSpec

\* What a dao tells the apps of it can serve: the controllers are registered
\* and their sources open, so that no call ends the program over a source of
\* its own (dao.go Run, com_model.go Conn).
THEOREM StartServesAnnounced == DaoStartSpec => []AnnouncedIsServed
  <1>1. StartInv => AnnouncedIsServed
    <2>. SUFFICES ASSUME StartInv, main = "run"
                  PROVE  /\ serviceMap = announced \cup {Health}
                         /\ \A c \in announced :
                             /\ comConf[c].on = "on"
                             /\ Has(c, "model") =>
                                   \E d \in comConf[c].db : <<c, d>> \in dataBaseCache
                             /\ \A s \in comConf[c].sources : <<c, s>> \in opened
      BY DEF AnnouncedIsServed, StartInv
    <2>1. ASSUME NEW c \in openCom
          PROVE  /\ Has(c, "model") => \E d \in comConf[c].db : <<c, d>> \in dataBaseCache
                 /\ \A s \in comConf[c].sources : <<c, s>> \in opened
      <3>1. c \in Coms /\ told[c] = comConf[c].sources /\ ~Telnet /\ task[c] = "idle"
        BY DEF StartInv, StartTypeOK, PhaseInv
      <3>2. SourcesInv(c) BY <3>1 DEF StartInv
      <3>3. Has(c, "model") => Dialable(c) /\ <<c, FirstDriver(c)>> \in dataBaseCache
        BY <3>1, <3>2 DEF SourcesInv, Has
      <3>. QED BY <3>1, <3>2, <3>3, FirstDriverConfigured DEF SourcesInv
    <2>. QED BY <2>1 DEF StartInv, PhaseInv
  <1>. QED BY <1>1, StartInvariant, PTL

-----------------------------------------------------------------------------
(* Transactions.                                                           *)

Running == [phase : {"begin", "run"}, isTx : BOOLEAN, began : BOOLEAN,
            nested : BOOLEAN, own : Nat, stray : Nat]

TxTypeOK ==
    /\ running \in [Gors -> Seq(Running)]
    /\ runModel \in [Gors -> {NoOrm} \cup (Gors \X Nat)]

\* All of what ran in a transaction that began has run in it.
Faithful(tx) ==
    /\ tx.began => tx.isTx
    /\ tx.began \/ tx.phase = "begin" => tx.stray = 0

\* Of a goroutine: only its innermost transaction holds no other one, and as
\* long as that is so its orm is the one that is registered.
GorInv(g) ==
    /\ \A i \in 1 .. Depth(g) - 1 : running[g][i].nested
    /\ Depth(g) > 0 /\ ~Innermost(g).nested =>
        /\ runModel[g] = <<g, Depth(g)>>
        /\ Faithful(Innermost(g))

TxInv ==
    /\ TxTypeOK
    /\ \A g \in Gors : GorInv(g)
    /\ TransactionIsAtomic

LEMMA TxStarts == TxInit => TxInv
  <1>. SUFFICES ASSUME TxInit PROVE TxInv OBVIOUS
  <1>1. \A g \in Gors : Depth(g) = 0 BY DEF TxInit, Depth
  <1>. QED
    BY <1>1 DEF TxInit, TxInv, TxTypeOK, GorInv, TransactionIsAtomic, NotYet, NoOrm

\* What goroutine g does says nothing of another one.
LEMMA GorSpared ==
    ASSUME NEW h \in Gors, GorInv(h), UNCHANGED <<running[h], runModel[h]>>
    PROVE  GorInv(h)'
  BY DEF GorInv, Faithful, Depth, Innermost

LEMMA CreateKeeps ==
    ASSUME TxInv, NEW g \in Gors, CreateStackOrm(g) PROVE TxInv'
  <1>. DEFINE inner == [phase |-> "begin", isTx |-> FALSE, began |-> FALSE,
                        nested |-> FALSE, own |-> 0, stray |-> 0]
              outer == [i \in DOMAIN running[g] |-> [running[g][i] EXCEPT !.nested = TRUE]]
  <1>1. running[g] \in Seq(Running) /\ Len(running[g]) \in Nat BY DEF TxInv, TxTypeOK
  <1>2. outer \in Seq(Running) /\ Len(outer) = Len(running[g])
    <2>1. DOMAIN running[g] = 1 .. Len(running[g]) BY <1>1
    <2>2. ASSUME NEW i \in 1 .. Len(running[g])
          PROVE  [running[g][i] EXCEPT !.nested = TRUE] \in Running
      <3>1. running[g][i] \in Running BY <1>1
      <3>. QED BY <3>1 DEF Running
    <2>3. outer \in [1 .. Len(running[g]) -> Running] BY <2>1, <2>2
    <2>. HIDE DEF outer
    <2>. QED BY <1>1, <2>3
  <1>3. running' = [running EXCEPT ![g] = Append(outer, inner)]
    BY DEF CreateStackOrm
  <1>4. inner \in Running BY DEF Running
  <1>. HIDE DEF inner
  <1>5. /\ Append(outer, inner) \in Seq(Running)
        /\ Len(Append(outer, inner)) = Len(outer) + 1
        /\ Append(outer, inner)[Len(outer) + 1] = inner
        /\ \A i \in 1 .. Len(outer) : Append(outer, inner)[i] = outer[i]
    BY <1>2, <1>4
  <1>. HIDE DEF outer
  <1>6. TxTypeOK'
    <2>1. runModel' \in [Gors -> {NoOrm} \cup (Gors \X Nat)]
      BY <1>1 DEF CreateStackOrm, GoId, Depth, TxInv, TxTypeOK
    <2>2. running' \in [Gors -> Seq(Running)] BY <1>3, <1>5 DEF TxInv, TxTypeOK
    <2>. QED BY <2>1, <2>2 DEF TxTypeOK
  <1>7. ASSUME NEW h \in Gors PROVE GorInv(h)'
    <2>1. CASE h # g
      BY <1>3, <2>1, GorSpared DEF TxInv, TxTypeOK, CreateStackOrm, GoId
    <2>2. CASE h = g
      <3>1. running'[g] = Append(outer, inner) BY <1>3 DEF TxInv, TxTypeOK
      <3>2. Depth(g)' = Len(running[g]) + 1 BY <1>2, <1>5, <3>1 DEF Depth
      <3>3. Innermost(g)' = inner BY <1>2, <1>5, <3>1, <3>2 DEF Innermost, Depth, Last
      <3>4. runModel'[g] = <<g, Depth(g)'>>
        BY <1>1, <3>2 DEF CreateStackOrm, GoId, Depth, TxInv, TxTypeOK
      <3>5. \A i \in 1 .. Len(running[g]) : running'[g][i].nested
        BY <1>1, <1>2, <1>5, <3>1 DEF outer, Running
      <3>6. Faithful(inner) BY DEF inner, Faithful
      <3>. QED BY <1>1, <2>2, <3>2, <3>3, <3>4, <3>5, <3>6 DEF GorInv
    <2>. QED BY <2>1, <2>2
  <1>. QED BY <1>6, <1>7 DEF TxInv, CreateStackOrm, TransactionIsAtomic

LEMMA ReplacedKeeps ==
    ASSUME TxInv, NEW g \in Gors, Depth(g) > 0, NEW r \in Running,
           running' = [running EXCEPT ![g][Depth(g)] = r],
           r.nested = Innermost(g).nested,
           ~r.nested => Faithful(r),
           UNCHANGED <<runModel, ended>>
    PROVE  TxInv'
  <1>1. running[g] \in Seq(Running) /\ Len(running[g]) \in Nat BY DEF TxInv, TxTypeOK
  <1>. DEFINE n == Len(running[g])
              changed == [running[g] EXCEPT ![n] = r]
  <1>2. n \in 1 .. n /\ Depth(g) = n BY <1>1 DEF Depth
  <1>3. running' = [running EXCEPT ![g] = changed] BY <1>2
  <1>4. /\ changed \in Seq(Running) /\ Len(changed) = n /\ changed[n] = r
        /\ \A i \in 1 .. n - 1 : changed[i] = running[g][i]
    BY <1>1, <1>2
  <1>. HIDE DEF changed
  <1>5. TxTypeOK'
    <2>1. running' \in [Gors -> Seq(Running)] BY <1>3, <1>4 DEF TxInv, TxTypeOK
    <2>. QED BY <2>1 DEF TxInv, TxTypeOK
  <1>6. ASSUME NEW h \in Gors PROVE GorInv(h)'
    <2>1. CASE h # g BY <1>3, <2>1, GorSpared DEF TxInv, TxTypeOK
    <2>2. CASE h = g
      <3>1. running'[g] = changed BY <1>3 DEF TxInv, TxTypeOK
      <3>2. Depth(g)' = n /\ Innermost(g)' = r BY <1>4, <3>1 DEF Depth, Innermost, Last
      <3>3. GorInv(g) BY DEF TxInv
      <3>. QED BY <1>2, <1>4, <2>2, <3>1, <3>2, <3>3 DEF GorInv
    <2>. QED BY <2>1, <2>2
  <1>. QED BY <1>5, <1>6 DEF TxInv, TransactionIsAtomic

LEMMA InnermostRunning ==
    ASSUME TxInv, NEW g \in Gors, Depth(g) > 0
    PROVE  Innermost(g) \in Running /\ Innermost(g) = running[g][Depth(g)] /\ Depth(g) \in Nat
  BY DEF TxInv, TxTypeOK, Depth, Innermost, Last

LEMMA BeginKeeps ==
    ASSUME TxInv, NEW g \in Gors, BeginTx(g) \/ BeginFails(g) PROVE TxInv'
  <1>1. Depth(g) > 0 BY DEF BeginTx, BeginFails
  <1>. DEFINE top == running[g][Depth(g)]
              asTx == [top EXCEPT !.phase = "run", !.isTx = TRUE, !.began = TRUE]
              without == [top EXCEPT !.phase = "run"]
  <1>2. top \in Running /\ Innermost(g) = top BY <1>1, InnermostRunning
  <1>3. GorInv(g) BY DEF TxInv
  <1>4. CASE BeginTx(g)
    <2>1. running' = [running EXCEPT ![g][Depth(g)] = asTx] BY <1>4 DEF BeginTx
    <2>2. /\ asTx \in Running /\ asTx.nested = top.nested /\ asTx.isTx
          /\ asTx.stray = top.stray
      BY <1>2 DEF Running
    <2>. HIDE DEF asTx
    <2>3. UNCHANGED <<runModel, ended>> /\ top.phase = "begin" BY <1>2, <1>4 DEF BeginTx
    <2>4. ~asTx.nested => Faithful(asTx) BY <1>1, <1>2, <1>3, <2>2, <2>3 DEF GorInv, Faithful
    <2>. QED BY <1>1, <1>2, <2>1, <2>2, <2>3, <2>4, ReplacedKeeps
  <1>5. CASE BeginFails(g)
    <2>1. running' = [running EXCEPT ![g][Depth(g)] = without] BY <1>5 DEF BeginFails
    <2>2. /\ without \in Running /\ without.nested = top.nested /\ without.isTx = top.isTx
          /\ without.began = top.began /\ without.stray = top.stray
      BY <1>2 DEF Running
    <2>. HIDE DEF without
    <2>3. UNCHANGED <<runModel, ended>> /\ top.phase = "begin" BY <1>2, <1>5 DEF BeginFails
    <2>4. ~without.nested => Faithful(without)
      BY <1>1, <1>2, <1>3, <2>2, <2>3 DEF GorInv, Faithful
    <2>. QED BY <1>1, <1>2, <2>1, <2>2, <2>3, <2>4, ReplacedKeeps
  <1>. QED BY <1>4, <1>5

\* A statement inside a transaction that holds no other one finds its orm.
LEMMA RawKeeps ==
    ASSUME TxInv, NEW g \in Gors, Raw(g) PROVE TxInv'
  <1>. DEFINE top == running[g][Depth(g)]
              mine == InTx(New(g)) /\ New(g) = <<g, Depth(g)>>
              inTx == [top EXCEPT !.own = @ + 1]
              outside == [top EXCEPT !.stray = @ + 1]
  <1>1. Depth(g) > 0 /\ Innermost(g).phase = "run" BY DEF Raw, Inside
  <1>2. top \in Running /\ Innermost(g) = top /\ Depth(g) \in Nat BY <1>1, InnermostRunning
  <1>3. GorInv(g) BY DEF TxInv
  <1>4. running' = [running EXCEPT ![g][Depth(g)] = IF mine THEN inTx ELSE outside]
    BY <1>2 DEF Raw
  <1>5. UNCHANGED <<runModel, ended>> BY DEF Raw
  <1>6. ~top.nested /\ top.began => mine
    <2>. SUFFICES ASSUME ~top.nested, top.began PROVE mine OBVIOUS
    <2>1. New(g) = <<g, Depth(g)>> /\ top.isTx
      BY <1>1, <1>2, <1>3 DEF GorInv, Faithful, New, Registered, GoId
    <2>. QED BY <1>2, <2>1 DEF InTx, NoOrm
  <1>. HIDE DEF mine
  <1>7. CASE mine
    <2>1. /\ inTx \in Running /\ inTx.nested = top.nested /\ inTx.isTx = top.isTx
          /\ inTx.began = top.began /\ inTx.stray = top.stray /\ inTx.phase = top.phase
      BY <1>2 DEF Running
    <2>2. running' = [running EXCEPT ![g][Depth(g)] = inTx]
      BY <1>4, <1>7
    <2>. HIDE DEF inTx
    <2>3. ~inTx.nested => Faithful(inTx) BY <1>1, <1>2, <1>3, <2>1 DEF GorInv, Faithful
    <2>. QED BY <1>1, <1>2, <1>5, <2>1, <2>2, <2>3, ReplacedKeeps
  <1>8. CASE ~mine
    <2>1. /\ outside \in Running /\ outside.nested = top.nested /\ outside.isTx = top.isTx
          /\ outside.began = top.began /\ outside.phase = top.phase
      BY <1>2 DEF Running
    <2>2. running' = [running EXCEPT ![g][Depth(g)] = outside]
      BY <1>4, <1>8
    <2>3. ~top.nested => ~top.began BY <1>6, <1>8
    <2>. HIDE DEF outside
    <2>4. ~outside.nested => Faithful(outside)
      BY <1>1, <1>2, <2>1, <2>3 DEF Faithful
    <2>. QED BY <1>1, <1>2, <1>5, <2>1, <2>2, <2>4, ReplacedKeeps
  <1>. QED BY <1>7, <1>8

\* A transaction returns: what is left of the goroutine's holds it no more,
\* but has held it.
LEMMA ReturnKeeps ==
    ASSUME TxInv, NEW g \in Gors, Inside(g), NEW asked, NEW fails, NEW committed \in BOOLEAN,
           TxReturns(g, asked, fails, committed),
           committed \/ fails, asked = "error" => ~committed
    PROVE  TxInv'
  <1>1. running[g] \in Seq(Running) /\ Len(running[g]) \in Nat BY DEF TxInv, TxTypeOK
  <1>. DEFINE n == Len(running[g])
              front == Front(running[g])
  <1>2. n > 0 /\ Depth(g) = n BY <1>1 DEF Inside, Depth
  <1>3. /\ front \in Seq(Running) /\ Len(front) = n - 1
        /\ \A i \in 1 .. n - 1 : front[i] = running[g][i]
    <2>1. front = [i \in 1 .. n - 1 |-> running[g][i]] BY <1>1, <1>2 DEF Front
    <2>2. front \in [1 .. n - 1 -> Running] BY <1>1, <1>2, <2>1
    <2>3. n - 1 \in Nat BY <1>1, <1>2
    <2>. HIDE DEF front
    <2>. QED BY <2>1, <2>2, <2>3
  <1>. HIDE DEF front
  <1>4. running' = [running EXCEPT ![g] = front] /\ runModel' = [runModel EXCEPT ![g] = NoOrm]
    BY DEF TxReturns, RemoveStackOrm, GoId, front
  <1>5. TxTypeOK' BY <1>3, <1>4 DEF TxInv, TxTypeOK
  <1>6. ASSUME NEW h \in Gors PROVE GorInv(h)'
    <2>1. CASE h # g BY <1>4, <2>1, GorSpared DEF TxInv, TxTypeOK
    <2>2. CASE h = g
      <3>1. running'[g] = front BY <1>4 DEF TxInv, TxTypeOK
      <3>2. Depth(g)' = n - 1 BY <1>3, <3>1 DEF Depth
      <3>3. \A i \in 1 .. n - 1 : running'[g][i].nested
        BY <1>2, <1>3, <3>1 DEF TxInv, GorInv
      <3>4. n - 1 > 0 => Innermost(g)'.nested
        BY <1>1, <1>2, <3>1, <3>2, <3>3 DEF Innermost, Depth, Last
      <3>. QED BY <1>1, <2>2, <3>2, <3>3, <3>4 DEF GorInv
    <2>. QED BY <2>1, <2>2
  <1>7. TransactionIsAtomic'
    <2>. DEFINE top == Innermost(g)
    <2>1. top \in Running BY <1>2, <1>1, InnermostRunning
    <2>2. GorInv(g) BY DEF TxInv
    <2>3. top.began /\ ~top.nested => top.stray = 0
      BY <1>1, <1>2, <2>2 DEF GorInv, Faithful
    <2>4. /\ ended'.asked = asked /\ ended'.err = fails
          /\ ended'.kept <=> (top.stray > 0) \/ (committed /\ top.own > 0)
          /\ ended'.dropped <=> ~committed /\ top.own > 0
          /\ ended'.clean <=> top.began /\ ~top.nested
      BY DEF TxReturns
    <2>. HIDE DEF top
    <2>5. ended'.clean => (ended'.kept => committed) BY <2>3, <2>4
    <2>. QED BY <2>4, <2>5 DEF TransactionIsAtomic
  <1>. QED BY <1>5, <1>6, <1>7 DEF TxInv

LEMMA EndKeeps ==
    ASSUME TxInv, NEW g \in Gors,
           \/ Commit(g) \/ Rollback(g) \/ Panics(g)
           \/ \E kept \in BOOLEAN : CommitFails(g, kept)
    PROVE  TxInv'
  <1>1. CASE Commit(g)
    <2>1. Innermost(g).isTx \in BOOLEAN
      BY <1>1, InnermostRunning DEF Commit, Inside, Running
    <2>. QED BY <1>1, <2>1, ReturnKeeps DEF Commit
  <1>2. CASE Rollback(g) BY <1>2, ReturnKeeps DEF Rollback
  <1>3. CASE Panics(g) BY <1>3, ReturnKeeps DEF Panics
  <1>4. ASSUME NEW kept \in BOOLEAN, CommitFails(g, kept) PROVE TxInv'
    BY <1>4, ReturnKeeps DEF CommitFails
  <1>. QED BY <1>1, <1>2, <1>3, <1>4

\* The innermost transaction of a goroutine, as long as it holds no other, owns
\* the orm that is registered for the goroutine, and if it began nothing ran
\* outside of it (gt_model.go New, Transaction).
THEOREM TxInvariant == TxSpec => []TxInv
  <1>1. TxInit => TxInv BY TxStarts
  <1>2. TxInv /\ [TxNext]_txVars => TxInv'
    <2>. SUFFICES ASSUME TxInv, [TxNext]_txVars PROVE TxInv' OBVIOUS
    <2>1. ASSUME NEW g \in Gors, CreateStackOrm(g) \/ TxStep(g) PROVE TxInv'
      BY <2>1, CreateKeeps, BeginKeeps, RawKeeps, EndKeeps DEF TxStep
    <2>2. CASE UNCHANGED txVars
      <3>1. UNCHANGED <<running, runModel, ended>> BY <2>2 DEF txVars
      <3>2. \A g \in Gors : GorInv(g)' BY <3>1, GorSpared DEF TxInv
      <3>. QED BY <3>1, <3>2 DEF TxInv, TxTypeOK, TransactionIsAtomic
    <2>. QED BY <2>1, <2>2 DEF TxNext
  <1>. QED BY <1>1, <1>2, PTL DEF TxSpec

\* A transaction that began and held no other one is all or nothing, for any
\* number of goroutines and connections and any nesting (gt_model.go).
THEOREM TxIsAtomic == TxSpec => []TransactionIsAtomic
  BY TxInvariant, PTL DEF TxInv

-----------------------------------------------------------------------------
(* The job queue.                                                          *)

QueueTypeOK ==
    /\ maxGo \in Nat \ {0} /\ currentGo \in Int /\ cast \in Nat
    /\ jobQueue \in Seq(Int)
    /\ consumer \in [Consumers -> {"none", "starting", "waiting", "executing", "leaving"}]
    /\ job \in [Consumers -> Int]
    /\ caster \in [Casters -> {"idle", "assisting", "sending"}]

\* The first consumer is alone: it is counted, no assistant has been started or
\* is about to be.
AloneInv ==
    /\ currentGo = 1
    /\ \A p \in Casters : caster[p] # "assisting"
    /\ \A a \in Assistants : consumer[a] = "none"
    /\ consumer[MainRun] \in {"waiting", "executing"}

\* The jobs that wait are the last that were cast, in their order, and the one
\* that is executed is the one before them.
OrderInv ==
    /\ \A i \in 1 .. Len(jobQueue) : jobQueue[i] = cast - Len(jobQueue) + i
    /\ consumer[MainRun] = "executing" => job[MainRun] = cast - Len(jobQueue)

QueueInv == QueueTypeOK /\ (maxGo = 1 => AloneInv /\ OrderInv)

LEMMA QueueStarts == QueueInit => QueueInv
  BY QueueAssumption
  DEF QueueAssumption, QueueInit, QueueInv, QueueTypeOK, AloneInv, OrderInv, Consumers

LEMMA CastKeeps ==
    ASSUME QueueInv, NEW p \in Casters, Cast(p) PROVE QueueInv'
  <1>1. CASE CheckGo(p)
    BY <1>1 DEF CheckGo, QueueInv, QueueTypeOK, AloneInv, OrderInv
  <1>2. CASE Assist(p)
    <2>1. QueueTypeOK'
      BY <1>2, QueueAssumption
      DEF QueueAssumption, Assist, QueueInv, QueueTypeOK, Consumers
    <2>2. maxGo # 1 BY <1>2 DEF Assist, QueueInv, AloneInv
    <2>. QED BY <1>2, <2>1, <2>2 DEF Assist, QueueInv
  <1>3. CASE SendJob(p)
    <2>1. /\ jobQueue \in Seq(Int) /\ cast \in Nat /\ cast' = cast + 1
          /\ jobQueue' = Append(jobQueue, cast + 1)
          /\ UNCHANGED <<maxGo, currentGo, consumer, job>>
      BY <1>3 DEF SendJob, QueueInv, QueueTypeOK
    <2>2. /\ jobQueue' \in Seq(Int) /\ Len(jobQueue') = Len(jobQueue) + 1
          /\ \A i \in 1 .. Len(jobQueue) : jobQueue'[i] = jobQueue[i]
          /\ jobQueue'[Len(jobQueue) + 1] = cast + 1 /\ Len(jobQueue) \in Nat
      BY <2>1
    <2>3. QueueTypeOK' BY <1>3, <2>1, <2>2 DEF SendJob, QueueInv, QueueTypeOK
    <2>4. ASSUME maxGo = 1 PROVE AloneInv'
      BY <1>3, <2>4 DEF SendJob, QueueInv, QueueTypeOK, AloneInv
    <2>5. ASSUME maxGo = 1 PROVE OrderInv'
      BY <2>1, <2>2, <2>5 DEF QueueInv, OrderInv
    <2>. QED BY <2>1, <2>3, <2>4, <2>5 DEF QueueInv
  <1>. QED BY <1>1, <1>2, <1>3 DEF Cast

LEMMA WorkKeeps ==
    ASSUME QueueInv, NEW w \in Consumers, Work(w) PROVE QueueInv'
  <1>0. QueueTypeOK BY DEF QueueInv
  <1>1. ASSUME maxGo = 1, w # MainRun PROVE FALSE
    <2>1. consumer[w] = "none" BY <1>1 DEF QueueInv, AloneInv, Consumers
    <2>. QED BY <2>1 DEF Work, CountGo, TakeJob, Finish, TireOut, LeaveQueue
  <1>2. CASE TakeJob(w)
    <2>1. /\ jobQueue \in Seq(Int) /\ jobQueue # << >> /\ jobQueue' = Tail(jobQueue)
          /\ job' = [job EXCEPT ![w] = Head(jobQueue)]
          /\ consumer' = [consumer EXCEPT ![w] = "executing"]
          /\ UNCHANGED <<maxGo, currentGo, caster, cast>>
      BY <1>0, <1>2 DEF TakeJob, QueueTypeOK
    <2>2. /\ jobQueue' \in Seq(Int) /\ Len(jobQueue) \in Nat /\ Len(jobQueue) > 0
          /\ Len(jobQueue') = Len(jobQueue) - 1
          /\ Head(jobQueue) = jobQueue[1] /\ jobQueue[1] \in Int
          /\ \A i \in 1 .. Len(jobQueue) - 1 : jobQueue'[i] = jobQueue[i + 1]
      BY <2>1
    <2>3. QueueTypeOK' BY <1>0, <2>1, <2>2 DEF QueueTypeOK
    <2>4. ASSUME maxGo = 1 PROVE AloneInv' /\ OrderInv'
      <3>1. w = MainRun BY <1>1, <2>4
      <3>2. consumer'[MainRun] = "executing" /\ job'[MainRun] = jobQueue[1]
        BY <1>0, <2>1, <2>2, <3>1 DEF QueueTypeOK
      <3>3. \A a \in Assistants : consumer'[a] = consumer[a]
        BY <1>0, <2>1, <3>1, QueueAssumption DEF QueueAssumption, QueueTypeOK, Consumers
      <3>4. AloneInv' BY <2>1, <2>4, <3>2, <3>3 DEF QueueInv, AloneInv
      <3>5. cast \in Nat /\ \A i \in 1 .. Len(jobQueue) : jobQueue[i] = cast - Len(jobQueue) + i
        BY <1>0, <2>4 DEF QueueInv, QueueTypeOK, OrderInv
      <3>6. OrderInv' BY <2>1, <2>2, <3>2, <3>5 DEF OrderInv
      <3>. QED BY <3>4, <3>6
    <2>. QED BY <2>1, <2>3, <2>4 DEF QueueInv
  <1>3. CASE Finish(w)
    <2>1. QueueTypeOK' BY <1>0, <1>3 DEF Finish, QueueTypeOK
    <2>2. ASSUME maxGo = 1 PROVE AloneInv' /\ OrderInv'
      <3>1. w = MainRun BY <1>1, <2>2
      <3>2. consumer'[MainRun] = "waiting" BY <1>0, <1>3, <3>1 DEF Finish, QueueTypeOK
      <3>3. \A a \in Assistants : consumer'[a] = consumer[a]
        BY <1>0, <1>3, <3>1, QueueAssumption
        DEF Finish, QueueAssumption, QueueTypeOK, Consumers
      <3>. QED BY <1>3, <2>2, <3>2, <3>3 DEF Finish, QueueInv, AloneInv, OrderInv
    <2>. QED BY <1>3, <2>1, <2>2 DEF Finish, QueueInv
  <1>4. CASE CountGo(w) \/ TireOut(w) \/ LeaveQueue(w)
    <2>1. /\ UNCHANGED <<maxGo, cast, jobQueue, job, caster>>
          /\ \E to \in {"waiting", "leaving", "none"} : consumer' = [consumer EXCEPT ![w] = to]
          /\ currentGo' \in {currentGo, currentGo + 1, currentGo - 1}
      BY <1>4 DEF CountGo, TireOut, LeaveQueue
    <2>3. QueueTypeOK' BY <1>0, <2>1 DEF QueueTypeOK
    <2>2. maxGo # 1
      BY <1>1, <1>4 DEF CountGo, TireOut, LeaveQueue, QueueInv, AloneInv
    <2>. QED BY <2>1, <2>2, <2>3 DEF QueueInv
  <1>. QED BY <1>2, <1>3, <1>4 DEF Work

\* With one consumer no assistant is ever started, and the jobs that wait are the
\* last that were cast, in their order (dao_queue.go cast, mainRun).
THEOREM QueueInvariant == QueueSpec => []QueueInv
  <1>1. QueueInit => QueueInv BY QueueStarts
  <1>2. QueueInv /\ [QueueNext]_queueVars => QueueInv'
    <2>. SUFFICES ASSUME QueueInv, [QueueNext]_queueVars PROVE QueueInv' OBVIOUS
    <2>1. CASE UNCHANGED queueVars
      BY <2>1 DEF queueVars, QueueInv, QueueTypeOK, AloneInv, OrderInv
    <2>. QED BY <2>1, CastKeeps, WorkKeeps DEF QueueNext
  <1>. QED BY <1>1, <1>2, PTL DEF QueueSpec

\* A queue of one consumer executes one job at a time, in the order of the
\* casts, for any number of casters and any length (dao_queue.go).
THEOREM QueueIsSerial == QueueSpec => []OneAtATime
  <1>1. QueueInv => OneAtATime
    <2>. SUFFICES ASSUME QueueInv, maxGo = 1
                  PROVE  /\ Cardinality(Executing) <= 1
                         /\ \A w \in Executing : job[w] + Len(jobQueue) = cast
      BY DEF OneAtATime
    <2>1. Executing \subseteq {MainRun}
      BY DEF Executing, Consumers, QueueInv, AloneInv
    <2>2. Cardinality(Executing) <= 1
      <3>1. CASE Executing = {} BY <3>1, FS_EmptySet
      <3>2. CASE Executing # {}
        <4>1. Executing = {MainRun} BY <2>1, <3>2
        <4>2. Cardinality({MainRun}) = 1 BY FS_Singleton
        <4>. QED BY <4>1, <4>2
      <3>. QED BY <3>1, <3>2
    <2>3. Len(jobQueue) \in Nat /\ cast \in Nat BY DEF QueueInv, QueueTypeOK
    <2>. QED BY <2>1, <2>2, <2>3 DEF Executing, QueueInv, OrderInv
  <1>. QED BY <1>1, QueueInvariant, PTL

-----------------------------------------------------------------------------
(* The heartbeats (HealthClient).                                          *)

HealthTypeOK ==
    /\ gateway \in BOOLEAN
    /\ port \in [Remotes -> Ports]
    /\ clientMap \in [Ports -> Ports \cup {0}]
    /\ pending \in SUBSET Remotes
    /\ beat \in {"sleeping", "beating", "calling", "scanning", "checking", "left"}
    /\ looked \in 0 .. Scanned

\* A gateway's client of an address leads there, to an app or into a broken connection.
ClientsLeadThere ==
    \A k \in Ports : clientMap[k] # 0 => clientMap[k] = k /\ k \in up \cup cut

\* The addresses called are ports of apps.  An address without a client is one of the
\* configuration, whose app has not had its turn.
AddressesAreKnown ==
    /\ \A p \in addrMap : \E r \in Remotes : port[r] = p
    /\ \A p \in addrMap : clientMap[p] = p \/ /\ p \in Remotes /\ port[p] = p
                                              /\ beat = "sleeping" \/ p \in pending

\* While the app is called its address has a client; while it is looked for its address
\* is not called.
HeartBeatInv ==
    /\ beat = "calling" => \A r \in Remotes : Current(r) => clientMap[port[r]] # 0
    /\ beat = "scanning" => \A r \in Remotes : Current(r) => port[r] \notin addrMap
    /\ beat = "checking" => pending = {}

HealthInv ==
    /\ HealthTypeOK
    /\ gateway => ClientsLeadThere /\ AddressesAreKnown /\ HeartBeatInv

LEMMA WindowsArePorts == \A r \in Remotes : r \in Ports /\ \A i \in 0 .. Scanned - 1 : r + i \in Ports
<1> TAKE r \in Remotes
<1> DEFINE last == r + (IF Tried > Scanned THEN Tried ELSE Scanned) - 1
<1>1. r .. last \subseteq Ports
  BY DEF Ports
<1>2. \A i \in 0 .. Scanned - 1 : r + i \in r .. last
  BY HealthAssumption
<1>3. 0 \in 0 .. Scanned - 1 /\ r + 0 = r
  BY HealthAssumption
<1> QED BY <1>1, <1>2, <1>3

LEMMA PortsAreNumbers == Ports \subseteq Nat \ {0}
BY HealthAssumption DEF Ports

LEMMA CurrentIsOne == ASSUME NEW r \in Remotes, NEW s \in Remotes, Current(r), Current(s) PROVE r = s
BY HealthAssumption DEF Current

LEMMA HealthTyped == HealthTypeOK /\ [HealthNext]_healthVars => HealthTypeOK'
<1> SUFFICES ASSUME HealthTypeOK, [HealthNext]_healthVars PROVE HealthTypeOK'
  OBVIOUS
<1> USE DEF HealthTypeOK
<1>0. 0 \in 0 .. Scanned
  BY HealthAssumption
<1>1. CASE \/ Check \/ Beat \/ AllBeaten \/ CloseHealth \/ (\E r \in Remotes : AppListens(r))
           \/ (\E p \in Ports : AppEnds(p)) \/ UNCHANGED healthVars
  BY <1>1 DEF Check, Beat, AllBeaten, CloseHealth, AppListens, AppEnds, healthVars, healthClientVars, loopVars
<1>2. ASSUME NEW r \in Remotes, Dial(r) PROVE HealthTypeOK'
  <2>1. CASE gateway /\ port[r] \in up
    BY <1>2, <2>1 DEF Dial
  <2>2. CASE ~(gateway /\ port[r] \in up)
    BY <1>0, <1>2, <2>2 DEF Dial, Scans
  <2> QED BY <2>1, <2>2
<1>3. ASSUME NEW r \in Remotes, Reuse(r) \/ BeatAnswered(r) PROVE HealthTypeOK'
  <2>1. CASE Reuse(r)
    BY <2>1 DEF Reuse, healthClientVars
  <2>2. CASE BeatAnswered(r)
    BY <1>0, <2>2 DEF BeatAnswered, Done
  <2> QED BY <1>3, <2>1, <2>2
<1>4. ASSUME NEW r \in Remotes, Failed(r) PROVE HealthTypeOK'
  BY <1>0, <1>4 DEF Failed, Scans
<1>5. ASSUME NEW r \in Remotes, Found(r) PROVE HealthTypeOK'
  <2>1. r + looked \in Ports
    BY <1>5, WindowsArePorts, HealthAssumption DEF Found
  <2> QED BY <1>0, <1>5, <2>1 DEF Found, Done
<1>6. ASSUME NEW r \in Remotes, NotThere(r) \/ NotFound(r) PROVE HealthTypeOK'
  <2>1. CASE NotThere(r)
    BY <2>1, HealthAssumption DEF NotThere, healthClientVars
  <2>2. CASE NotFound(r)
    BY <1>0, <2>2 DEF NotFound, Done, healthClientVars
  <2> QED BY <1>6, <2>1, <2>2
<1> QED BY <1>1, <1>2, <1>3, <1>4, <1>5, <1>6 DEF HealthNext, HeartBeat

LEMMA HealthStarts == HealthInit => HealthInv
<1> SUFFICES ASSUME HealthInit PROVE HealthInv
  OBVIOUS
<1>1. Remotes \subseteq Ports
  BY WindowsArePorts
<1>2. HealthTypeOK
  BY <1>1, HealthAssumption DEF HealthInit, HealthTypeOK
<1>3. ClientsLeadThere
  BY DEF HealthInit, ClientsLeadThere
<1>4. AddressesAreKnown
  BY DEF HealthInit, AddressesAreKnown
<1>5. HeartBeatInv
  BY DEF HealthInit, HeartBeatInv
<1> QED BY <1>2, <1>3, <1>4, <1>5 DEF HealthInv

\* Steps of a gateway's loop and of the apps it is a client of.
LEMMA GatewayStep ==
  ASSUME HealthInv, HealthNext, gateway
  PROVE  (ClientsLeadThere /\ AddressesAreKnown /\ HeartBeatInv)'
<1>0. /\ HealthTypeOK /\ HealthTypeOK'
      /\ ClientsLeadThere /\ AddressesAreKnown /\ HeartBeatInv
  BY HealthTyped DEF HealthInv
<1>n. Ports \subseteq Nat \ {0} /\ Remotes \subseteq Ports
  BY PortsAreNumbers, WindowsArePorts
<1>a. addrMap \subseteq Ports
  BY <1>0 DEF HealthTypeOK, AddressesAreKnown
<1>1. CASE Check \/ Beat \/ AllBeaten \/ CloseHealth
  <2>1. up' = up /\ port' = port /\ clientMap' = clientMap /\ cut' = cut /\ addrMap' = addrMap
    BY <1>1 DEF Check, Beat, AllBeaten, CloseHealth, healthClientVars
  <2>2. ClientsLeadThere'
    BY <1>0, <2>1 DEF ClientsLeadThere
  <2>3. /\ beat' \notin {"calling", "scanning"}
        /\ beat' = "checking" => pending' = {}
        /\ \A p \in Remotes : beat = "sleeping" \/ p \in pending => beat' = "sleeping" \/ p \in pending'
    BY <1>0, <1>1 DEF Check, Beat, AllBeaten, CloseHealth, HeartBeatInv
  <2>4. AddressesAreKnown'
    BY <1>0, <2>1, <2>3 DEF AddressesAreKnown
  <2>5. HeartBeatInv'
    BY <2>3 DEF HeartBeatInv
  <2> QED BY <2>2, <2>4, <2>5
<1>2. CASE (\E r \in Remotes : AppListens(r)) \/ (\E p \in Ports : AppEnds(p))
  <2>1. /\ port' = port /\ clientMap' = clientMap /\ addrMap' = addrMap
        /\ beat' = beat /\ pending' = pending
    BY <1>2 DEF AppListens, AppEnds, healthClientVars, loopVars
  <2>2. \A k \in Ports : clientMap[k] = k /\ k \in up \cup cut => k \in up' \cup cut'
    BY <1>2 DEF AppListens, AppEnds, healthClientVars
  <2>3. ClientsLeadThere'
    BY <1>0, <2>1, <2>2 DEF ClientsLeadThere
  <2>4. AddressesAreKnown' /\ HeartBeatInv'
    BY <1>0, <2>1 DEF AddressesAreKnown, HeartBeatInv, Current
  <2> QED BY <2>3, <2>4
<1>3. ASSUME NEW r \in Remotes, Dial(r), port[r] \in up
      PROVE  (ClientsLeadThere /\ AddressesAreKnown /\ HeartBeatInv)'
  <2>1. /\ up' = up /\ port' = port /\ addrMap' = addrMap /\ beat' = "calling" /\ pending' = pending
        /\ beat = "beating" /\ Current(r) /\ port[r] \in Ports
        /\ clientMap' = [clientMap EXCEPT ![port[r]] = port[r]] /\ cut' = cut \ {port[r]}
    BY <1>0, <1>3 DEF Dial, HealthTypeOK
  <2>2. \A k \in Ports : clientMap'[k] = IF k = port[r] THEN port[r] ELSE clientMap[k]
    BY <1>0, <2>1 DEF HealthTypeOK
  <2>3. ClientsLeadThere'
    BY <1>0, <1>3, <2>1, <2>2 DEF ClientsLeadThere
  <2>4. AddressesAreKnown'
    BY <1>0, <1>a, <2>1, <2>2 DEF AddressesAreKnown
  <2>5. \A s \in Remotes : Current(s)' => s = r
    BY <2>1, CurrentIsOne DEF Current
  <2>6. HeartBeatInv'
    BY <1>n, <2>1, <2>2, <2>5 DEF HeartBeatInv
  <2> QED BY <2>3, <2>4, <2>6
<1>4. ASSUME NEW r \in Remotes, (Dial(r) /\ port[r] \notin up) \/ Failed(r)
      PROVE  (ClientsLeadThere /\ AddressesAreKnown /\ HeartBeatInv)'
  <2>1. /\ up' = up /\ port' = port /\ beat' = "scanning" /\ pending' = pending
        /\ beat # "sleeping" /\ Current(r) /\ port[r] \in Ports
        /\ clientMap' = [clientMap EXCEPT ![port[r]] = 0] /\ cut' = cut \ {port[r]}
        /\ addrMap' = addrMap \ {port[r]}
    BY <1>0, <1>4 DEF Dial, Failed, Scans, HealthTypeOK
  <2>2. \A k \in Ports : clientMap'[k] = IF k = port[r] THEN 0 ELSE clientMap[k]
    BY <1>0, <2>1 DEF HealthTypeOK
  <2>3. ClientsLeadThere'
    BY <1>0, <2>1, <2>2 DEF ClientsLeadThere
  <2>4. AddressesAreKnown'
    BY <1>0, <1>a, <2>1, <2>2 DEF AddressesAreKnown
  <2>5. \A s \in Remotes : Current(s)' => s = r
    BY <2>1, CurrentIsOne DEF Current
  <2>6. HeartBeatInv'
    BY <2>1, <2>5 DEF HeartBeatInv
  <2> QED BY <2>3, <2>4, <2>6
<1>5. ASSUME NEW r \in Remotes, Reuse(r)
      PROVE  (ClientsLeadThere /\ AddressesAreKnown /\ HeartBeatInv)'
  <2>1. /\ up' = up /\ port' = port /\ clientMap' = clientMap /\ cut' = cut /\ addrMap' = addrMap
        /\ beat = "beating" /\ beat' = "calling" /\ pending' = pending
        /\ Current(r) /\ clientMap[port[r]] # 0
    BY <1>5 DEF Reuse, healthClientVars
  <2>2. ClientsLeadThere' /\ AddressesAreKnown'
    BY <1>0, <2>1 DEF ClientsLeadThere, AddressesAreKnown
  <2>3. \A s \in Remotes : Current(s)' => s = r
    BY <2>1, CurrentIsOne DEF Current
  <2>4. HeartBeatInv'
    BY <2>1, <2>3 DEF HeartBeatInv
  <2> QED BY <2>2, <2>4
<1>6. ASSUME NEW r \in Remotes, BeatAnswered(r)
      PROVE  (ClientsLeadThere /\ AddressesAreKnown /\ HeartBeatInv)'
  <2>1. /\ up' = up /\ port' = port /\ clientMap' = clientMap /\ cut' = cut
        /\ beat = "calling" /\ beat' = "beating" /\ pending' = pending \ {r}
        /\ Current(r) /\ port[r] \in Ports /\ addrMap' = addrMap \cup {port[r]}
    BY <1>0, <1>6 DEF BeatAnswered, Done, HealthTypeOK
  <2>2. clientMap[port[r]] = port[r]
    BY <1>0, <2>1 DEF HeartBeatInv, ClientsLeadThere
  <2>3. ClientsLeadThere' /\ HeartBeatInv'
    BY <1>0, <2>1 DEF ClientsLeadThere, HeartBeatInv
  <2>4. AddressesAreKnown'
    BY <1>0, <2>1, <2>2 DEF AddressesAreKnown
  <2> QED BY <2>3, <2>4
<1>7. ASSUME NEW r \in Remotes, Found(r)
      PROVE  (ClientsLeadThere /\ AddressesAreKnown /\ HeartBeatInv)'
  <2> DEFINE p == r + looked
  <2>1. /\ up' = up /\ beat = "scanning" /\ beat' = "beating" /\ pending' = pending \ {r}
        /\ Current(r) /\ p \in Ports /\ p \in up /\ p # 0
        /\ port' = [port EXCEPT ![r] = p] /\ clientMap' = [clientMap EXCEPT ![p] = p]
        /\ cut' = cut \ {p} /\ addrMap' = addrMap \cup {p}
    <3>1. p \in Ports
      BY <1>0, <1>7, WindowsArePorts, HealthAssumption DEF Found, HealthTypeOK
    <3> QED BY <1>7, <1>n, <3>1 DEF Found, Done
  <2> HIDE DEF p
  <2>2. \A k \in Ports : clientMap'[k] = IF k = p THEN p ELSE clientMap[k]
    BY <1>0, <2>1 DEF HealthTypeOK
  <2>3. \A s \in Remotes : port'[s] = IF s = r THEN p ELSE port[s]
    BY <1>0, <2>1 DEF HealthTypeOK
  <2>4. port[r] \notin addrMap
    BY <1>0, <2>1 DEF HeartBeatInv
  <2>5. ClientsLeadThere'
    BY <1>0, <2>1, <2>2 DEF ClientsLeadThere
  <2>6. ASSUME NEW a \in addrMap'
        PROVE  /\ \E s \in Remotes : port'[s] = a
               /\ clientMap'[a] = a \/ (a \in Remotes /\ port'[a] = a /\ a \in pending')
    <3>1. CASE a = p
      BY <2>1, <2>2, <2>3, <3>1
    <3>2. CASE a # p
      <4>1. a \in addrMap /\ a # port[r] /\ a \in Ports
        BY <1>a, <2>1, <2>4, <3>2
      <4>2. PICK s \in Remotes : port[s] = a
        BY <1>0, <4>1 DEF AddressesAreKnown
      <4>3. port'[s] = a
        BY <2>3, <4>1, <4>2
      <4>4. clientMap[a] = a \/ (a \in Remotes /\ port[a] = a /\ a \in pending)
        BY <1>0, <2>1, <4>1 DEF AddressesAreKnown
      <4> QED BY <2>1, <2>2, <2>3, <3>2, <4>1, <4>2, <4>3, <4>4
    <3> QED BY <3>1, <3>2
  <2>7. AddressesAreKnown'
    BY <2>6 DEF AddressesAreKnown
  <2>8. HeartBeatInv'
    BY <2>1 DEF HeartBeatInv
  <2> QED BY <2>5, <2>7, <2>8
<1>8. ASSUME NEW r \in Remotes, NotThere(r)
      PROVE  (ClientsLeadThere /\ AddressesAreKnown /\ HeartBeatInv)'
  <2>1. /\ up' = up /\ port' = port /\ clientMap' = clientMap /\ cut' = cut /\ addrMap' = addrMap
        /\ beat' = beat /\ pending' = pending
    BY <1>8 DEF NotThere, healthClientVars
  <2> QED BY <1>0, <2>1 DEF ClientsLeadThere, AddressesAreKnown, HeartBeatInv, Current
<1>9. ASSUME NEW r \in Remotes, NotFound(r)
      PROVE  (ClientsLeadThere /\ AddressesAreKnown /\ HeartBeatInv)'
  <2>1. /\ up' = up /\ port' = port /\ clientMap' = clientMap /\ cut' = cut /\ addrMap' = addrMap
        /\ beat = "scanning" /\ beat' = "beating" /\ pending' = pending \ {r} /\ Current(r)
    BY <1>9 DEF NotFound, Done, healthClientVars
  <2>2. port[r] \notin addrMap
    BY <1>0, <2>1 DEF HeartBeatInv
  <2>3. ClientsLeadThere' /\ HeartBeatInv'
    BY <1>0, <2>1 DEF ClientsLeadThere, HeartBeatInv
  <2>4. AddressesAreKnown'
    BY <1>0, <2>1, <2>2 DEF AddressesAreKnown
  <2> QED BY <2>3, <2>4
<1> QED BY <1>1, <1>2, <1>3, <1>4, <1>5, <1>6, <1>7, <1>8, <1>9 DEF HealthNext, HeartBeat

\* The inductive invariant: what the addresses a gateway calls, its clients and the
\* ports of its apps have to do with one another at each place of the loop.
THEOREM HealthInvariant == HealthSpec => []HealthInv
<1>1. HealthInv /\ UNCHANGED healthVars => HealthInv'
  BY DEF HealthInv, healthVars, healthClientVars, loopVars, HealthTypeOK, ClientsLeadThere,
         AddressesAreKnown, HeartBeatInv, Current
<1>2. HealthInv /\ HealthNext => gateway' = gateway
  BY DEF HealthNext, HeartBeat, Check, Beat, AllBeaten, CloseHealth, AppListens, AppEnds, Dial, Scans,
         Reuse, BeatAnswered, Failed, Found, NotThere, NotFound, Done
<1>3. HealthInv /\ [HealthNext]_healthVars => HealthInv'
  BY <1>1, <1>2, HealthTyped, GatewayStep DEF HealthInv
<1> QED BY <1>3, HealthStarts, PTL DEF HealthSpec

\* A gateway calls its apps where they were last seen, and when a turn is over none
\* without a client, for apps with any ports, common ones included.
THEOREM GatewayCallsItsClients == HealthSpec => []GatewayCallsClients
<1>1. HealthInv => GatewayCallsClients
  <2> SUFFICES ASSUME HealthInv, gateway
               PROVE  /\ addrMap \subseteq {port[r] : r \in Remotes}
                      /\ beat = "checking" => \A p \in addrMap : clientMap[p] = p /\ p \in up \cup cut
    BY DEF GatewayCallsClients
  <2>1. HealthTypeOK /\ ClientsLeadThere /\ AddressesAreKnown /\ HeartBeatInv
    BY DEF HealthInv
  <2>2. addrMap \subseteq {port[r] : r \in Remotes}
    BY <2>1 DEF AddressesAreKnown
  <2>3. ASSUME beat = "checking", NEW p \in addrMap PROVE clientMap[p] = p /\ p \in up \cup cut
    <3>1. clientMap[p] = p /\ p \in Ports
      BY <2>1, <2>3 DEF AddressesAreKnown, HeartBeatInv, HealthTypeOK
    <3> QED BY <2>1, <3>1, PortsAreNumbers DEF ClientsLeadThere
  <2> QED BY <2>2, <2>3
<1> QED BY <1>1, HealthInvariant, PTL
=============================================================================
