------------------------------ MODULE CallQps ------------------------------
(***************************************************************************)
(* The statistics of remote calls (framework/call_qps.go): every call that *)
(* CallClient.Do ends reports its milliseconds in a goroutine of its own,  *)
(* a tick logs and clears the counters every three hours, and              *)
(* `app qps` (app.go, viewQps) asks for the counters and, in a second      *)
(* request, for the time they began.  Times of tick are numbered.          *)
(***************************************************************************)
EXTENDS Integers, Sequences

CONSTANTS
    Methods,    \* service methods that are called
    Times,      \* milliseconds calls take by the clock, when it is not put back
    MaxCalls,   \* bound: calls reported in one period
    MaxPeriods  \* bound: periods

ASSUME QpsAssumption ==
    Times \subseteq Nat /\ MaxCalls \in Nat /\ MaxPeriods \in Nat \ {0}

VARIABLES
    dict,       \* CallQps.dict: the counters of the methods in it
    beginTime,  \* CallQps.beginTime: the number of the period
    reported,   \* the times dict has counted, by method, in this period
    tickAt,     \* where the tick stands
    listed,     \* what the last tick logged
    shown       \* what `app qps` got: the list, its period, the begin it shows

qpsVars == <<dict, beginTime, reported, tickAt, listed, shown>>

NoCounters == [m \in {} |-> 0]
NotAsked   == [list |-> NoCounters, of |-> 0, begin |-> 0]

QpsInit ==
    /\ dict = NoCounters /\ beginTime = 1
    /\ reported = [m \in Methods |-> << >>]
    /\ tickAt = "asleep" /\ listed = NoCounters
    /\ shown = NotAsked

-----------------------------------------------------------------------------
First(ms) == [Count |-> 1, AvgMs |-> ms, MaxMs |-> ms, MinMs |-> ms]

\* Mutant: the slowest and the fastest are compared the wrong way round.
ThenSwapped(q, ms) ==
    [Count |-> q.Count + 1, AvgMs |-> (q.AvgMs + ms) \div 2,
     MaxMs |-> IF ms < q.MaxMs THEN ms ELSE q.MaxMs,
     MinMs |-> IF ms > q.MinMs THEN ms ELSE q.MinMs]

\* A further call: AvgMs gives the last one the weight of all before it.
Then(q, ms) ==
    [Count |-> q.Count + 1, AvgMs |-> (q.AvgMs + ms) \div 2,
     MaxMs |-> IF ms > q.MaxMs THEN ms ELSE q.MaxMs,
     MinMs |-> IF ms < q.MinMs THEN ms ELSE q.MinMs]

\* Qps.  A call that took no time at all counts as one millisecond, one that
\* ended before it began is not counted.
Qps(m, took) ==
    LET ms == IF took = 0 THEN 1 ELSE took
        q  == IF m \in DOMAIN dict THEN Then(dict[m], ms) ELSE First(ms)
    IN  /\ took >= 0
        /\ dict' = [k \in DOMAIN dict \cup {m} |-> IF k = m THEN q ELSE dict[k]]
        /\ reported' = [reported EXCEPT ![m] = Append(@, ms)]
        /\ UNCHANGED <<beginTime, tickAt, listed, shown>>

\* tick: list, the log, and then the reset, with the lock given back between.
TickLists ==
    /\ tickAt = "asleep" /\ beginTime < MaxPeriods
    /\ tickAt' = "listed" /\ listed' = dict
    /\ UNCHANGED <<dict, beginTime, reported, shown>>

TickResets ==
    /\ tickAt = "listed"
    /\ tickAt' = "asleep"
    /\ dict' = NoCounters /\ beginTime' = beginTime + 1
    /\ reported' = [m \in Methods |-> << >>]
    /\ UNCHANGED <<listed, shown>>

\* viewQps: Health.ComQps, answered from the event ComQps, ...
List ==
    /\ shown.of = 0
    /\ shown' = [list |-> dict, of |-> beginTime, begin |-> 0]
    /\ UNCHANGED <<dict, beginTime, reported, tickAt, listed>>

\* ... and Health.ComQpsBeginTime; -t asks again every second.
ComQpsBeginTime ==
    /\ shown.of # 0 /\ shown.begin = 0
    /\ shown' = [shown EXCEPT !.begin = beginTime]
    /\ UNCHANGED <<dict, beginTime, reported, tickAt, listed>>

Again ==
    /\ shown.begin # 0
    /\ shown' = NotAsked
    /\ UNCHANGED <<dict, beginTime, reported, tickAt, listed>>

QpsNext ==
    \/ \E m \in Methods, took \in Times \cup {-1} :
          Len(reported[m]) < MaxCalls /\ Qps(m, took)
    \/ TickLists \/ TickResets
    \/ List \/ ComQpsBeginTime \/ Again

QpsSpec == QpsInit /\ [][QpsNext]_qpsVars

-----------------------------------------------------------------------------
Took(m) == {reported[m][i] : i \in 1 .. Len(reported[m])}

\* The counters of a method are those of the calls reported since the last
\* reset, none lost between goroutines: their number, the slowest, the fastest,
\* and a mean that lies between, however the halves were rounded.  What is
\* shown as the begin is never earlier than the period the list is of.
QpsIsOfItsPeriod ==
    /\ \A m \in Methods : m \in DOMAIN dict <=> reported[m] # << >>
    /\ \A m \in DOMAIN dict :
          /\ dict[m].Count = Len(reported[m])
          /\ {dict[m].MinMs, dict[m].MaxMs} \subseteq Took(m)
          /\ \A ms \in Took(m) \cup {dict[m].AvgMs} : ms \in dict[m].MinMs .. dict[m].MaxMs
    /\ shown.begin # 0 => shown.begin >= shown.of
=============================================================================
