------------------------------ MODULE CallBreak ------------------------------
(***************************************************************************)
(* The circuit breaker of one service method (framework/call_break.go) and *)
(* the calls it guards (the breaker's part of CallClient.Do).  A call asks *)
(* Breaking before it starts and, when it is over, reports its outcome     *)
(* from a goroutine of its own; a loop started by Run ticks once a second, *)
(* trips the breaker, resumes it and resets the counters of its window.    *)
(* Run starts one more loop each time it is called.                        *)
(***************************************************************************)
EXTENDS Integers, FiniteSets

CONSTANTS
    Callers,    \* the goroutines that call the method
    Loops,      \* the loops Run may start
    RangeSec,   \* seconds of a window
    ResumeSec,  \* seconds a tripped breaker refuses calls
    RatioNum,   \* TimeoutRatio, as the fraction RatioNum / RatioDen
    RatioDen,
    MaxSum      \* bound: calls reported in one window

ASSUME BreakAssumption ==
    /\ RangeSec \in Nat \ {0} /\ ResumeSec \in Nat \ {0}
    /\ RatioNum \in Nat \ {0} /\ RatioDen \in Nat /\ RatioNum <= RatioDen
    /\ MaxSum \in Nat \ {0}

VARIABLES
    callSum, callTimeout, \* breaker.CallSum, CallTimeout
    windowTick,           \* breaker.Tick
    breaking,             \* breaker.Breaking
    resumeTick,           \* breaker.ResumeTick
    loop,                 \* where each loop of Run stands
    call,                 \* where each caller stands
    oldest,               \* seconds since the first report in callSum
    broken                \* seconds since the breaker tripped

breaker == <<callSum, callTimeout, windowTick, breaking, resumeTick>>
breakVars == <<breaker, loop, call, oldest, broken>>

SecondsCap == RangeSec + ResumeSec + 1
Later(s) == IF s < SecondsCap THEN s + 1 ELSE SecondsCap

Running == \E l \in Loops : loop[l] \in {"ready", "asleep"}
Started == \E l \in Loops : loop[l] # "off"

BreakInit ==
    /\ callSum = 0 /\ callTimeout = 0
    /\ windowTick = RangeSec
    /\ breaking = FALSE /\ resumeTick = 0
    /\ loop = [l \in Loops |-> "off"]
    /\ call = [c \in Callers |-> "idle"]
    /\ oldest = 0 /\ broken = 0

-----------------------------------------------------------------------------
(* The calls.                                                              *)

\* Breaking(cmd) answered false: the call starts.
LetIn(c) ==
    /\ Started
    /\ call[c] = "idle"
    /\ ~breaking
    /\ call' = [call EXCEPT ![c] = "calling"]
    /\ UNCHANGED <<breaker, loop, oldest, broken>>

\* The call is over; `go rpcBreak.Call(cmd, timeout)` has yet to run.
Return(c) ==
    /\ call[c] = "calling"
    /\ \E outcome \in {"answered", "timeout"} : call' = [call EXCEPT ![c] = outcome]
    /\ UNCHANGED <<breaker, loop, oldest, broken>>

\* Mutant: a call that timed out is counted, but not as a timeout.
CallMissesTimeout(c) ==
    /\ call[c] \in {"answered", "timeout"}
    /\ callSum < MaxSum
    /\ callSum' = callSum + 1
    /\ call' = [call EXCEPT ![c] = "idle"]
    /\ oldest' = IF callSum = 0 THEN 0 ELSE oldest
    /\ UNCHANGED <<callTimeout, windowTick, breaking, resumeTick, loop, broken>>

\* breakerManage.Call, whether or not the breaker has tripped meanwhile.
Call(c) ==
    /\ call[c] \in {"answered", "timeout"}
    /\ callSum < MaxSum
    /\ callSum' = callSum + 1
    /\ callTimeout' = IF call[c] = "timeout" THEN callTimeout + 1 ELSE callTimeout
    /\ call' = [call EXCEPT ![c] = "idle"]
    /\ oldest' = IF callSum = 0 THEN 0 ELSE oldest
    /\ UNCHANGED <<windowTick, breaking, resumeTick, loop, broken>>

-----------------------------------------------------------------------------
(* The loops.                                                              *)

Run(l) ==
    /\ loop[l] = "off"
    /\ loop' = [loop EXCEPT ![l] = "ready"]
    /\ UNCHANGED <<breaker, call, oldest, broken>>

\* Stop hands its message to a loop that is about to tick.
Stop(l) ==
    /\ loop[l] = "ready"
    /\ loop' = [loop EXCEPT ![l] = "done"]
    /\ UNCHANGED <<breaker, call, oldest, broken>>

ResetCounters ==
    /\ callSum' = 0
    /\ callTimeout' = 0
    /\ windowTick' = RangeSec
    /\ resumeTick' = 0

\* Mutant: the breaker resumes one tick early.
ResumingEarly ==
    /\ breaking
    /\ IF resumeTick - 1 > 1
       THEN resumeTick' = resumeTick - 1
            /\ UNCHANGED <<callSum, callTimeout, windowTick, breaking>>
       ELSE breaking' = FALSE /\ ResetCounters

Resuming ==
    /\ breaking
    /\ IF resumeTick - 1 > 0
       THEN resumeTick' = resumeTick - 1
            /\ UNCHANGED <<callSum, callTimeout, windowTick, breaking>>
       ELSE breaking' = FALSE /\ ResetCounters

OverRatio ==
    /\ callSum > 0 /\ callTimeout > 0
    /\ callTimeout * RatioDen >= RatioNum * callSum

Tripping ==
    /\ ~breaking /\ OverRatio
    /\ breaking' = TRUE
    /\ callSum' = 0 /\ callTimeout' = 0
    /\ resumeTick' = ResumeSec
    /\ windowTick' = 0

Counting ==
    /\ ~breaking /\ ~OverRatio
    /\ IF windowTick - 1 > 0
       THEN windowTick' = windowTick - 1 /\ UNCHANGED <<callSum, callTimeout, resumeTick>>
       ELSE ResetCounters
    /\ UNCHANGED breaking

\* One iteration of a loop of Run: breakerManage.Tick, then a second asleep.
Tick(l) ==
    /\ loop[l] = "ready"
    /\ loop' = [loop EXCEPT ![l] = "asleep"]
    /\ Resuming \/ Tripping \/ Counting
    /\ oldest' = IF callSum' = 0 THEN 0 ELSE oldest
    /\ broken' = IF breaking THEN broken ELSE 0
    /\ UNCHANGED call

\* One second passes; every loop got to tick in the second before.
BreakSecond ==
    /\ \A l \in Loops : loop[l] # "ready"
    /\ Running
    /\ loop' = [l \in Loops |-> IF loop[l] = "asleep" THEN "ready" ELSE loop[l]]
    /\ oldest' = IF callSum > 0 THEN Later(oldest) ELSE 0
    /\ broken' = IF breaking THEN Later(broken) ELSE 0
    /\ UNCHANGED <<breaker, call>>

-----------------------------------------------------------------------------
BreakNext ==
    \/ \E c \in Callers : LetIn(c) \/ Return(c) \/ Call(c)
    \/ \E l \in Loops : Run(l) \/ Stop(l) \/ Tick(l)
    \/ BreakSecond

BreakSpec == BreakInit /\ [][BreakNext]_breakVars

-----------------------------------------------------------------------------

\* The breaker keeps its times.  README.md:242 says that a tripped breaker
\* resumes after ResumeSec seconds (60 in its example): it does not resume
\* before.  And the ratio is one of calls reported in the last RangeSec
\* seconds: as long as a loop runs, nothing older is left in the counters of a
\* closed breaker, not even a report that came while it was refusing calls.
BreakerKeepsTime ==
    [][/\ breaking /\ ~breaking' => broken >= ResumeSec
       /\ (Running /\ ~breaking /\ callSum > 0) => oldest <= RangeSec]_breakVars

\* A method whose every call times out is broken again and again, as long as
\* calls are made and a loop runs: no reset comes before the ratio is read.
FailingMethodTrips ==
    (/\ <>[](Running /\ \A c \in Callers : call[c] # "answered")
     /\ []<>(\E c \in Callers : call[c] = "timeout")) => []<>breaking
=============================================================================
