------------------------------ MODULE DayTimer ------------------------------
(***************************************************************************)
(* A daily timer (RegDay, app_timer.go; RunDay and dayLoop,                *)
(* framework/timer.go): the loop takes the local date and time apart, adds *)
(* the seconds of hour:minute to the Unix time of a midnight and waits     *)
(* until that has passed.  The local clock may be put back or forward by   *)
(* an hour on one of the days.                                             *)
(***************************************************************************)
EXTENDS Integers

CONSTANTS
    Hour,       \* steps of the clock in an hour
    Day,        \* steps in a day
    RunAt,      \* steps from midnight to hour:minute
    Changes,    \* when the clock may be changed
    MaxDays,    \* bound: the days of a run
    MaxRun      \* bound: how long the function runs

ASSUME DayAssumption ==
    /\ Hour \in Nat \ {0} /\ Day \in Nat /\ Changes \subseteq Nat
    /\ RunAt \in Hour .. Day - Hour - 2
    /\ MaxRun \in 0 .. Day - 2 * Hour - 3

VARIABLES
    change,     \* when the clock is changed, in this run
    by,         \* by how much: -Hour, 0 or Hour
    unix,       \* time.Now().Unix()
    day,        \* where the loop stands
    wakeAt,     \* the Unix time it waits for
    ran,        \* how long the function has been running
    dates       \* the local dates the function has been called on, and how often

dayVars == <<change, by, unix, day, wakeAt, ran, dates>>

\* The local clock: steps since the first midnight, and the Unix time of the
\* midnight a date begins with.
Local(u) == IF u >= change THEN u + by ELSE u
Date(u) == Local(u) \div Day
TimeOfDay(u) == Local(u) % Day
Midnight(d) == IF d * Day < change THEN d * Day ELSE d * Day - by

DayInit ==
    /\ change \in Changes
    /\ by \in {-Hour, 0, Hour}
    /\ unix \in 0 .. Day - 1
    /\ day = "aim" /\ wakeAt = 0 /\ ran = 0
    /\ dates = [d \in 0 .. MaxDays |-> 0]

-----------------------------------------------------------------------------
\* A bug: the timer always aims at the next day.
AimTomorrow ==
    /\ day = "aim"
    /\ wakeAt' = Midnight(Date(unix) + 1) + RunAt
    /\ day' = "wait"
    /\ UNCHANGED <<change, by, unix, ran, dates>>

\* dayLoop begins: hour:minute of today, or of tomorrow if that is over.
Aim ==
    /\ day = "aim"
    /\ wakeAt' = Midnight(IF TimeOfDay(unix) >= RunAt THEN Date(unix) + 1 ELSE Date(unix)) + RunAt
    /\ day' = "wait"
    /\ UNCHANGED <<change, by, unix, ran, dates>>

\* The time has passed: the function is called.
TimeDay ==
    /\ day = "wait" /\ unix > wakeAt
    /\ day' = "running"
    /\ ran' = 0
    /\ dates' = [dates EXCEPT ![Date(unix)] = @ + 1]
    /\ UNCHANGED <<change, by, unix, wakeAt>>

\* It returns; five seconds later the loop begins anew.
DayReturns ==
    /\ day = "running"
    /\ day' = "pause"
    /\ UNCHANGED <<change, by, unix, wakeAt, ran, dates>>

\* It panics: the panic is recovered, and the timer is over.
DayPanics ==
    /\ day = "running"
    /\ day' = "over"
    /\ UNCHANGED <<change, by, unix, wakeAt, ran, dates>>

\* The clock: the loop looks at it often enough (a hundredth of what is left).
DaySecond ==
    /\ unix < MaxDays * Day
    /\ \/ day = "wait" /\ unix <= wakeAt /\ UNCHANGED <<day, ran>>
       \/ day = "running" /\ ran < MaxRun /\ ran' = ran + 1 /\ UNCHANGED day
       \/ day = "pause" /\ day' = "aim" /\ UNCHANGED ran
    /\ unix' = unix + 1
    /\ UNCHANGED <<change, by, wakeAt, dates>>

DayNext == Aim \/ TimeDay \/ DayReturns \/ DayPanics \/ DaySecond

DaySpec == DayInit /\ [][DayNext]_dayVars

-----------------------------------------------------------------------------
\* No day goes by without the function having been called, as long as it does
\* not panic and runs for less than a day, even past midnight, and whatever
\* happens to the clock (dayLoop).
EveryDayRuns ==
    day # "over" =>
        \A d \in 1 .. MaxDays : d < Date(unix) => dates[d] > 0
=============================================================================
