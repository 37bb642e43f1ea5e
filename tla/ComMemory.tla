------------------------------ MODULE ComMemory ------------------------------
(***************************************************************************)
(* An in-memory data source of a dao (com_memory.go): a map of keys, some  *)
(* of which have a deadline, and the sweep (MemoryTimeout) a timer of      *)
(* DAO.Run starts every second.  Every operation holds the lock of the     *)
(* source; the sweep holds it to collect the keys that are due, and again  *)
(* for each key it deletes.  A value is a count: Set and Setnx write 0, an *)
(* Incr of a key that is there adds one.                                   *)
(***************************************************************************)
EXTENDS Integers, FiniteSets

CONSTANTS
    Keys,
    Users,      \* controllers that use the source
    MaxSec,     \* bound: the longest lifetime Expire is given
    MaxTime,    \* bound: the last second of a run
    MaxCount    \* bound: the largest count

ASSUME MemoryAssumption ==
    MaxSec \in Nat \ {0} /\ MaxTime \in Nat /\ MaxCount \in Nat

VARIABLES
    values,     \* ComMemory.m, Absent for a key it does not hold
    mtimeout,   \* the deadline of each key, 0 for none
    time,       \* the clock, in seconds
    now,        \* the argument of the sweep that runs, 0 when none does
    due,        \* MemoryTimeout's keys, once collected
    collected,  \* has the sweep collected them?
    winners,    \* whose Setnx or MultiSetnx of a key succeeded since it was deleted
    counted     \* the Incrs of a key since it was Set or deleted

sweepVars == <<now, due, collected>>
memoryVars == <<values, mtimeout, time, sweepVars, winners, counted>>

Absent == -1

MemoryInit ==
    /\ values = [k \in Keys |-> Absent]
    /\ mtimeout = [k \in Keys |-> 0]
    /\ time = 1
    /\ now = 0 /\ due = {} /\ collected = FALSE
    /\ winners = [k \in Keys |-> {}]
    /\ counted = [k \in Keys |-> 0]

-----------------------------------------------------------------------------
(* The map (GotreeMap).                                                    *)

\* For the keys of K the value v, for the others what f says.
With(f, K, v) == [k \in Keys |-> IF k \in K THEN v ELSE f[k]]

Exist(k) == values[k] # Absent
Stored(K, v) == With(values, K, v)
Removed(K) == With(values, K, Absent)

-----------------------------------------------------------------------------
(* The operations.                                                         *)

\* Set and MultiSet: an earlier deadline of the key stays.
MultiSet(K) ==
    /\ values' = Stored(K, 0)
    /\ counted' = With(counted, K, 0)
    /\ UNCHANGED <<mtimeout, time, sweepVars, winners>>

\* Both set their keys and return true.
SetByOne(p, K) ==
    /\ values' = Stored(K, 0)
    /\ winners' = [k \in Keys |-> IF k \in K THEN winners[k] \cup {p} ELSE winners[k]]
    /\ UNCHANGED <<mtimeout, time, sweepVars, counted>>

Setnx(p, k) == ~Exist(k) /\ SetByOne(p, {k})

\* Mutant: MultiSetnx looks at one of its keys only.
MultiSetnxFirst(p, K) == (\E k \in K : ~Exist(k)) /\ SetByOne(p, K)

MultiSetnx(p, K) == (\A k \in K : ~Exist(k)) /\ SetByOne(p, K)

\* An Incr of a key that is not there fails and changes nothing.
Incr(k) ==
    /\ Exist(k)
    /\ counted[k] < MaxCount
    /\ values' = Stored({k}, values[k] + 1)
    /\ counted' = With(counted, {k}, counted[k] + 1)
    /\ UNCHANGED <<mtimeout, time, sweepVars, winners>>

Expire(k, sec) ==
    /\ Exist(k)
    /\ time + sec <= MaxTime
    /\ mtimeout' = [mtimeout EXCEPT ![k] = time + sec]
    /\ UNCHANGED <<values, time, sweepVars, winners, counted>>

Drop(K) ==
    /\ values' = Removed(K)
    /\ mtimeout' = With(mtimeout, K, 0)
    /\ winners' = With(winners, K, {})
    /\ counted' = With(counted, K, 0)

Delete(K) == Drop(K) /\ UNCHANGED <<time, sweepVars>>

DeleteAll == Delete(Keys)

-----------------------------------------------------------------------------
(* MemoryTimeout, called with the time of the tick.                        *)

SweepBegin ==
    /\ now = 0
    /\ now' = time
    /\ UNCHANGED <<values, mtimeout, time, due, collected, winners, counted>>

Collect ==
    /\ now # 0 /\ ~collected
    /\ due' = {k \in Keys : mtimeout[k] # 0 /\ now >= mtimeout[k]}
    /\ collected' = TRUE
    /\ UNCHANGED <<values, mtimeout, time, now, winners, counted>>

DeleteDue ==
    /\ collected
    /\ \E k \in due : Drop({k}) /\ due' = due \ {k}
    /\ UNCHANGED <<time, now, collected>>

SweepEnd ==
    /\ collected
    /\ due = {}
    /\ now' = 0 /\ collected' = FALSE
    /\ UNCHANGED <<values, mtimeout, time, due, winners, counted>>

Clock ==
    /\ time < MaxTime
    /\ time' = time + 1
    /\ UNCHANGED <<values, mtimeout, sweepVars, winners, counted>>

Sweep == SweepBegin \/ Collect \/ DeleteDue \/ SweepEnd

MemoryNext ==
    \/ \E K \in SUBSET Keys \ {{}} :
        \/ MultiSet(K) \/ Delete(K)
        \/ \E p \in Users : MultiSetnx(p, K)
    \/ \E k \in Keys : Incr(k) \/ \E p \in Users : Setnx(p, k)
    \/ \E k \in Keys, sec \in 1 .. MaxSec : Expire(k, sec)
    \/ DeleteAll
    \/ Sweep
    \/ Clock

MemorySpec == MemoryInit /\ [][MemoryNext]_memoryVars

-----------------------------------------------------------------------------
\* Setnx and MultiSetnx can serve as a lock, or to make a counter: of the
\* callers that try a key, alone or together with others, one succeeds until
\* the key is deleted, and what has been counted since stays counted.  A key
\* that is deleted, or swept, leaves no deadline behind for the next one.
OneSetnxWins ==
    \A k \in Keys :
        /\ Cardinality(winners[k]) <= 1
        /\ Exist(k) => values[k] = counted[k]
        /\ mtimeout[k] # 0 => Exist(k)

\* com_memory.go:138 says that Expire sets the lifetime of a key: the sweep
\* takes no key that has a deadline still to come.
SweptKeysWereDue ==
    [][\A k \in Keys :
        (k \in due /\ k \notin due' /\ mtimeout[k] # 0) => time >= mtimeout[k]]_memoryVars
=============================================================================
