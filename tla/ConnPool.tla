------------------------------ MODULE ConnPool ------------------------------
(***************************************************************************)
(* The pool of RPC connections to one address (framework/call_conn.go).    *)
(* callConnPool.fetch draws a slot at random: an empty slot gets a new     *)
(* clientPool, which the drawing goroutine dials; a slot whose connection  *)
(* is usable is shared; any other draw is repeated.  Each dialled          *)
(* connection has a goroutine (clientPool.timeout) that closes it when it  *)
(* is broken, when the pool is closed, or when it has served its time.     *)
(***************************************************************************)
EXTENDS Integers, FiniteSets

CONSTANTS
    Callers,    \* goroutines in CallClient.Do
    ClientPools, \* clientPool objects; one is reused when nothing refers to it
    Slots,      \* 1 .. maxConnNum
    DrainTurns, \* turns of half a second a retired connection waits (60)
    CallTurns,  \* turns of half a second a call may last (CallDaoTimeout)
    Nothing

ASSUME ClientPoolAssumption ==
    /\ Nothing \notin Callers \cup ClientPools \cup Slots
    /\ DrainTurns \in Nat \ {0} /\ CallTurns \in Nat
    /\ IsFiniteSet(Callers)

VARIABLES
    slot,       \* callConnPool.pool[addr]: the connection in each slot, or Nothing
    slotOf,     \* clientPool.id: the slot a connection was created for
    sync,       \* clientPool.sync: 0 not dialled, 1 usable, 2 broken
    link,       \* the rpc.Client of a connection
    fetchNum,   \* clientPool.fetchNum
    exit,       \* is there a message in clientPool.exit?
    timer,      \* where clientPool.timeout stands
    turns,      \* the turns a retired connection has waited
    step,       \* where each caller stands in fetch
    ref,        \* the clientPool a caller holds
    drawn,      \* the slot a caller has drawn
    waited,     \* the turns a call has lasted since its connection retired
    poolLock,   \* the caller holding callConnPool.mutex in fetch, or Nothing
    closed      \* has callConnPool.Close run?

clientPoolVars == <<slotOf, sync, link, fetchNum, exit, timer, turns>>
callerVars == <<step, ref, drawn, waited>>
poolVars == <<slot, clientPoolVars, callerVars, poolLock, closed>>

PoolInit ==
    /\ slot = [i \in Slots |-> Nothing]
    /\ slotOf = [c \in ClientPools |-> Nothing]
    /\ sync = [c \in ClientPools |-> 0]
    /\ link = [c \in ClientPools |-> "none"]
    /\ fetchNum = [c \in ClientPools |-> 0]
    /\ exit = [c \in ClientPools |-> FALSE]
    /\ timer = [c \in ClientPools |-> "none"]
    /\ turns = [c \in ClientPools |-> 0]
    /\ waited = [p \in Callers |-> 0]
    /\ step = [p \in Callers |-> "idle"]
    /\ ref = [p \in Callers |-> Nothing]
    /\ drawn = [p \in Callers |-> Nothing]
    /\ poolLock = Nothing
    /\ closed = FALSE

\* Nothing refers to the object: the next `new(clientPool)` may be it.
Unused(c) ==
    /\ timer[c] = "none"
    /\ \A i \in Slots : slot[i] # c
    /\ \A p \in Callers : ref[p] # c

\* clientPool.connect holds clientPool.mutex for as long as it dials.
Dialled(c) == \E p \in Callers : step[p] = "dialing" /\ ref[p] = c

-----------------------------------------------------------------------------
(* callConnPool.fetch.                                                     *)

\* Draw a slot and lock the pool.
Draw(p, i) ==
    /\ step[p] \in {"idle", "drawing"}
    /\ poolLock = Nothing
    /\ poolLock' = p
    /\ step' = [step EXCEPT ![p] = "locked"]
    /\ drawn' = [drawn EXCEPT ![p] = i]
    /\ UNCHANGED <<slot, clientPoolVars, ref, waited, closed>>

Leave(p, where, c) ==
    /\ poolLock' = Nothing
    /\ step' = [step EXCEPT ![p] = where]
    /\ ref' = [ref EXCEPT ![p] = c]
    /\ drawn' = [drawn EXCEPT ![p] = Nothing]

DrawEmpty(p) ==
    /\ step[p] = "locked"
    /\ slot[drawn[p]] = Nothing
    /\ \E c \in ClientPools :
        /\ Unused(c)
        /\ slot' = [slot EXCEPT ![drawn[p]] = c]
        /\ slotOf' = [slotOf EXCEPT ![c] = drawn[p]]
        /\ sync' = [sync EXCEPT ![c] = 0]
        /\ link' = [link EXCEPT ![c] = "none"]
        /\ fetchNum' = [fetchNum EXCEPT ![c] = 0]
        /\ exit' = [exit EXCEPT ![c] = FALSE]
        /\ Leave(p, "picked", c)
    /\ UNCHANGED <<timer, turns, waited, closed>>

\* getSync, with the pool locked, waits while the connection is dialled.
DrawTaken(p) ==
    /\ step[p] = "locked"
    /\ LET c == slot[drawn[p]] IN
        /\ c # Nothing
        /\ ~Dialled(c)
        /\ IF sync[c] = 1 THEN Leave(p, "picked", c) ELSE Leave(p, "drawing", Nothing)
    /\ UNCHANGED <<slot, clientPoolVars, waited, closed>>

\* The second getSync: a new connection is dialled by the one who made it.
Picked(p) ==
    /\ step[p] = "picked"
    /\ ~Dialled(ref[p])
    /\ step' = [step EXCEPT ![p] = IF sync[ref[p]] = 0 THEN "dialing" ELSE "ready"]
    /\ UNCHANGED <<slot, clientPoolVars, ref, drawn, waited, poolLock, closed>>

Connected(p) ==
    /\ step[p] = "dialing"
    /\ sync' = [sync EXCEPT ![ref[p]] = 1]
    /\ link' = [link EXCEPT ![ref[p]] = "up"]
    /\ timer' = [timer EXCEPT ![ref[p]] = "watch"]
    /\ step' = [step EXCEPT ![p] = "ready"]
    /\ UNCHANGED <<slot, slotOf, fetchNum, exit, turns, ref, drawn, waited,
                   poolLock, closed>>

DialFails(p) ==
    /\ step[p] = "dialing"
    /\ sync' = [sync EXCEPT ![ref[p]] = 2]
    /\ step' = [step EXCEPT ![p] = "failed"]
    /\ UNCHANGED <<slot, slotOf, link, fetchNum, exit, timer, turns, ref,
                   drawn, waited,
                   poolLock, closed>>

\* delConn(addr, id) removes whatever connection is in the slot.
DelConn(c) ==
    /\ poolLock = Nothing
    /\ slot' = [slot EXCEPT ![slotOf[c]] = Nothing]

Failed(p) ==
    /\ step[p] = "failed"
    /\ DelConn(ref[p])
    /\ step' = [step EXCEPT ![p] = "idle"]
    /\ ref' = [ref EXCEPT ![p] = Nothing]
    /\ UNCHANGED <<clientPoolVars, drawn, waited, poolLock, closed>>

\* conn.fetch(): from here on the caller is counted.
Fetch(p) ==
    /\ step[p] = "ready"
    /\ fetchNum' = [fetchNum EXCEPT ![ref[p]] = @ + 1]
    /\ step' = [step EXCEPT ![p] = "using"]
    /\ UNCHANGED <<slot, slotOf, sync, link, exit, timer, turns, ref, drawn,
                   waited, poolLock,
                   closed>>

\* CallClient.back.  On a dead link the call ends with ErrShutdown, which
\* marks the connection, or with an error that does not (EOF, a timeout).
Release(p) ==
    /\ step[p] = "using"
    /\ fetchNum' = [fetchNum EXCEPT ![ref[p]] = @ - 1]
    /\ \E netok \in BOOLEAN :
        /\ ~netok => link[ref[p]] # "up"
        /\ sync' = [sync EXCEPT ![ref[p]] = IF ~netok /\ @ = 1 THEN 2 ELSE @]
    /\ step' = [step EXCEPT ![p] = "idle"]
    /\ ref' = [ref EXCEPT ![p] = Nothing]
    /\ waited' = [waited EXCEPT ![p] = 0]
    /\ UNCHANGED <<slot, slotOf, link, exit, timer, turns, drawn, poolLock, closed>>

\* The peer goes away.
PeerDrops(c) ==
    /\ link[c] = "up"
    /\ link' = [link EXCEPT ![c] = "down"]
    /\ UNCHANGED <<slot, slotOf, sync, fetchNum, exit, timer, turns,
                   callerVars, poolLock, closed>>

-----------------------------------------------------------------------------
(* clientPool.timeout and callConnPool.Close.                              *)

CloseLink(c, next) ==
    /\ link' = [link EXCEPT ![c] = "closed"]
    /\ timer' = [timer EXCEPT ![c] = next]

WatchBroken(c) ==
    /\ timer[c] = "watch"
    /\ sync[c] # 1
    /\ CloseLink(c, "delete")
    /\ UNCHANGED <<slot, slotOf, sync, fetchNum, exit, turns, callerVars,
                   poolLock, closed>>

WatchExit(c) ==
    /\ timer[c] = "watch"
    /\ sync[c] = 1
    /\ exit[c]
    /\ exit' = [exit EXCEPT ![c] = FALSE]
    /\ CloseLink(c, "delete")
    /\ UNCHANGED <<slot, slotOf, sync, fetchNum, turns, callerVars, poolLock, closed>>

\* Mutant: an old connection is closed before it leaves the pool.
WatchExpiresClosing(c) ==
    /\ timer[c] = "watch"
    /\ sync[c] = 1 /\ ~exit[c]
    /\ CloseLink(c, "delete")
    /\ UNCHANGED <<slot, slotOf, sync, fetchNum, exit, turns, callerVars,
                   poolLock, closed>>

\* The 240 turns of the loop are over.
WatchExpires(c) ==
    /\ timer[c] = "watch"
    /\ sync[c] = 1 /\ ~exit[c]
    /\ timer' = [timer EXCEPT ![c] = "retire"]
    /\ UNCHANGED <<slot, slotOf, sync, link, fetchNum, exit, turns,
                   callerVars, poolLock, closed>>

Delete(c) ==
    /\ timer[c] = "delete"
    /\ DelConn(c)
    /\ timer' = [timer EXCEPT ![c] = "none"]
    /\ UNCHANGED <<slotOf, sync, link, fetchNum, exit, turns, callerVars,
                   poolLock, closed>>

\* Mutant: a connection with calls on it leaves the pool again on every turn.
RetireTwice(c) ==
    /\ timer[c] = "retire"
    /\ DelConn(c)
    /\ timer' = [timer EXCEPT ![c] = IF fetchNum[c] > 0 THEN "retire" ELSE "drain"]
    /\ UNCHANGED <<slotOf, sync, link, fetchNum, exit, turns, callerVars,
                   poolLock, closed>>

Retire(c) ==
    /\ timer[c] = "retire"
    /\ DelConn(c)
    /\ timer' = [timer EXCEPT ![c] = "drain"]
    /\ UNCHANGED <<slotOf, sync, link, fetchNum, exit, turns, callerVars,
                   poolLock, closed>>

\* One turn of the second loop: half a second, in which a goroutine that
\* holds the connection gets counted, and no call outlives its timeout.
Turn(c) ==
    /\ timer[c] = "drain"
    /\ fetchNum[c] > 0
    /\ turns[c] < DrainTurns
    /\ \A p \in Callers : ref[p] = c => step[p] = "using" /\ waited[p] < CallTurns
    /\ turns' = [turns EXCEPT ![c] = @ + 1]
    /\ waited' = [p \in Callers |-> IF ref[p] = c THEN waited[p] + 1 ELSE waited[p]]
    /\ UNCHANGED <<slot, slotOf, sync, link, fetchNum, exit, timer, step,
                   ref, drawn, poolLock,
                   closed>>

\* Mutant: the loop breaks when one call is left.
DrainLeavesOne(c) ==
    /\ timer[c] = "drain"
    /\ fetchNum[c] <= 1 \/ turns[c] = DrainTurns
    /\ timer' = [timer EXCEPT ![c] = "close"]
    /\ turns' = [turns EXCEPT ![c] = 0]
    /\ UNCHANGED <<slot, slotOf, sync, link, fetchNum, exit, callerVars,
                   poolLock, closed>>

\* Nobody is counted, or the turns of the second loop are over.
Drain(c) ==
    /\ timer[c] = "drain"
    /\ fetchNum[c] <= 0 \/ turns[c] = DrainTurns
    /\ timer' = [timer EXCEPT ![c] = "close"]
    /\ turns' = [turns EXCEPT ![c] = 0]
    /\ UNCHANGED <<slot, slotOf, sync, link, fetchNum, exit, callerVars,
                   poolLock, closed>>

CloseRetired(c) ==
    /\ timer[c] = "close"
    /\ CloseLink(c, "none")
    /\ UNCHANGED <<slot, slotOf, sync, fetchNum, exit, turns, callerVars,
                   poolLock, closed>>

\* callConnPool.Close leaves a message for every pooled connection.
Close ==
    /\ ~closed
    /\ poolLock = Nothing
    /\ exit' = [c \in ClientPools |-> exit[c] \/ \E i \in Slots : slot[i] = c]
    /\ closed' = TRUE
    /\ UNCHANGED <<slot, slotOf, sync, link, fetchNum, timer, turns,
                   callerVars, poolLock>>

-----------------------------------------------------------------------------
Caller(p) ==
    \/ DrawEmpty(p) \/ DrawTaken(p) \/ Picked(p) \/ Connected(p) \/ DialFails(p)
    \/ Failed(p) \/ Fetch(p) \/ Release(p)

Timer(c) ==
    \/ WatchBroken(c) \/ WatchExit(c) \/ WatchExpires(c) \/ Delete(c) \/ Retire(c)
    \/ Turn(c) \/ Drain(c) \/ CloseRetired(c)

PoolNext ==
    \/ \E p \in Callers : Caller(p) \/ \E i \in Slots : Draw(p, i)
    \/ \E c \in ClientPools : Timer(c) \/ PeerDrops(c)
    \/ Close

PoolSpec == PoolInit /\ [][PoolNext]_poolVars

-----------------------------------------------------------------------------
\* delConn goes by address and slot, not by connection: whoever is about to
\* call it still has its own connection in the slot, so it can never take a
\* younger connection out of the pool, which nobody would close.
DeletesOwn ==
    /\ \A c \in ClientPools : timer[c] \in {"watch", "delete", "retire"} => slot[slotOf[c]] = c
    /\ \A p \in Callers : step[p] \in {"dialing", "failed"} => slot[slotOf[ref[p]]] = ref[p]

\* A connection is dialled by one goroutine and watched by at most one: two
\* draws of a new connection never dial it twice.
DialledOnce ==
    \A c \in ClientPools :
        LET dialers == {p \in Callers : ref[p] = c /\ (step[p] = "dialing" \/
                                                (step[p] = "picked" /\ sync[c] = 0))}
        IN  /\ Cardinality(dialers) <= 1
            /\ dialers # {} => timer[c] = "none"

\* fetchNum is the number of calls on the connection, whatever way each ended.
FetchNumMatches ==
    \A c \in ClientPools :
        ((\E i \in Slots : slot[i] = c) \/ timer[c] # "none") =>
            fetchNum[c] = Cardinality({p \in Callers : ref[p] = c /\ step[p] = "using"})

\* What the pool knows of its connections is so.
PoolIsConsistent == DeletesOwn /\ DialledOnce /\ FetchNumMatches

\* fetch returns a closed client only if the pool is closing, or if, after the
\* caller drew it, the connection was marked broken or left the pool: an old
\* connection leaves the pool before its timer closes it.  (A caller that has
\* drawn is not counted yet, so the timer of a retired connection does not see
\* it and may close the client before fetch returns it.)
ClosedOnlyOnceLeft ==
    [][\A p \in Callers : LET c == ref[p] IN
        (step[p] = "ready" /\ step'[p] = "using" /\ link[c] = "closed")
            => closed \/ sync[c] # 1 \/ \A i \in Slots : slot[i] # c]_poolVars

\* A retired connection waits for every call counted on it, if no call lasts
\* as long as the wait.  (A caller that has drawn it and is not counted yet is
\* not waited for.)
DrainTakesEveryone ==
    [][\A c \in ClientPools :
        (timer[c] = "drain" /\ timer'[c] = "close" /\ CallTurns < DrainTurns)
            => fetchNum[c] = 0]_poolVars
=============================================================================
