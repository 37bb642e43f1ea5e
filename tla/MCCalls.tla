------------------------------ MODULE MCCalls ------------------------------
(***************************************************************************)
(* What a call depends on, for TLC: the registry, CallClient.Do and the    *)
(* breaker.  Do draws any node and may be let in or not, so none reads the *)
(* state of another one: in a behaviour one of them is at work, `part`,    *)
(* and the others stay as they were initialised.                           *)
(***************************************************************************)
EXTENDS CallRoute, CallClient, CallBreak

VARIABLE part       \* the component at work

callsVars == <<part, vars, doVars, breakVars>>

CallsInit ==
    /\ part \in {"registry", "client", "breaker"}
    /\ Init /\ DoInit /\ BreakInit

CallsNext ==
    /\ \/ part = "registry" /\ Next /\ UNCHANGED <<doVars, breakVars>>
       \/ part = "client" /\ DoNext /\ UNCHANGED <<vars, breakVars>>
       \/ part = "breaker" /\ BreakNext /\ UNCHANGED <<vars, doVars>>
    /\ UNCHANGED part

-----------------------------------------------------------------------------
(* Fairness.                                                               *)

\* DAOs keep shaking hands, goroutines keep running and time passes; a
\* sync.Mutex hands itself over to a waiter that starves (see CallRoute).
FairRegistry ==
    /\ \A a \in Addrs : SF_vars(part = "registry" /\ \E c \in Conns : HandShake(c, a))
    /\ \A c \in Conns : /\ SF_vars(part = "registry" /\ AddBegin(c))
                        /\ WF_vars(part = "registry" /\ (AddReplace(c) \/ AddNode(c)))
    /\ WF_vars(part = "registry" /\ TickBegin) /\ SF_vars(part = "registry" /\ AllPane)
    /\ SF_vars(part = "registry" /\ TickRemove) /\ WF_vars(part = "registry" /\ TickEnd)
    /\ \A a \in Addrs : WF_vars(part = "registry" /\ TickVisit(a))
    /\ WF_vars(part = "registry" /\ Second)

\* Do polls for its answer and sleeps between attempts; the network owes nothing.
FairClient == \A c \in Calls : WF_doVars(part = "client" /\ Do(c))

\* Goroutines that are ready run, and time passes; nobody has to call, and
\* nobody has to stop a loop.
FairBreaker ==
    /\ \A c \in Callers : WF_breakVars(part = "breaker" /\ Call(c))
    /\ \A l \in Loops : WF_breakVars(part = "breaker" /\ Tick(l))
    /\ WF_breakVars(part = "breaker" /\ BreakSecond)

CallsSpec ==
    /\ CallsInit /\ [][CallsNext]_callsVars
    /\ FairRegistry /\ FairClient /\ FairBreaker
=============================================================================
