------------------------------ MODULE Limiting ------------------------------
(***************************************************************************)
(* The limit on concurrent remote calls, Limiting.Go                       *)
(* (framework/limiting.go): a caller looks at the count, sleeps while it   *)
(* is above the limit, and counts itself in a step of its own.  After      *)
(* MaxLooks looks it goes ahead whatever the count says.  The call takes   *)
(* itself off the count in a deferred function, which first recovers it if *)
(* it panicked.                                                            *)
(***************************************************************************)
EXTENDS Integers, FiniteSets

CONSTANTS
    Clients,    \* goroutines in CallClient.Do
    Most,       \* Limiting.most
    MaxLooks    \* how often a caller looks at the count (100)

ASSUME LimitAssumption ==
    /\ IsFiniteSet(Clients)
    /\ Most \in Nat /\ MaxLooks \in Nat \ {0}

VARIABLES
    count,      \* Limiting.count
    pc,         \* where each caller stands in Go
    looks,      \* how often it has found the count above the limit
    excused     \* callers the limit could not hold back: they ran out of looks,
                \* or looked before another that had got through was counted

limitVars == <<count, pc, looks, excused>>

LimitInit ==
    /\ count = 0
    /\ pc = [c \in Clients |-> "idle"]
    /\ looks = [c \in Clients |-> 0]
    /\ excused = {}

-----------------------------------------------------------------------------
GoMoves(c, from, to) ==
    /\ pc[c] = from
    /\ pc' = [pc EXCEPT ![c] = to]

Begin(c) ==
    /\ GoMoves(c, "idle", "looking")
    /\ looks' = [looks EXCEPT ![c] = 0]
    /\ UNCHANGED <<count, excused>>

\* The count is above the limit: 30 ms asleep, then the next look.
Sleep(c) ==
    /\ pc[c] = "looking"
    /\ count > Most
    /\ looks[c] < MaxLooks
    /\ looks' = [looks EXCEPT ![c] = @ + 1]
    /\ UNCHANGED <<count, pc, excused>>

\* Callers that have got through and are not counted yet.
GotThrough == {c \in Clients : pc[c] = "passed"}

\* There is room.
Pass(c) ==
    /\ count <= Most
    /\ looks[c] < MaxLooks
    /\ GoMoves(c, "looking", "passed")
    /\ excused' = IF GotThrough = {} THEN excused ELSE excused \cup {c}
    /\ UNCHANGED <<count, looks>>

\* The looks are used up.
RunsOutOfLooks(c) ==
    /\ looks[c] = MaxLooks
    /\ GoMoves(c, "looking", "passed")
    /\ excused' = excused \cup {c}
    /\ UNCHANGED <<count, looks>>

Enter(c) ==
    /\ GoMoves(c, "passed", "running")
    /\ count' = count + 1
    /\ UNCHANGED <<looks, excused>>

CallEnds(c) ==
    /\ GoMoves(c, "running", "leaving")
    /\ UNCHANGED <<count, looks, excused>>

CallPanics(c) ==
    /\ GoMoves(c, "running", "panicking")
    /\ UNCHANGED <<count, looks, excused>>

\* Mutant: the deferred function returns once it has recovered the call.
RecoversOnly(c) ==
    /\ GoMoves(c, "panicking", "idle")
    /\ excused' = excused \ {c}
    /\ UNCHANGED <<count, looks>>

\* The deferred function recovers the call and goes on.
Recovers(c) ==
    /\ GoMoves(c, "panicking", "leaving")
    /\ UNCHANGED <<count, looks, excused>>

\* The end of the deferred function.
Leave(c) ==
    /\ GoMoves(c, "leaving", "idle")
    /\ count' = count - 1
    /\ excused' = excused \ {c}
    /\ UNCHANGED looks

Go(c) ==
    \/ Begin(c) \/ Sleep(c) \/ Pass(c) \/ RunsOutOfLooks(c) \/ Enter(c)
    \/ CallEnds(c) \/ CallPanics(c) \/ Recovers(c) \/ Leave(c)

LimitNext == \E c \in Clients : Go(c)

LimitSpec == LimitInit /\ [][LimitNext]_limitVars

-----------------------------------------------------------------------------
InCall == {c \in Clients : pc[c] \in {"running", "panicking", "leaving"}}

\* What the limit is worth, although callers look and count in two steps and
\* lose their patience.  Apart from those it could not hold back, at most
\* Most + 1 are through at a time (the count is compared with >, before the
\* caller counts itself); and it holds nobody back for nothing: a count above
\* Most means as many calls under way, whether those before returned or
\* panicked.
LimitHolds ==
    /\ Cardinality((InCall \cup GotThrough) \ excused) <= Most + 1
    /\ count > Most => Cardinality(InCall) > Most
=============================================================================
