----------------------------- MODULE CallClient -----------------------------
(***************************************************************************)
(* A remote call, CallClient.Do (framework/call_client.go), over nodes     *)
(* that stop, crash and start again.  Do asks the breaker, then tries to   *)
(* reach a node; it tries again when the network failed or the node is     *)
(* shutting down, and gives up at once when the answer does not come in    *)
(* time.  A request left behind on a node may still be executed there.     *)
(*                                                                         *)
(* What failed Do reads from the text of the error alone, and the node     *)
(* sends the text of its controller's error, or of its panic, the same way.*)
(* So an answer such as a database's "read: connection reset by peer" is   *)
(* taken for a broken connection, and the call is sent again.              *)
(*                                                                         *)
(* The nodes keep the promises of GracefulStop; the breaker, the registry, *)
(* the limit and the connections (CallBreak, CallRoute, Limiting and       *)
(* ConnPool) answer here in every way they can.                            *)
(***************************************************************************)
EXTENDS Integers, Sequences

CONSTANTS
    Calls,      \* goroutines in Do
    Nodes,      \* remote nodes
    TryCount,   \* CallClient.tryCount
    NoNode

ASSUME ClientAssumption == TryCount \in Nat \ {0} /\ NoNode \notin Nodes

VARIABLES
    doPc,        \* where each call stands in Do
    index,       \* the number of the attempt
    at,          \* the node the request was sent to, or None
    wire,        \* what has become of the request of this attempt
    timeoutCall, \* Do's variable of that name
    result,      \* what Do returns
    told,        \* the arguments of the calls of CallBreak.Call, one after the other
    node,        \* the state of each node
    executed,    \* how often a node has executed the call
    left,        \* requests of given-up attempts that nodes may still execute
    broke,       \* has a connection broken under the call?
    misled       \* has a node's answer read as if one had?

clientVars == <<doPc, index, timeoutCall, result, told>>
netVars == <<at, wire, executed, left, broke, misled>>
doVars == <<clientVars, netVars, node>>

DoInit ==
    /\ doPc = [c \in Calls |-> "idle"]
    /\ index = [c \in Calls |-> 0]
    /\ at = [c \in Calls |-> NoNode]
    /\ wire = [c \in Calls |-> "none"]
    /\ timeoutCall = [c \in Calls |-> FALSE]
    /\ result = [c \in Calls |-> "none"]
    /\ told = [c \in Calls |-> <<>>]
    /\ node = [n \in Nodes |-> "up"]
    /\ executed = [c \in Calls |-> 0]
    /\ left = [c \in Calls |-> 0]
    /\ broke = [c \in Calls |-> FALSE]
    /\ misled = [c \in Calls |-> FALSE]

-----------------------------------------------------------------------------
(* CallClient.Do.                                                          *)

Goes(c, from, to) ==
    /\ doPc[c] = from
    /\ doPc' = [doPc EXCEPT ![c] = to]

\* Do returns (and its deferred function tells CallQps, which is left out).
Returns(c, from, what) ==
    /\ Goes(c, from, "returned")
    /\ result' = [result EXCEPT ![c] = what]

TellsBreaker(c, timeout) == told' = [told EXCEPT ![c] = Append(@, timeout)]

BreakerOpen(c) ==
    /\ Returns(c, "idle", "breaker")
    /\ UNCHANGED <<index, timeoutCall, told, netVars, node>>

\* Enter limit.Go for the first attempt.
BreakerClosed(c) ==
    /\ Goes(c, "idle", "routing")
    /\ index' = [index EXCEPT ![c] = 1]
    /\ UNCHANGED <<timeoutCall, result, told, netVars, node>>

\* RemoteAddr knows no node, or the connection cannot be dialled.
NoConnection(c) ==
    /\ Goes(c, "routing", "network")
    /\ UNCHANGED <<index, timeoutCall, result, told, netVars, node>>

\* The command's ComAddr panics; limit.Go recovers, and its error is final.
RoutingPanics(c) ==
    /\ Returns(c, "routing", "panic")
    /\ TellsBreaker(c, timeoutCall[c])
    /\ UNCHANGED <<index, timeoutCall, netVars, node>>

Send(c, n) ==
    /\ node[n] # "down"
    /\ Goes(c, "routing", "waiting")
    /\ at' = [at EXCEPT ![c] = n]
    /\ wire' = [wire EXCEPT ![c] = "sent"]
    /\ timeoutCall' = [timeoutCall EXCEPT ![c] = TRUE]
    /\ UNCHANGED <<index, result, told, executed, left, broke, misled, node>>

\* The attempt is over; what is still on the node is out of Do's hands.
Forget(c) ==
    /\ at' = [at EXCEPT ![c] = NoNode]
    /\ wire' = [wire EXCEPT ![c] = "none"]
    /\ left' = [left EXCEPT ![c] = IF wire[c] = "sent" THEN @ + 1 ELSE @]
    /\ UNCHANGED <<executed, broke, misled>>

\* The node answers: a result, or an error that reads like no network's.
Answered(c) ==
    /\ wire[c] \in {"ok", "error"}
    /\ Returns(c, "waiting", wire[c])
    /\ timeoutCall' = [timeoutCall EXCEPT ![c] = FALSE]
    /\ TellsBreaker(c, FALSE)
    /\ Forget(c)
    /\ UNCHANGED <<index, node>>

\* The error reads like ErrShutdown, an unexpected EOF, a reset, a broken pipe
\* or the node's ShutDownIng, whoever wrote it.
NetworkFails(c) ==
    /\ wire[c] \in {"broken", "ShutDownIng", "misread"}
    /\ Goes(c, "waiting", "network")
    /\ timeoutCall' = [timeoutCall EXCEPT ![c] = FALSE]
    /\ Forget(c)
    /\ UNCHANGED <<index, result, told, node>>

\* Mutant: a call that timed out is tried again.
TimesOutRetrying(c) ==
    /\ wire[c] \in {"sent", "executed"}
    /\ Goes(c, "waiting", "network")
    /\ Forget(c)
    /\ UNCHANGED <<index, timeoutCall, result, told, node>>

\* sleepCount turns without an answer.
TimesOut(c) ==
    /\ wire[c] \in {"sent", "executed"}
    /\ Returns(c, "waiting", "timed out")
    /\ TellsBreaker(c, timeoutCall[c])
    /\ Forget(c)
    /\ UNCHANGED <<index, timeoutCall, node>>

\* Mutant: the attempts do not end.
RetryForEver(c) ==
    /\ Goes(c, "network", "routing")
    /\ UNCHANGED <<index, timeoutCall, result, told, netVars, node>>

\* A second later.
Retry(c) ==
    /\ index[c] < TryCount
    /\ Goes(c, "network", "routing")
    /\ index' = [index EXCEPT ![c] = @ + 1]
    /\ UNCHANGED <<timeoutCall, result, told, netVars, node>>

\* Mutant: the breaker is told of the last attempt only what the answer was.
GiveUpUntold(c) ==
    /\ index[c] = TryCount
    /\ Returns(c, "network", "unreachable")
    /\ TellsBreaker(c, timeoutCall[c])
    /\ UNCHANGED <<index, timeoutCall, netVars, node>>

GiveUp(c) ==
    /\ index[c] = TryCount
    /\ Returns(c, "network", "unreachable")
    /\ TellsBreaker(c, TRUE)
    /\ UNCHANGED <<index, timeoutCall, netVars, node>>

Do(c) ==
    \/ BreakerOpen(c) \/ BreakerClosed(c) \/ NoConnection(c) \/ RoutingPanics(c)
    \/ \E n \in Nodes : Send(c, n)
    \/ Answered(c) \/ NetworkFails(c) \/ TimesOut(c) \/ Retry(c) \/ GiveUp(c)

-----------------------------------------------------------------------------
(* The nodes, which keep the promises of GracefulStop.                     *)

Wire(c, from, to) ==
    /\ wire[c] = from
    /\ wire' = [wire EXCEPT ![c] = to]
    /\ UNCHANGED <<clientVars, at, left, node>>

Execute(c) ==
    /\ Wire(c, "sent", "executed")
    /\ node[at[c]] # "down"
    /\ executed' = [executed EXCEPT ![c] = @ + 1]
    /\ UNCHANGED <<broke, misled>>

Answer(c) ==
    /\ Wire(c, "executed", "ok") \/ Wire(c, "executed", "error")
    /\ UNCHANGED <<executed, broke, misled>>

\* The controller's error, or its panic, reads like a broken connection.
AnswerLikeBroken(c) ==
    /\ Wire(c, "executed", "misread")
    /\ misled' = [misled EXCEPT ![c] = TRUE]
    /\ UNCHANGED <<executed, broke>>

\* The node finds a required field empty.
Reject(c) ==
    /\ Wire(c, "sent", "error")
    /\ node[at[c]] # "down"
    /\ UNCHANGED <<executed, broke, misled>>

Refuse(c) ==
    /\ Wire(c, "sent", "ShutDownIng")
    /\ node[at[c]] = "stopping"
    /\ UNCHANGED <<executed, broke, misled>>

\* The connection breaks; a request that was sent may have arrived.
Break(c) ==
    /\ wire[c] \in {"sent", "executed"}
    /\ wire' = [wire EXCEPT ![c] = "broken"]
    /\ broke' = [broke EXCEPT ![c] = TRUE]
    /\ left' \in IF wire[c] = "sent" THEN {left, [left EXCEPT ![c] = @ + 1]} ELSE {left}
    /\ UNCHANGED <<clientVars, at, executed, misled, node>>

ExecuteLate(c) ==
    /\ left[c] > 0
    /\ left' = [left EXCEPT ![c] = @ - 1]
    /\ executed' = [executed EXCEPT ![c] = @ + 1]
    /\ UNCHANGED <<clientVars, at, wire, broke, misled, node>>

StopNode(n) ==
    /\ node[n] = "up"
    /\ node' = [node EXCEPT ![n] = "stopping"]
    /\ UNCHANGED <<clientVars, netVars>>

\* The process ends, after a stop or by a crash, and its connections with it.
EndNode(n) ==
    /\ node[n] # "down"
    /\ node' = [node EXCEPT ![n] = "down"]
    /\ LET lost == {c \in Calls : at[c] = n /\ wire[c] \in {"sent", "executed"}} IN
        /\ wire' = [c \in Calls |-> IF c \in lost THEN "broken" ELSE wire[c]]
        /\ broke' = [c \in Calls |-> broke[c] \/ c \in lost]
    /\ UNCHANGED <<clientVars, at, executed, left, misled>>

StartNode(n) ==
    /\ node[n] = "down"
    /\ node' = [node EXCEPT ![n] = "up"]
    /\ UNCHANGED <<clientVars, netVars>>

Network ==
    \/ \E c \in Calls : Execute(c) \/ Answer(c) \/ AnswerLikeBroken(c) \/ Reject(c)
                        \/ Refuse(c) \/ Break(c) \/ ExecuteLate(c)
    \/ \E n \in Nodes : StopNode(n) \/ EndNode(n) \/ StartNode(n)

DoNext == (\E c \in Calls : Do(c)) \/ Network

DoSpec == DoInit /\ [][DoNext]_doVars

\* Do polls for its answer and sleeps between attempts; the network owes nothing.
DoFairSpec == DoSpec /\ \A c \in Calls : WF_doVars(Do(c))

-----------------------------------------------------------------------------
\* A call is executed, or may still be executed, a second time only if a
\* connection broke under it or a node's answer read as if one had: neither a
\* slow node nor one that is shutting down makes Do repeat what was done.
RepeatedOnlyIfBroken ==
    \A c \in Calls :
        executed[c] + left[c] + (IF wire[c] = "sent" THEN 1 ELSE 0) > 1
            => broke[c] \/ misled[c]

\* The breaker hears once, not more often, of every call it let pass: as of a
\* success when a node's answer ended it, as of a failure when none came in
\* time or every attempt met what reads like a failing network.
BreakerHearsOnce ==
    \A c \in Calls :
        told[c] = CASE result[c] \in {"ok", "error", "panic"} -> <<FALSE>>
                    [] result[c] \in {"timed out", "unreachable"} -> <<TRUE>>
                    [] OTHER -> <<>>

\* Do returns, whatever the nodes do.
DoReturns == \A c \in Calls : doPc[c] # "idle" ~> doPc[c] = "returned"
=============================================================================
