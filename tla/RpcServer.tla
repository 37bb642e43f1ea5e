----------------------------- MODULE RpcServer -----------------------------
(***************************************************************************)
(* The RPC server of a process and its graceful stop: GotreeService        *)
(* (framework/call_server.go), Server.ServeCodec and service.call          *)
(* (framework/net.go), and the loop with which Run waits for the calls     *)
(* before it closes the server (dao.go, app.go; their queues, timers and   *)
(* asynchronous tasks are left to other modules).  Every connection has a  *)
(* reader, every request read has a goroutine of its own.                  *)
(***************************************************************************)
EXTENDS Integers, FiniteSets

CONSTANTS
    Requests,   \* requests clients send
    Conns,      \* connections clients open
    MaxPolls    \* turns of the loop that waits for the calls (6)

ASSUME ConstantsAssumption ==
    /\ IsFiniteSet(Requests)
    /\ MaxPolls \in Nat \ {0}

VARIABLES
    status,     \* GotreeService.status: 0 serving, 1 stopping, 2 closed
    calls,      \* RunStack.calls
    link,       \* each connection's socket, seen from the server
    reader,     \* where each connection's accept and ServeCodec stand
    connmap,    \* Server.connmap
    garbled,    \* connections over which came a header that cannot be decoded
    call,       \* where each request stands
    on,         \* the connections a request was read from: one, or none yet
    reply,      \* what a request's reply says
    cutOff,     \* requests whose reply met a connection this side had closed
    main,       \* where the main goroutine stands
    polls       \* turns the waiting loop has slept

connVars == <<link, reader, connmap, garbled>>
callVars == <<calls, call, on, reply, cutOff>>
mainVars == <<status, main, polls>>
vars == <<connVars, callVars, mainVars>>

Init ==
    /\ status = 0 /\ calls = 0
    /\ link = [k \in Conns |-> "none"]
    /\ reader = [k \in Conns |-> "none"]
    /\ connmap = {} /\ garbled = {}
    /\ call = [r \in Requests |-> "unread"]
    /\ on = [r \in Requests |-> {}]
    /\ reply = [r \in Requests |-> "none"]
    /\ cutOff = {}
    /\ main = "serving" /\ polls = 0

-----------------------------------------------------------------------------
(* Connections: GotreeService.accept and Server.ServeCodec.                *)

Accept(k) ==
    /\ reader[k] = "none"
    /\ main # "closed"
    /\ link' = [link EXCEPT ![k] = "open"]
    /\ reader' = [reader EXCEPT ![k] = "accepted"]
    /\ UNCHANGED <<connmap, garbled, callVars, mainVars>>

\* accept looks at the status before it starts the reader.
Admit(k) ==
    /\ reader[k] = "accepted"
    /\ IF status = 2
       THEN /\ link' = [link EXCEPT ![k] = "closed"]
            /\ reader' = [reader EXCEPT ![k] = "gone"]
       ELSE /\ reader' = [reader EXCEPT ![k] = "starting"]
            /\ UNCHANGED link
    /\ UNCHANGED <<connmap, garbled, callVars, mainVars>>

Register(k) ==
    /\ reader[k] = "starting"
    /\ reader' = [reader EXCEPT ![k] = "reading"]
    /\ connmap' = connmap \cup {k}
    /\ UNCHANGED <<link, garbled, callVars, mainVars>>

\* A request is read, and `go service.call` started.  A request that was
\* buffered is still read from a closed connection.
Read(k, r) ==
    /\ reader[k] = "reading"
    /\ call[r] = "unread"
    /\ call' = [call EXCEPT ![r] = "read"]
    /\ on' = [on EXCEPT ![r] = {k}]
    /\ UNCHANGED <<connVars, calls, reply, cutOff, mainVars>>

\* The reader itself answers a request for an unknown service or method, or
\* with an argument it cannot decode.
ReadInvalid(k, r) ==
    /\ reader[k] = "reading"
    /\ call[r] = "unread"
    /\ call' = [call EXCEPT ![r] = "done"]
    /\ on' = [on EXCEPT ![r] = {k}]
    /\ reply' = [reply EXCEPT ![r] = "error"]
    /\ UNCHANGED <<connVars, calls, cutOff, mainVars>>

PeerCloses(k) ==
    /\ link[k] = "open"
    /\ link' = [link EXCEPT ![k] = "broken"]
    /\ UNCHANGED <<reader, connmap, garbled, callVars, mainVars>>

ReaderLeaves(k) ==
    /\ reader[k] = "reading"
    /\ reader' = [reader EXCEPT ![k] = "gone"]
    /\ connmap' = connmap \ {k}

\* The peer has gone or the connection is closed; what is read ends.
ReadEnds(k) ==
    /\ link[k] # "open"
    /\ ReaderLeaves(k)
    /\ UNCHANGED <<link, garbled, callVars, mainVars>>

\* A header that cannot be decoded ends the loop as well: the reader closes an
\* open connection, whatever calls of it still run.
ReadGarbled(k) ==
    /\ link[k] = "open"
    /\ ReaderLeaves(k)
    /\ link' = [link EXCEPT ![k] = "closed"]
    /\ garbled' = garbled \cup {k}
    /\ UNCHANGED <<callVars, mainVars>>

-----------------------------------------------------------------------------
(* service.call, one goroutine for each request.                           *)

Step(r, from, to) ==
    /\ call[r] = from
    /\ call' = [call EXCEPT ![r] = to]

Count(r) ==
    /\ Step(r, "read", "counted")
    /\ calls' = calls + 1
    /\ UNCHANGED <<connVars, on, reply, cutOff, mainVars>>

Reply(r, what) == reply' = [reply EXCEPT ![r] = what]

\* FieldEmpty: an argument lacks a required field.
FieldEmpty(r) ==
    /\ Step(r, "counted", "replying")
    /\ Reply(r, "error")
    /\ UNCHANGED <<connVars, calls, on, cutOff, mainVars>>

\* The status is looked at twice, first for 1 and then for 2.
SeesStopping(r) ==
    /\ status = 1
    /\ Step(r, "counted", "replying")
    /\ Reply(r, "ShutDownIng")
    /\ UNCHANGED <<connVars, calls, on, cutOff, mainVars>>

SeesNotStopping(r) ==
    /\ status # 1
    /\ Step(r, "counted", "checked")
    /\ UNCHANGED <<connVars, calls, on, reply, cutOff, mainVars>>

SeesClosed(r) ==
    /\ status = 2
    /\ Step(r, "checked", "replying")
    /\ Reply(r, "ShutDownIng")
    /\ link' = [k \in Conns |-> IF k \in on[r] THEN "closed" ELSE link[k]]
    /\ UNCHANGED <<reader, connmap, garbled, calls, on, cutOff, mainVars>>

\* Mutant: a call that has seen the server not stopping does not look again.
SeesOpenAnyway(r) ==
    /\ Step(r, "checked", "admitted")
    /\ UNCHANGED <<connVars, calls, on, reply, cutOff, mainVars>>

SeesOpen(r) ==
    /\ status # 2
    /\ Step(r, "checked", "admitted")
    /\ UNCHANGED <<connVars, calls, on, reply, cutOff, mainVars>>

\* The controller is called, whatever the status has become since the look.
Invoke(r) ==
    /\ Step(r, "admitted", "running")
    /\ UNCHANGED <<connVars, calls, on, reply, cutOff, mainVars>>

\* Mutant: the call is no longer counted while its reply is written.
ReturnUncounted(r) ==
    /\ Step(r, "running", "replying")
    /\ Reply(r, "result")
    /\ calls' = calls - 1
    /\ UNCHANGED <<connVars, on, cutOff, mainVars>>

Return(r) ==
    /\ Step(r, "running", "replying")
    /\ Reply(r, "result")
    /\ UNCHANGED <<connVars, calls, on, cutOff, mainVars>>

\* Mutant: a panic ends the goroutine without the deferred function.
PanicsUncaught(r) ==
    /\ Step(r, "running", "done")
    /\ Reply(r, "panic")
    /\ UNCHANGED <<connVars, calls, on, cutOff, mainVars>>

\* A panic of the controller is recovered by the deferred function, which
\* replies and goes on as after a return.
Panics(r) ==
    /\ Step(r, "running", "replying")
    /\ Reply(r, "panic")
    /\ UNCHANGED <<connVars, calls, on, cutOff, mainVars>>

\* sendResponse; on a connection that is no longer open the reply is lost.
Send(r) ==
    /\ Step(r, "replying", "leaving")
    /\ cutOff' = IF \E k \in on[r] : link[k] = "closed" THEN cutOff \cup {r} ELSE cutOff
    /\ UNCHANGED <<connVars, calls, on, reply, mainVars>>

Leave(r) ==
    /\ Step(r, "leaving", "done")
    /\ calls' = calls - 1
    /\ UNCHANGED <<connVars, on, reply, cutOff, mainVars>>

Call(r) ==
    \/ Count(r) \/ FieldEmpty(r) \/ SeesStopping(r) \/ SeesNotStopping(r)
    \/ SeesClosed(r) \/ SeesOpen(r) \/ Invoke(r) \/ Return(r) \/ Panics(r) \/ Send(r) \/ Leave(r)

Serve(k) ==
    \/ Accept(k) \/ Admit(k) \/ Register(k) \/ PeerCloses(k)
    \/ ReadEnds(k) \/ ReadGarbled(k)
    \/ \E r \in Requests : Read(k, r) \/ ReadInvalid(k, r)

-----------------------------------------------------------------------------
(* The main goroutine: GotreeService.Run, the loop of Run, GotreeService.Close. *)

\* Mutant: the status is set when the waiting is over.
SignalQuietly ==
    /\ main = "serving"
    /\ main' = "polling"
    /\ UNCHANGED <<connVars, callVars, status, polls>>

Signal ==
    /\ main = "serving"
    /\ status' = status + 1
    /\ main' = "polling"
    /\ UNCHANGED <<connVars, callVars, polls>>

\* Mutant: the loop ends at one call.
PollIdleEarly ==
    /\ main = "polling"
    /\ calls <= 1
    /\ main' = "drained"
    /\ UNCHANGED <<connVars, callVars, status, polls>>

\* No call is counted: the loop ends.
PollIdle ==
    /\ main = "polling"
    /\ calls <= 0
    /\ main' = "drained"
    /\ UNCHANGED <<connVars, callVars, status, polls>>

\* A turn of the loop, or the last one, with calls that still run.
PollBusy ==
    /\ main = "polling"
    /\ calls > 0
    /\ polls' = polls + 1
    /\ main' = IF polls' = MaxPolls THEN "gaveUp" ELSE "polling"
    /\ UNCHANGED <<connVars, callVars, status>>

\* GotreeService.Close: the status, the listener, the connections known.
SetClosed ==
    /\ main \in {"drained", "gaveUp"}
    /\ status = 1
    /\ status' = status + 1
    /\ UNCHANGED <<connVars, callVars, main, polls>>

CloseConns ==
    /\ main \in {"drained", "gaveUp"}
    /\ status = 2
    /\ link' = [k \in Conns |-> IF k \in connmap THEN "closed" ELSE link[k]]
    /\ main' = "closed"
    /\ UNCHANGED <<reader, connmap, garbled, callVars, status, polls>>

Main == Signal \/ PollIdle \/ PollBusy \/ SetClosed \/ CloseConns

Next == (\E k \in Conns : Serve(k)) \/ (\E r \in Requests : Call(r)) \/ Main

Spec == Init /\ [][Next]_vars

-----------------------------------------------------------------------------
Counted ==
    {r \in Requests :
        call[r] \in {"counted", "checked", "admitted", "running", "replying", "leaving"}}

TypeOK ==
    /\ status \in 0 .. 2 /\ polls \in 0 .. MaxPolls
    /\ link \in [Conns -> {"none", "open", "broken", "closed"}]
    /\ reader \in [Conns -> {"none", "accepted", "starting", "reading", "gone"}]
    /\ connmap = {k \in Conns : reader[k] = "reading"}
    /\ garbled \subseteq Conns
    /\ call \in [Requests -> {"unread", "read", "counted", "checked", "admitted", "running",
                              "replying", "leaving", "done"}]
    /\ on \in [Requests -> SUBSET Conns]
    /\ reply \in [Requests -> {"none", "error", "ShutDownIng", "result", "panic"}]
    /\ cutOff \subseteq Requests
    /\ main \in {"serving", "polling", "drained", "gaveUp", "closed"}
    /\ calls \in Int

\* The count the stop relies on is the number of goroutines in service.call,
\* whether they return, refuse, find an empty field or panic.
CallsCounted == calls = Cardinality(Counted)

\* When the loop ends because it saw no call, none is being executed then or
\* later: no call slips in between the count and the status, although both are
\* read without a lock, or between its look at the status and its controller.
\* (When it gives up, calls may be cut off, and one that has looked may start.)
DrainedIsIdle ==
    (main = "drained" \/ (main = "closed" /\ polls < MaxPolls)) =>
        \A r \in Requests : call[r] # "running"

\* A call that was executed gets its reply written before its connection is
\* closed, unless the server gave up waiting, the peer went away, or what came
\* over that connection cannot be read any further.
RepliesPrecedeClose ==
    \A r \in cutOff : reply[r] \in {"result", "panic"} =>
        polls = MaxPolls \/ on[r] \cap garbled # {}

-----------------------------------------------------------------------------
(* The server implements the graceful stop that callers are promised.      *)

Fate(r) ==
    CASE call[r] \in {"admitted", "running"} -> "executing"
      [] reply[r] \in {"result", "panic"} -> "finished"
      [] reply[r] = "ShutDownIng" -> "refused"
      [] reply[r] = "error" -> "rejected"
      [] OTHER -> "waiting"

Graceful == INSTANCE GracefulStop WITH
    Patience <- MaxPolls,
    service <- CASE status = 0 -> "up" [] status = 1 -> "stopping" [] OTHER -> "down",
    waits <- polls,
    fate <- [r \in Requests |-> Fate(r)]

\* The server keeps the promises of GracefulStop: it goes down with requests
\* running only when its patience is at an end, and a request answered with
\* ShutDownIng, which CallClient.Do sends again, has not been executed.
ImplementsGracefulStop == Graceful!Spec
=============================================================================
