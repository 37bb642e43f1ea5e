------------------------------- MODULE Codec -------------------------------
(***************************************************************************)
(* How requests find their answers (framework/net.go): a connection's      *)
(* serverCodec numbers the requests it reads and keeps the id the client   *)
(* gave each in `pending`; the answer carries the number, and the codec    *)
(* looks the id up.  In between number and answer travel in Request and    *)
(* Response objects, which all connections take from the two free lists of *)
(* the Server and hand back.                                               *)
(*                                                                         *)
(* An object is named by the order of its allocation.  What becomes of the *)
(* call, the counting and the stop are in RpcServer.                       *)
(***************************************************************************)
EXTENDS Integers, Sequences

CONSTANTS
    Links,      \* connections
    Busy,       \* the one with more than one request
    MaxSent     \* bound: requests on the busy connection

ASSUME CodecAssumption == Busy \in Links /\ MaxSent \in Nat \ {0}

\* A request: its connection and the id its client gave it.
Sent == ({Busy} \X (1 .. MaxSent)) \cup (Links \X {1})

VARIABLES
    stage,      \* where the goroutine that holds each request stands
    refused,    \* the requests the reader itself answers
    serverSeq,  \* serverCodec.seq
    pending,    \* serverCodec.pending: the id of each number
    freeReq,    \* Server.freeReq, the first one first
    freeResp,   \* Server.freeResp
    madeReq,    \* Requests allocated
    madeResp,   \* Responses allocated
    request,    \* the Request a goroutine holds: <<object>>, or << >>
    resp,       \* the Response it holds
    reqSeq,     \* Request.Seq of each object
    respSeq,    \* Response.Seq
    answered    \* the ids written to each connection, in order

reqVars  == <<freeReq, madeReq, request, reqSeq>>
respVars == <<freeResp, madeResp, resp, respSeq>>
wireVars == <<serverSeq, pending, answered>>
codecVars == <<stage, refused, wireVars, reqVars, respVars>>

CodecInit ==
    /\ stage = [c \in Sent |-> "unread"] /\ refused = {}
    /\ serverSeq = [k \in Links |-> 0]
    /\ pending = [k \in Links |-> << >>]
    /\ answered = [k \in Links |-> << >>]
    /\ freeReq = << >> /\ madeReq = 0 /\ request = [c \in Sent |-> << >>]
    /\ freeResp = << >> /\ madeResp = 0 /\ resp = [c \in Sent |-> << >>]
    /\ reqSeq = << >> /\ respSeq = << >>

-----------------------------------------------------------------------------
Moves(c, from, to) == stage[c] = from /\ stage' = [stage EXCEPT ![c] = to]

\* A list hands out its head, or a new object: the object taken.
Taken(free, made) == IF free = << >> THEN made + 1 ELSE Head(free)
Rest(free)        == IF free = << >> THEN free ELSE Tail(free)
Made(free, made)  == IF free = << >> THEN made + 1 ELSE made

Put(f, x, y) == [z \in DOMAIN f \cup {x} |-> IF z = x THEN y ELSE f[z]]

\* The reader of a connection is waiting for the rest of a request, or busy
\* with the answer to one it refused.
Reading(k) ==
    \E d \in Sent : d[1] = k /\ (stage[d] = "reading" \/ (d \in refused /\ stage[d] # "done"))

\* readRequestHeader takes a Request before it waits for the connection.
GetRequest(c) ==
    /\ ~Reading(c[1])
    /\ \A n \in 1 .. c[2] - 1 : stage[<<c[1], n>>] # "unread"
    /\ Moves(c, "unread", "reading")
    /\ LET o == Taken(freeReq, madeReq)
       IN  /\ request' = [request EXCEPT ![c] = <<o>>]
           /\ reqSeq' = Put(reqSeq, o, 0)
    /\ freeReq' = Rest(freeReq) /\ madeReq' = Made(freeReq, madeReq)
    /\ UNCHANGED <<refused, wireVars, respVars>>

\* serverCodec.ReadRequestHeader numbers the request.  One for an unknown
\* method, or with a body that does not decode, is answered by the reader;
\* for any other a goroutine is started.
ReadRequest(c) ==
    /\ Moves(c, "reading", "called")
    /\ refused' \in {refused, refused \cup {c}}
    /\ LET k == c[1]
           s == serverSeq[k] + 1
       IN  /\ serverSeq' = [serverSeq EXCEPT ![k] = s]
           /\ pending' = [pending EXCEPT ![k] = Put(@, s, c[2])]
           /\ reqSeq' = [reqSeq EXCEPT ![request[c][1]] = s]
    /\ UNCHANGED <<answered, freeReq, madeReq, request, respVars>>

\* The client is gone: the Request is left to the garbage collector, and the
\* reader ends.
HeaderFails(c) ==
    /\ Moves(c, "reading", "lost")
    /\ refused' = refused \cup {c}
    /\ request' = [request EXCEPT ![c] = << >>]
    /\ UNCHANGED <<wireVars, freeReq, madeReq, reqSeq, respVars>>

\* sendResponse takes a Response and gives it the number of the Request, ...
ServerGetResponse(c) ==
    /\ Moves(c, "called", "filled")
    /\ LET o == Taken(freeResp, madeResp)
       IN  /\ resp' = [resp EXCEPT ![c] = <<o>>]
           /\ respSeq' = Put(respSeq, o, reqSeq[request[c][1]])
    /\ freeResp' = Rest(freeResp) /\ madeResp' = Made(freeResp, madeResp)
    /\ UNCHANGED <<refused, wireVars, reqVars>>

\* ... and WriteResponse under the lock of the connection's answers, which
\* writes nothing for a number that is not pending.
WriteResponse(c) ==
    /\ Moves(c, "filled", "written")
    /\ LET k == c[1]
           s == respSeq[resp[c][1]]
       IN  IF s \in DOMAIN pending[k]
           THEN /\ pending' = [pending EXCEPT ![k] = [t \in DOMAIN @ \ {s} |-> @[t]]]
                /\ answered' = [answered EXCEPT ![k] = Append(@, pending[k][s])]
           ELSE UNCHANGED <<pending, answered>>
    /\ UNCHANGED <<refused, serverSeq, reqVars, respVars>>

FreeResponse(c) ==
    /\ Moves(c, "written", "freed")
    /\ freeResp' = resp[c] \o freeResp
    /\ resp' = [resp EXCEPT ![c] = << >>]
    /\ UNCHANGED <<refused, wireVars, reqVars, madeResp, respSeq>>

\* Mutant: a Request is handed back twice.
FreeRequestTwice(c) ==
    /\ Moves(c, "freed", "done")
    /\ freeReq' = request[c] \o request[c] \o freeReq
    /\ request' = [request EXCEPT ![c] = << >>]
    /\ UNCHANGED <<refused, wireVars, madeReq, reqSeq, respVars>>

FreeRequest(c) ==
    /\ Moves(c, "freed", "done")
    /\ freeReq' = request[c] \o freeReq
    /\ request' = [request EXCEPT ![c] = << >>]
    /\ UNCHANGED <<refused, wireVars, madeReq, reqSeq, respVars>>

SendResponse(c) ==
    ServerGetResponse(c) \/ WriteResponse(c) \/ FreeResponse(c) \/ FreeRequest(c)

CodecNext ==
    \E c \in Sent :
        \/ GetRequest(c) \/ ReadRequest(c) \/ HeaderFails(c)
        \/ SendResponse(c)

CodecSpec == CodecInit /\ [][CodecNext]_codecVars

-----------------------------------------------------------------------------
TimesAnswered(k, n) == {i \in 1 .. Len(answered[k]) : answered[k][i] = n}

\* Every request whose header was read is answered once on its connection,
\* with the id its client gave it, although the objects that carry its number
\* pass from connection to connection: none is in two hands, and no answer is
\* lost to a number that another one used up.
AnsweredOnce ==
    \A c \in Sent :
        /\ \A i, j \in TimesAnswered(c[1], c[2]) : i = j
        /\ stage[c] \in {"written", "freed", "done"} <=> TimesAnswered(c[1], c[2]) # {}
=============================================================================
