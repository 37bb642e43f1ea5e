----------------------------- MODULE StopProofs -----------------------------
(***************************************************************************)
(* What a graceful stop leaves behind, for the server every process has,   *)
(* for an app, for a dao and for the process that is either, whatever the  *)
(* numbers of requests, timers, tasks and consumers.                       *)
(*                                                                         *)
(* Run looks at its counts one after the other and without a lock.  That a *)
(* stop which found nothing leaves nothing rests on the order: what could  *)
(* start something is looked at first, and is quiet ever after.  AppSeen   *)
(* and QueueSeen say what is known after each look.                        *)
(***************************************************************************)
EXTENDS MCStops, RpcServer, FiniteSetTheorems, SequenceTheorems, TLAPS

-----------------------------------------------------------------------------
(* The server.  The stop reads the count after it has written the status,  *)
(* a call writes the count before it reads the status: a call that found   *)
(* the server up is counted when the stop looks.  StopInv is that          *)
(* argument: what the stop knows of the calls once it has seen none.       *)

CallPlaces ==
    {"unread", "read", "counted", "checked", "admitted", "running", "replying", "leaving",
     "done"}

\* How the main goroutine's place fixes the status and the turns.
MainInv ==
    /\ main = "serving" <=> status = 0
    /\ main \in {"serving", "polling"} => polls < MaxPolls
    /\ main = "polling" => status = 1
    /\ main = "gaveUp" => polls = MaxPolls
    /\ main = "closed" => status = 2

\* A request has a reply exactly when it is past its controller.
ReplyInv ==
    \A r \in Requests :
        (call[r] \in {"unread", "read", "counted", "checked", "admitted", "running"})
            <=> reply[r] = "none"

\* The loop has ended because it saw no call.
Drained == main = "drained" \/ (main = "closed" /\ polls # MaxPolls)

StopInv ==
    Drained =>
        \A r \in Requests :
            /\ call[r] \notin {"admitted", "running"}
            /\ call[r] = "checked" => status = 2
            /\ call[r] = "replying" => reply[r] \in {"ShutDownIng", "error"}

\* A connection is closed by a server that is, or by its own reader.
CloseInv ==
    /\ \A k \in Conns : link[k] = "closed" => status = 2 \/ k \in garbled
    /\ \A r \in cutOff : reply[r] # "none"
    /\ \A r \in cutOff :
          \/ reply[r] \in {"ShutDownIng", "error"}
          \/ polls = MaxPolls
          \/ on[r] \cap garbled # {}

ServerInv == TypeOK /\ CallsCounted /\ MainInv /\ ReplyInv /\ StopInv /\ CloseInv

LEMMA CountedIsFinite == IsFiniteSet(Counted) /\ IsFiniteSet(Counted')
<1>1. Counted \in SUBSET Requests /\ Counted' \in SUBSET Requests
  BY DEF Counted
<1> QED BY <1>1, FS_Subset, ConstantsAssumption

LEMMA InitServer == Init => ServerInv
<1> SUFFICES ASSUME Init PROVE ServerInv
  OBVIOUS
<1>1. TypeOK /\ MainInv /\ ReplyInv /\ StopInv /\ CloseInv
  BY ConstantsAssumption DEF Init, TypeOK, MainInv, ReplyInv, StopInv, Drained, CloseInv
<1>2. Counted = {}
  BY DEF Init, Counted
<1>3. CallsCounted
  BY <1>2, FS_EmptySet DEF Init, CallsCounted
<1> QED BY <1>1, <1>3 DEF ServerInv

-----------------------------------------------------------------------------
\* The connections' steps leave the calls and the main goroutine alone.
LEMMA ServeKeeps == ASSUME ServerInv, NEW k \in Conns, Serve(k) PROVE ServerInv'
<1> USE DEF ServerInv
<1>1. TypeOK'
  BY DEF TypeOK, Serve, Accept, Admit, Register, Read, ReadInvalid, PeerCloses,
         ReadEnds, ReadGarbled, ReaderLeaves,
         connVars, callVars, mainVars
<1>2. Counted' = Counted /\ calls' = calls
  BY DEF TypeOK, Counted, Serve, Accept, Admit, Register, Read, ReadInvalid, PeerCloses,
         ReadEnds, ReadGarbled, ReaderLeaves, connVars, callVars, mainVars
<1>3. CallsCounted'
  BY <1>2 DEF CallsCounted
<1>4. MainInv'
  BY DEF MainInv, Serve, Accept, Admit, Register, Read, ReadInvalid, PeerCloses,
         ReadEnds, ReadGarbled, ReaderLeaves,
         connVars, callVars, mainVars
<1>5. ReplyInv' /\ StopInv'
  BY DEF TypeOK, ReplyInv, StopInv, Drained, Serve, Accept, Admit, Register, Read,
         ReadInvalid, PeerCloses,
         ReadEnds, ReadGarbled, ReaderLeaves, connVars, callVars, mainVars
<1>6. CloseInv'
  <2>1. UNCHANGED <<cutOff, status, polls>> /\ garbled \subseteq garbled'
    BY DEF Serve, Accept, Admit, Register, Read, ReadInvalid, PeerCloses, ReadEnds,
           ReadGarbled, ReaderLeaves, connVars, callVars, mainVars
  <2>2. \A d \in Conns : link'[d] = "closed" => status = 2 \/ d \in garbled'
    BY DEF TypeOK, CloseInv, Serve, Accept, Admit, Register, Read, ReadInvalid, PeerCloses,
           ReadEnds, ReadGarbled, ReaderLeaves, connVars
  <2>3. ASSUME NEW r \in cutOff PROVE reply'[r] = reply[r] /\ on'[r] = on[r]
    <3>1. r \in Requests /\ call[r] # "unread"
      BY DEF TypeOK, CloseInv, ReplyInv
    <3> QED BY <3>1 DEF TypeOK, Serve, Accept, Admit, Register, Read, ReadInvalid, PeerCloses,
                        ReadEnds, ReadGarbled, ReaderLeaves, callVars
  <2> QED BY <2>1, <2>2, <2>3 DEF CloseInv
<1> QED BY <1>1, <1>3, <1>4, <1>5, <1>6

\* A call's step keeps the count: it adds itself once and takes itself off once.
LEMMA CallKeepsCount ==
  ASSUME call \in [Requests -> CallPlaces], calls \in Int, CallsCounted,
         NEW r \in Requests, Call(r)
  PROVE  CallsCounted'
<1>1. IsFiniteSet(Counted)
  BY CountedIsFinite
<1>2. CASE Count(r)
  <2>1. r \notin Counted /\ Counted' = Counted \cup {r}
    BY <1>2 DEF Counted, Count, Step, CallPlaces
  <2>2. Cardinality(Counted') = Cardinality(Counted) + 1
    BY <2>1, <1>1, FS_AddElement
  <2> QED BY <2>2, <1>2 DEF CallsCounted, Count
<1>3. CASE Leave(r)
  <2>1. r \in Counted /\ Counted' = Counted \ {r}
    BY <1>3 DEF Counted, Leave, Step, CallPlaces
  <2>2. Cardinality(Counted') = Cardinality(Counted) - 1
    BY <2>1, <1>1, FS_RemoveElement
  <2> QED BY <2>2, <1>3 DEF CallsCounted, Leave
<1>4. CASE ~Count(r) /\ ~Leave(r)
  <2>1. Counted' = Counted /\ calls' = calls
    BY <1>4 DEF Counted, CallPlaces, Call, FieldEmpty, SeesStopping, SeesNotStopping,
                SeesClosed, SeesOpen, Invoke, Return, Panics, Send, Step
  <2> QED BY <2>1 DEF CallsCounted
<1> QED BY <1>2, <1>3, <1>4

LEMMA CallKeeps == ASSUME ServerInv, NEW r \in Requests, Call(r) PROVE ServerInv'
<1> USE DEF ServerInv
<1>1. TypeOK'
  BY DEF TypeOK, Call, Count, FieldEmpty, SeesStopping, SeesNotStopping, SeesClosed, SeesOpen, Invoke,
         Return, Panics, Send, Leave, Step, Reply, connVars, mainVars
<1>2. CallsCounted'
  BY CallKeepsCount DEF TypeOK, CallPlaces
<1>3. MainInv'
  BY DEF MainInv, Call, Count, FieldEmpty, SeesStopping, SeesNotStopping, SeesClosed, SeesOpen, Invoke,
         Return, Panics, Send, Leave, mainVars
<1>4. ReplyInv'
  BY DEF TypeOK, ReplyInv, Call, Count, FieldEmpty, SeesStopping, SeesNotStopping,
         SeesClosed, SeesOpen, Invoke, Return, Panics, Send, Leave, Step, Reply
<1>5. StopInv'
  BY DEF TypeOK, MainInv, StopInv, Drained, Call, Count, FieldEmpty, SeesStopping,
         SeesNotStopping, SeesClosed, SeesOpen, Invoke, Return, Panics, Send, Leave, Step, Reply,
         mainVars
<1>6. CloseInv'
  <2>1. CASE Send(r)
    <3>1. UNCHANGED <<link, reply, status, main, polls, on, garbled>> /\ call[r] = "replying"
      BY <2>1 DEF Send, Step, connVars, mainVars
    <3>2. CASE cutOff' = cutOff
      BY <3>1, <3>2 DEF CloseInv
    <3>3. CASE cutOff' = cutOff \cup {r} /\ \E k \in on[r] : link[k] = "closed"
      <4>1. PICK k \in on[r] : link[k] = "closed"
        BY <3>3
      <4>2. k \in Conns
        BY DEF TypeOK
      <4>3. k \in garbled => on[r] \cap garbled # {}
        OBVIOUS
      <4>4. status = 2 /\ polls # MaxPolls => Drained
        BY DEF MainInv, Drained, TypeOK
      <4>5. status = 2 /\ polls # MaxPolls => reply[r] \in {"ShutDownIng", "error"}
        BY <4>4, <3>1 DEF StopInv
      <4>6. \/ reply[r] \in {"ShutDownIng", "error"}
            \/ polls = MaxPolls
            \/ on[r] \cap garbled # {}
        BY <4>1, <4>2, <4>3, <4>5 DEF CloseInv
      <4>7. reply[r] # "none"
        BY <3>1 DEF ReplyInv
      <4> QED BY <4>6, <4>7, <3>1, <3>3 DEF CloseInv
    <3> QED BY <2>1, <3>2, <3>3 DEF Send, TypeOK
  <2>2. CASE ~Send(r)
    <3>1. UNCHANGED <<cutOff, polls, status, on, garbled>>
      BY <2>2 DEF Call, Count, FieldEmpty, SeesStopping, SeesNotStopping, SeesClosed, SeesOpen,
                  Invoke, Return, Panics, Leave, connVars, mainVars
    <3>2. \A k \in Conns : link'[k] = "closed" => status = 2 \/ k \in garbled
      BY <2>2 DEF TypeOK, CloseInv, Call, Count, FieldEmpty, SeesStopping, SeesNotStopping,
                  SeesClosed, SeesOpen, Invoke, Return, Panics, Leave, connVars
    <3>3. \A q \in cutOff : reply[q] # "none" => reply'[q] = reply[q]
      BY <2>2 DEF TypeOK, ReplyInv, Call, Count, FieldEmpty, SeesStopping, SeesNotStopping,
                  SeesClosed, SeesOpen, Invoke, Return, Panics, Leave, Step, Reply
    <3>4. \A q \in cutOff : reply'[q] = reply[q]
      BY <3>3 DEF CloseInv
    <3> QED BY <3>1, <3>2, <3>4 DEF CloseInv
  <2> QED BY <2>1, <2>2
<1> QED BY <1>1, <1>2, <1>3, <1>4, <1>5, <1>6

LEMMA MainKeeps == ASSUME ServerInv, Main PROVE ServerInv'
<1> USE DEF ServerInv
<1>1. UNCHANGED callVars
  BY DEF Main, Signal, PollIdle, PollBusy, SetClosed, CloseConns
<1>2. TypeOK' /\ MainInv'
  <2> USE ConstantsAssumption DEF TypeOK, MainInv, connVars, callVars
  <2>1. CASE Signal \/ SetClosed
    BY <2>1 DEF Signal, SetClosed
  <2>2. CASE PollIdle \/ PollBusy
    BY <2>2 DEF PollIdle, PollBusy
  <2>3. CASE CloseConns
    BY <2>3 DEF CloseConns
  <2> QED BY <2>1, <2>2, <2>3 DEF Main
<1>3. CallsCounted' /\ ReplyInv'
  BY <1>1 DEF CallsCounted, Counted, ReplyInv, callVars
<1>4. StopInv'
  <2>1. CASE PollIdle
    <3>1. Counted = {}
      <4>1. Cardinality(Counted) \in Nat
        BY CountedIsFinite, FS_CardinalityType
      <4>2. Cardinality(Counted) = 0
        BY <4>1, <2>1 DEF PollIdle, CallsCounted
      <4> QED BY <4>2, CountedIsFinite, FS_EmptySet
    <3> QED BY <3>1, <1>1 DEF Counted, StopInv, callVars
  <2>2. CASE Drained
    BY <2>2, <1>1 DEF Drained, StopInv, MainInv, Main, Signal, PollIdle, PollBusy, SetClosed,
                      CloseConns, callVars, TypeOK
  <2>3. CASE ~PollIdle /\ ~Drained
    <3>1. ~Drained'
      BY <2>3 DEF Drained, Main, Signal, PollBusy, SetClosed, CloseConns, MainInv
    <3> QED BY <3>1 DEF StopInv
  <2> QED BY <2>1, <2>2, <2>3
<1>5. CloseInv'
  BY <1>1 DEF CloseInv, MainInv, Main, Signal, PollIdle, PollBusy, SetClosed, CloseConns,
              connVars, callVars, TypeOK
<1> QED BY <1>2, <1>3, <1>4, <1>5

LEMMA StepKeeps == ServerInv /\ [Next]_vars => ServerInv'
<1> SUFFICES ASSUME ServerInv, [Next]_vars PROVE ServerInv'
  OBVIOUS
<1>1. ASSUME NEW k \in Conns, Serve(k) PROVE ServerInv'
  BY <1>1, ServeKeeps
<1>2. ASSUME NEW r \in Requests, Call(r) PROVE ServerInv'
  BY <1>2, CallKeeps
<1>3. CASE Main
  BY <1>3, MainKeeps
<1>4. CASE UNCHANGED vars
  BY <1>4 DEF ServerInv, TypeOK, CallsCounted, Counted, MainInv, ReplyInv, StopInv, Drained,
              CloseInv, vars, connVars, callVars, mainVars
<1> QED BY <1>1, <1>2, <1>3, <1>4 DEF Next

LEMMA ServerInvariant == Spec => []ServerInv
<1> QED BY InitServer, StepKeeps, PTL DEF Spec

-----------------------------------------------------------------------------
\* Every variable of the server keeps its type; the connection map holds the
\* connections whose reader runs, and no other.
THEOREM ServerTypeCorrect == Spec => []TypeOK
<1>1. ServerInv => TypeOK
  BY DEF ServerInv
<1> QED BY <1>1, ServerInvariant, PTL

\* RunStack.calls is the number of goroutines in service.call, however the
\* calls end.
THEOREM ServerCountsCalls == Spec => []CallsCounted
<1>1. ServerInv => CallsCounted
  BY DEF ServerInv
<1> QED BY <1>1, ServerInvariant, PTL

\* A stop that has seen no call cuts no controller off.
THEOREM ServerDrainedIsIdle == Spec => []DrainedIsIdle
<1>1. ServerInv => DrainedIsIdle
  BY ConstantsAssumption DEF ServerInv, StopInv, Drained, DrainedIsIdle, TypeOK
<1> QED BY <1>1, ServerInvariant, PTL

\* The replies of executed calls are written before their connections are
\* closed, unless the server gives up, the peer has gone, or the reader met what
\* it cannot decode.
THEOREM ServerRepliesPrecedeClose == Spec => []RepliesPrecedeClose
<1>1. ServerInv => RepliesPrecedeClose
  BY DEF ServerInv, CloseInv, RepliesPrecedeClose
<1> QED BY <1>1, ServerInvariant, PTL

-----------------------------------------------------------------------------
(* The server implements GracefulStop.                                     *)

\* A step of a connection changes no fate, except that a request whose method
\* does not exist is rejected by the reader.
LEMMA ServeRefines ==
  ASSUME ServerInv, NEW k \in Conns, Serve(k)
  PROVE  [Graceful!Next]_(Graceful!vars)
<1> USE DEF ServerInv
<1>1. UNCHANGED mainVars
  BY DEF Serve, Accept, Admit, Register, Read, ReadInvalid, PeerCloses,
         ReadEnds, ReadGarbled, ReaderLeaves
<1>2. ASSUME NEW r \in Requests, ReadInvalid(k, r) PROVE [Graceful!Next]_(Graceful!vars)
  <2>1. /\ Fate(r) = "waiting" /\ Fate(r)' = "rejected"
        /\ \A q \in Requests \ {r} : Fate(q)' = Fate(q)
    BY <1>2 DEF Fate, ReadInvalid, ReplyInv, TypeOK
  <2>2. Graceful!Reject(r)
    BY <2>1, <1>1 DEF Graceful!Reject, Graceful!Becomes, mainVars
  <2> QED BY <2>2 DEF Graceful!Next
<1>3. ASSUME \A r \in Requests : ~ReadInvalid(k, r) PROVE UNCHANGED Graceful!vars
  <2>1. \A r \in Requests : Fate(r)' = Fate(r)
    BY <1>3 DEF Fate, TypeOK, Serve, Accept, Admit, Register, Read, PeerCloses,
         ReadEnds, ReadGarbled, ReaderLeaves,
                callVars
  <2> QED BY <2>1, <1>1 DEF Graceful!vars, mainVars
<1> QED BY <1>2, <1>3

LEMMA CallRefines ==
  ASSUME ServerInv, NEW r \in Requests, Call(r)
  PROVE  [Graceful!Next]_(Graceful!vars)
<1> USE DEF ServerInv
<1>1. UNCHANGED mainVars
  BY DEF Call, Count, FieldEmpty, SeesStopping, SeesNotStopping, SeesClosed, SeesOpen, Invoke, Return,
         Panics, Send, Leave
<1>2. \A q \in Requests \ {r} : Fate(q)' = Fate(q)
  BY DEF Fate, TypeOK, Call, Count, FieldEmpty, SeesStopping, SeesNotStopping, SeesClosed,
         SeesOpen, Invoke, Return, Panics, Send, Leave, Step, Reply
<1>3. CASE SeesOpen(r)
  <2>1. Fate(r) = "waiting" /\ Fate(r)' = "executing" /\ status # 2
    BY <1>3 DEF Fate, SeesOpen, Step, ReplyInv, TypeOK
  <2>2. Graceful!Becomes(r, "waiting", "executing")
    BY <2>1, <1>1, <1>2 DEF Graceful!Becomes, mainVars
  <2>3. status = 0 \/ status = 1
    BY <2>1 DEF TypeOK
  <2>4. Graceful!Admit(r)
    BY <2>2, <2>3 DEF Graceful!Admit
  <2> QED BY <2>4 DEF Graceful!Next
<1>4. CASE Return(r) \/ Panics(r)
  <2>1. Fate(r) = "executing" /\ Fate(r)' = "finished"
    BY <1>4 DEF Fate, Return, Panics, Step, Reply, ReplyInv, TypeOK
  <2>2. Graceful!Finish(r)
    BY <2>1, <1>1, <1>2 DEF Graceful!Finish, Graceful!Becomes, mainVars
  <2> QED BY <2>2 DEF Graceful!Next
<1>5. CASE SeesStopping(r) \/ SeesClosed(r)
  <2>1. Fate(r) = "waiting" /\ Fate(r)' = "refused" /\ status # 0
    BY <1>5 DEF Fate, SeesStopping, SeesClosed, Step, Reply, ReplyInv, TypeOK
  <2>2. Graceful!Refuse(r)
    BY <2>1, <1>1, <1>2 DEF Graceful!Refuse, Graceful!Becomes, mainVars, TypeOK
  <2> QED BY <2>2 DEF Graceful!Next
<1>6. CASE FieldEmpty(r)
  <2>1. Fate(r) = "waiting" /\ Fate(r)' = "rejected"
    BY <1>6 DEF Fate, FieldEmpty, Step, Reply, ReplyInv, TypeOK
  <2>2. Graceful!Reject(r)
    BY <2>1, <1>1, <1>2 DEF Graceful!Reject, Graceful!Becomes, mainVars
  <2> QED BY <2>2 DEF Graceful!Next
<1>7. CASE Count(r) \/ SeesNotStopping(r) \/ Invoke(r) \/ Send(r) \/ Leave(r)
  <2>1. Fate(r)' = Fate(r)
    BY <1>7 DEF Fate, Count, SeesNotStopping, Invoke, Send, Leave, Step, TypeOK
  <2> QED BY <2>1, <1>1, <1>2 DEF Graceful!vars, mainVars
<1> QED BY <1>3, <1>4, <1>5, <1>6, <1>7 DEF Call

LEMMA MainRefines == ASSUME ServerInv, Main PROVE [Graceful!Next]_(Graceful!vars)
<1> USE DEF ServerInv
<1>1. \A r \in Requests : Fate(r)' = Fate(r)
  BY DEF Main, Signal, PollIdle, PollBusy, SetClosed, CloseConns, callVars, Fate
<1>2. CASE Signal
  <2>1. Graceful!Stop
    BY <1>1, <1>2 DEF Signal, MainInv, Graceful!Stop
  <2> QED BY <2>1 DEF Graceful!Next
<1>3. CASE PollBusy
  <2>1. Graceful!Wait
    BY <1>1, <1>3 DEF PollBusy, MainInv, Graceful!Wait
  <2> QED BY <2>1 DEF Graceful!Next
<1>4. CASE SetClosed
  <2>1. polls = MaxPolls \/ \A r \in Requests : Fate(r) # "executing"
    BY <1>4, ConstantsAssumption DEF SetClosed, MainInv, StopInv, Drained, Fate, TypeOK, ReplyInv
  <2>2. Graceful!GoDown
    BY <1>1, <1>4, <2>1 DEF SetClosed, Graceful!GoDown
  <2> QED BY <2>2 DEF Graceful!Next
<1>5. CASE PollIdle \/ CloseConns
  BY <1>1, <1>5 DEF PollIdle, CloseConns, Graceful!vars
<1> QED BY <1>2, <1>3, <1>4, <1>5 DEF Main

\* The detailed server, with its unlocked counters, keeps the promises of
\* GracefulStop: it goes down on running requests only when its patience is
\* at an end, and it executes no request that it turns away.
THEOREM ServerImplementsGracefulStop == Spec => ImplementsGracefulStop
<1>1. Init => Graceful!Init
  BY DEF Init, Graceful!Init, Fate
<1>2. ServerInv /\ [Next]_vars => [Graceful!Next]_(Graceful!vars)
  <2> SUFFICES ASSUME ServerInv, [Next]_vars PROVE [Graceful!Next]_(Graceful!vars)
    OBVIOUS
  <2>1. ASSUME NEW k \in Conns, Serve(k) PROVE [Graceful!Next]_(Graceful!vars)
    BY <2>1, ServeRefines
  <2>2. ASSUME NEW r \in Requests, Call(r) PROVE [Graceful!Next]_(Graceful!vars)
    BY <2>2, CallRefines
  <2>3. CASE Main
    BY <2>3, MainRefines
  <2>4. CASE UNCHANGED vars
    BY <2>4 DEF vars, callVars, mainVars, Graceful!vars, Fate
  <2> QED BY <2>1, <2>2, <2>3, <2>4 DEF Next
<1> QED BY <1>1, <1>2, ServerInvariant, PTL DEF Spec, ImplementsGracefulStop, Graceful!Spec

-----------------------------------------------------------------------------
(* The server of both.                                                     *)

\* Run has been told to stop and waits.
Waiting == {"polling", "seeCalls", "seeTimers", "seeAsyncs", "seeQueue", "decide"}

ServerPart ==
    /\ call \in [Requests -> CallPlaces] /\ calls \in Int /\ CallsCounted
    /\ main \in {"serving", "drained", "gaveUp", "closed"} \cup Waiting
    /\ status \in 0 .. 2 /\ polls \in 0 .. MaxPolls
    /\ main = "serving" <=> status = 0
    /\ main \in {"serving"} \cup Waiting => polls < MaxPolls
    /\ main \in Waiting => status = 1
    /\ main = "gaveUp" => polls = MaxPolls
    /\ main = "closed" => status = 2

\* No call runs, and none will: each meets the status before it is invoked.
CallsQuiet ==
    /\ status # 0
    /\ \A r \in Requests :
          call[r] \notin {"admitted", "running"} /\ (call[r] = "checked" => status = 2)

LEMMA InitServerPart == Init => ServerPart
<1> SUFFICES ASSUME Init PROVE ServerPart
  OBVIOUS
<1>1. CallsCounted
  BY InitServer DEF ServerInv
<1> QED BY <1>1, ConstantsAssumption DEF Init, ServerPart, CallPlaces, Waiting

LEMMA ServeKeepsPart ==
  ASSUME ServerPart, NEW k \in Conns, Serve(k)
  PROVE  ServerPart' /\ (CallsQuiet => CallsQuiet')
<1>1. UNCHANGED mainVars /\ calls' = calls
  BY DEF Serve, Accept, Admit, Register, Read, ReadInvalid, PeerCloses,
         ReadEnds, ReadGarbled, ReaderLeaves, callVars
<1>2. /\ call' \in [Requests -> CallPlaces]
      /\ \A r \in Requests : call'[r] # call[r] =>
            call[r] = "unread" /\ call'[r] \in {"read", "done"}
  BY DEF ServerPart, CallPlaces, Serve, Accept, Admit, Register, Read, ReadInvalid,
         PeerCloses, ReadEnds, ReadGarbled, ReaderLeaves, callVars
<1>3. Counted' = Counted
  BY <1>2 DEF Counted
<1>4. ServerPart'
  BY <1>1, <1>2, <1>3 DEF ServerPart, CallsCounted, mainVars
<1>5. CallsQuiet => CallsQuiet'
  BY <1>1, <1>2 DEF CallsQuiet, mainVars
<1> QED BY <1>4, <1>5

LEMMA CallKeepsPart ==
  ASSUME ServerPart, NEW r \in Requests, Call(r)
  PROVE  /\ ServerPart' /\ (CallsQuiet => CallsQuiet')
         /\ \A q \in Requests \ {r} : call'[q] = call[q]
<1>1. UNCHANGED mainVars
  BY DEF Call, Count, FieldEmpty, SeesStopping, SeesNotStopping, SeesClosed, SeesOpen, Invoke, Return,
         Panics, Send, Leave
<1>2. /\ call' \in [Requests -> CallPlaces] /\ calls' \in Int
      /\ \A q \in Requests \ {r} : call'[q] = call[q]
  BY DEF ServerPart, CallPlaces, Call, Count, FieldEmpty, SeesStopping, SeesNotStopping,
         SeesClosed, SeesOpen, Invoke, Return, Panics, Send, Leave, Step
<1>3. CallsCounted'
  BY CallKeepsCount DEF ServerPart
<1>4. ServerPart'
  BY <1>1, <1>2, <1>3 DEF ServerPart, mainVars
<1>5. CallsQuiet => CallsQuiet'
  <2>0. call'[r] = "running" => call[r] = "admitted"
    BY DEF ServerPart, Call, Count, FieldEmpty, SeesStopping, SeesNotStopping, SeesClosed,
           SeesOpen, Invoke, Return, Panics, Send, Leave, Step
  <2>1. call'[r] = "admitted" => call[r] = "checked" /\ status # 2
    BY DEF ServerPart, Call, Count, FieldEmpty, SeesStopping, SeesNotStopping, SeesClosed,
           SeesOpen, Invoke, Return, Panics, Send, Leave, Step
  <2>2. call'[r] = "checked" => status # 1
    BY DEF ServerPart, Call, Count, FieldEmpty, SeesStopping, SeesNotStopping, SeesClosed,
           SeesOpen, Invoke, Return, Panics, Send, Leave, Step
  <2> QED BY <1>1, <1>2, <2>0, <2>1, <2>2 DEF CallsQuiet, ServerPart, mainVars
<1> QED BY <1>2, <1>4, <1>5

LEMMA MainKeepsPart ==
  ASSUME ServerPart, Signal \/ SetClosed \/ CloseConns
  PROVE  ServerPart' /\ UNCHANGED callVars /\ (CallsQuiet => CallsQuiet')
<1>1. UNCHANGED callVars
  BY DEF Signal, SetClosed, CloseConns
<1>2. CallsCounted'
  BY <1>1 DEF ServerPart, CallsCounted, Counted, callVars
<1>3. ServerPart'
  BY <1>1, <1>2, ConstantsAssumption
  DEF ServerPart, Waiting, Signal, SetClosed, CloseConns, callVars
<1>4. CallsQuiet => CallsQuiet'
  BY <1>1 DEF ServerPart, CallsQuiet, Signal, SetClosed, CloseConns, callVars
<1> QED BY <1>1, <1>3, <1>4

\* What the loop knows once it has found the count of calls at 0.
LEMMA NoCallIsQuiet == ASSUME ServerPart, main \in Waiting, ~(calls > 0) PROVE CallsQuiet
<1>1. Cardinality(Counted) \in Nat
  BY CountedIsFinite, FS_CardinalityType
<1>2. Cardinality(Counted) = 0
  BY <1>1 DEF ServerPart, CallsCounted
<1>3. Counted = {}
  BY <1>2, CountedIsFinite, FS_EmptySet
<1> QED BY <1>3 DEF Counted, CallsQuiet, ServerPart, Waiting

-----------------------------------------------------------------------------
(* The app.                                                                *)

Started == {t \in Timers : timer[t] \in {"top", "ticking"}}

TimerInv ==
    /\ timer \in [Timers -> {"delayed", "top", "ticking", "stopped"}]
    /\ timeNum \in Int /\ timeNum = Cardinality(Started)
    /\ stop \subseteq Timers
    /\ main \notin {"serving", "polling"} => \A t \in Timers : timer[t] = "delayed" => t \in stop

\* No timer ticks, and one that still starts finds its stop message.
TimersQuiet ==
    \A t \in Timers :
        timer[t] # "ticking" /\ (timer[t] \in {"delayed", "top"} => t \in stop)

AppSeen ==
    /\ seen \in BOOLEAN
    /\ main # "seeQueue"
    /\ (main \in {"seeTimers", "seeAsyncs", "decide"} /\ ~seen) \/ Drained => CallsQuiet
    /\ (main \in {"seeAsyncs", "decide"} /\ ~seen) \/ Drained => TimersQuiet

AppInv == ServerPart /\ TimerInv /\ AppSeen

LEMMA StartedIsFinite == IsFiniteSet(Started) /\ IsFiniteSet(Started')
<1>1. Started \in SUBSET Timers /\ Started' \in SUBSET Timers
  BY DEF Started
<1> QED BY <1>1, FS_Subset, TimersAssumption

LEMMA InitApp == AppInit => AppInv
<1> SUFFICES ASSUME AppInit PROVE AppInv
  OBVIOUS
<1>1. ServerPart
  BY InitServerPart DEF AppInit
<1>2. Started = {}
  BY DEF AppInit, Started
<1>3. timeNum = Cardinality(Started)
  BY <1>2, FS_EmptySet DEF AppInit
<1>4. TimerInv
  BY <1>3 DEF AppInit, Init, TimerInv
<1>5. AppSeen
  BY DEF AppInit, Init, AppSeen, Drained
<1> QED BY <1>1, <1>4, <1>5 DEF AppInv

\* What the loop knows once it has found the count of timers at 0.
LEMMA NoTimerIsQuiet ==
  ASSUME TimerInv, main \notin {"serving", "polling"}, ~(timeNum > 0)
  PROVE  TimersQuiet
<1>1. Cardinality(Started) \in Nat
  BY StartedIsFinite, FS_CardinalityType
<1>2. Cardinality(Started) = 0
  BY <1>1 DEF TimerInv
<1>3. Started = {}
  BY <1>2, StartedIsFinite, FS_EmptySet
<1> QED BY <1>3 DEF Started, TimersQuiet, TimerInv

\* A step of the server, or of a task, that leaves the timers and Run alone.
LEMMA AppServerKeeps ==
  ASSUME AppInv, ServerPart', CallsQuiet => CallsQuiet', UNCHANGED <<mainVars, timerVars, seen>>
  PROVE  AppInv'
<1>1. TimerInv'
  BY DEF AppInv, TimerInv, Started, timerVars, mainVars
<1>2. AppSeen'
  BY DEF AppInv, AppSeen, Drained, TimersQuiet, timerVars, mainVars
<1> QED BY <1>1, <1>2 DEF AppInv

LEMMA TaskKeeps ==
  ASSUME AppInv, NEW a \in Asyncs, Spawn(a) \/ Async(a)
  PROVE  AppInv'
<1>1. UNCHANGED <<vars, timerVars, seen>>
  BY DEF Spawn, Async, AsyncCounts, AsyncSleeps, AsyncWakes, AsyncCancelled, AsyncReturns,
         AsyncLeaves
<1>2. ServerPart' /\ (CallsQuiet => CallsQuiet')
  BY <1>1 DEF AppInv, ServerPart, CallsCounted, Counted, CallsQuiet, vars, callVars, mainVars
<1> QED BY <1>1, <1>2, AppServerKeeps DEF vars

LEMMA TimerKeeps == ASSUME AppInv, NEW t \in Timers, Timer(t) PROVE AppInv'
<1> USE DEF AppInv
<1>1. UNCHANGED <<vars, seen>>
  BY DEF Timer, TimerStart, TimerRuns, TimerReturns, TimerLeaves
<1>2. ServerPart' /\ (CallsQuiet => CallsQuiet')
  BY <1>1 DEF ServerPart, CallsCounted, Counted, CallsQuiet, vars, callVars, mainVars
<1>3. timeNum' \in Int /\ timeNum' = Cardinality(Started')
  <2>1. CASE TimerStart(t)
    <3>1. t \notin Started /\ Started' = Started \cup {t}
      BY <2>1 DEF TimerStart, Started, TimerInv
    <3>2. Cardinality(Started') = Cardinality(Started) + 1
      BY <3>1, StartedIsFinite, FS_AddElement
    <3> QED BY <2>1, <3>2 DEF TimerStart, TimerInv
  <2>2. CASE TimerLeaves(t)
    <3>1. t \in Started /\ Started' = Started \ {t}
      BY <2>2 DEF TimerLeaves, Started, TimerInv
    <3>2. Cardinality(Started') = Cardinality(Started) - 1
      BY <3>1, StartedIsFinite, FS_RemoveElement
    <3> QED BY <2>2, <3>2 DEF TimerLeaves, TimerInv
  <2>3. CASE TimerRuns(t) \/ TimerReturns(t)
    <3>1. Started' = Started
      BY <2>3 DEF TimerRuns, TimerReturns, Started, TimerInv
    <3> QED BY <2>3, <3>1 DEF TimerRuns, TimerReturns, TimerInv
  <2> QED BY <2>1, <2>2, <2>3 DEF Timer
<1>4. TimerInv'
  BY <1>1, <1>3 DEF TimerInv, Timer, TimerStart, TimerRuns, TimerReturns, TimerLeaves, vars,
                    mainVars
<1>5. TimersQuiet => TimersQuiet'
  BY DEF TimersQuiet, TimerInv, Timer, TimerStart, TimerRuns, TimerReturns, TimerLeaves
<1>6. AppSeen'
  BY <1>1, <1>2, <1>5 DEF AppSeen, Drained, vars, mainVars
<1> QED BY <1>2, <1>4, <1>6

\* Run's turns of the loop.
LEMMA AppMainKeeps == ASSUME AppInv, AppMain PROVE AppInv'
<1> USE DEF AppInv
<1>1. CASE (Signal \/ SetClosed \/ CloseConns) /\ UNCHANGED appVars
  <2>1. ServerPart' /\ (CallsQuiet => CallsQuiet')
    BY <1>1, MainKeepsPart
  <2>2. TimerInv'
    BY <1>1 DEF TimerInv, Started, Signal, SetClosed, CloseConns, appVars, timerVars
  <2>3. AppSeen'
    BY <1>1, <2>1 DEF AppSeen, Drained, TimersQuiet, ServerPart, Signal, SetClosed, CloseConns,
                      appVars, timerVars
  <2> QED BY <2>1, <2>2, <2>3
<1>2. CASE Shutdown \/ SeeCalls \/ SeeTimers \/ SeeAsyncs \/ DecideBusy \/ DecideIdle
  <2>1. UNCHANGED <<callVars, status, timer, timeNum>>
    BY <1>2 DEF Shutdown, SeeCalls, SeeTimers, SeeAsyncs, SeeNext, DecideBusy, DecideIdle,
                timerVars
  <2>2. Counted' = Counted /\ Started' = Started
    BY <2>1 DEF Counted, Started, callVars
  <2>3. ServerPart'
    BY <1>2, <2>1, <2>2, ConstantsAssumption
    DEF ServerPart, CallsCounted, Waiting, callVars, Shutdown, SeeCalls, SeeTimers, SeeAsyncs,
        SeeNext, DecideBusy, DecideIdle
  <2>4. TimerInv'
    BY <1>2, <2>1, <2>2
    DEF TimerInv, Shutdown, SeeCalls, SeeTimers, SeeAsyncs, SeeNext, DecideBusy, DecideIdle,
        timerVars
  <2>5. AppSeen'
    <3>1. (CallsQuiet => CallsQuiet') /\ (TimersQuiet /\ stop' = stop => TimersQuiet')
      BY <2>1 DEF CallsQuiet, TimersQuiet, callVars
    <3>2. CASE Shutdown \/ DecideBusy
      BY <3>2 DEF AppSeen, Drained, Shutdown, DecideBusy
    <3>3. CASE SeeCalls
      BY <3>1, <3>3, NoCallIsQuiet DEF AppSeen, Drained, SeeCalls, SeeNext, Waiting
    <3>4. CASE SeeTimers
      BY <3>1, <3>4, NoTimerIsQuiet DEF AppSeen, Drained, SeeTimers, SeeNext, timerVars
    <3>5. CASE SeeAsyncs \/ DecideIdle
      BY <3>1, <3>5 DEF AppSeen, Drained, SeeAsyncs, SeeNext, DecideIdle, timerVars
    <3> QED BY <1>2, <3>2, <3>3, <3>4, <3>5
  <2> QED BY <2>3, <2>4, <2>5
<1> QED BY <1>1, <1>2 DEF AppMain, AppSignal

LEMMA AppStepKeeps == ASSUME AppInv, [AppNext]_allVars PROVE AppInv'
<1>1. ASSUME NEW k \in Conns, Serve(k), UNCHANGED appVars PROVE AppInv'
  <2>1. UNCHANGED mainVars
    BY <1>1 DEF Serve, Accept, Admit, Register, Read, ReadInvalid, PeerCloses,
         ReadEnds, ReadGarbled, ReaderLeaves
  <2> QED BY <1>1, <2>1, ServeKeepsPart, AppServerKeeps DEF AppInv, appVars
<1>2. ASSUME NEW r \in Requests, Call(r), UNCHANGED appVars PROVE AppInv'
  <2>1. UNCHANGED mainVars
    BY <1>2 DEF Call, Count, FieldEmpty, SeesStopping, SeesNotStopping, SeesClosed, SeesOpen, Invoke,
                Return, Panics, Send, Leave
  <2> QED BY <1>2, <2>1, CallKeepsPart, AppServerKeeps DEF AppInv, appVars
<1>3. CASE UNCHANGED allVars
  BY <1>3 DEF AppInv, ServerPart, CallsCounted, Counted, TimerInv, Started, AppSeen, Drained,
              CallsQuiet, TimersQuiet, allVars, vars, callVars, mainVars, appVars, timerVars
<1> QED BY <1>1, <1>2, <1>3, TimerKeeps, TaskKeeps, AppMainKeeps DEF AppNext

LEMMA AppInvIsQuiet == AppInv => DrainedIsQuiet
BY ConstantsAssumption
DEF AppInv, ServerPart, AppSeen, Drained, CallsQuiet, TimersQuiet, DrainedIsQuiet

\* An app that stops because it saw no call, no timer and no task leaves no
\* call and no timer running, although Run reads the three counts without a
\* lock and they move between its looks.
THEOREM AppLeavesNothing == AppSpec => []DrainedIsQuiet
<1>1. AppInv /\ [AppNext]_allVars => AppInv'
  BY AppStepKeeps
<1> QED BY InitApp, <1>1, AppInvIsQuiet, PTL DEF AppSpec

-----------------------------------------------------------------------------
(* The dao.                                                                *)

\* Only a running controller casts, and it does not return in between.
CastInv ==
    /\ jobQueue \in Seq(Int) /\ cast \in Int
    /\ caster \in [Requests -> {"idle", "assisting", "sending"}]
    /\ \A r \in Requests : caster[r] # "idle" => call[r] = "running"

QueueSeen ==
    /\ daoSeen \in BOOLEAN
    /\ main \notin {"seeCalls", "seeTimers", "seeAsyncs"}
    /\ (main \in {"seeQueue", "decide"} /\ ~daoSeen) \/ Drained => CallsQuiet
    /\ (main = "decide" /\ ~daoSeen) \/ Drained => jobQueue = <<>>

DaoInv == ServerPart /\ CastInv /\ QueueSeen

LEMMA InitDao == DaoInit => DaoInv
<1> SUFFICES ASSUME DaoInit PROVE DaoInv
  OBVIOUS
<1>1. ServerPart
  BY InitServerPart DEF DaoInit
<1>2. CastInv
  BY DEF DaoInit, Q!QueueInit, CastInv
<1>3. QueueSeen
  BY DEF DaoInit, Init, QueueSeen, Drained
<1> QED BY <1>1, <1>2, <1>3 DEF DaoInv

\* A step of the server that leaves the jobs and Run alone.
LEMMA DaoServerKeeps ==
  ASSUME DaoInv, ServerPart', CallsQuiet => CallsQuiet',
         UNCHANGED <<mainVars, jobQueue, caster, cast, daoSeen>>,
         \A r \in Requests : caster[r] # "idle" => call'[r] = "running"
  PROVE  DaoInv'
<1>1. CastInv'
  BY DEF DaoInv, CastInv
<1>2. QueueSeen'
  BY DEF DaoInv, QueueSeen, Drained, mainVars
<1> QED BY <1>1, <1>2 DEF DaoInv

\* Casts meet a queue nobody relies on to be empty: the caster's call runs.
LEMMA CastKeeps == ASSUME DaoInv, NEW r \in Requests, CallCasts(r) PROVE DaoInv'
<1> USE DEF DaoInv
<1>1. UNCHANGED <<vars, daoSeen>> /\ call[r] = "running"
  BY DEF CallCasts
<1>2. ServerPart'
  BY <1>1 DEF ServerPart, CallsCounted, Counted, vars, callVars, mainVars
<1>3. CastInv'
  <2>1. \A q \in Requests : caster'[q] # "idle" => caster[q] # "idle" \/ q = r
    BY DEF CastInv, CallCasts, Q!Cast, Q!CheckGo, Q!Assist, Q!SendJob
  <2>2. /\ jobQueue' \in Seq(Int) /\ cast' \in Int
        /\ caster' \in [Requests -> {"idle", "assisting", "sending"}]
    <3>1. CASE Q!CheckGo(r) \/ Q!Assist(r)
      BY <3>1 DEF CastInv, Q!CheckGo, Q!Assist
    <3>2. CASE Q!SendJob(r)
      <4>1. cast' \in Int /\ jobQueue' = Append(jobQueue, cast')
        BY <3>2 DEF CastInv, Q!SendJob
      <4>2. jobQueue' \in Seq(Int)
        BY <4>1, AppendProperties DEF CastInv
      <4> QED BY <3>2, <4>1, <4>2 DEF CastInv, Q!SendJob
    <3> QED BY <3>1, <3>2 DEF CallCasts, Q!Cast
  <2> QED BY <1>1, <2>1, <2>2 DEF CastInv, vars, callVars
<1>4. QueueSeen'
  BY <1>1 DEF QueueSeen, Drained, CallsQuiet, vars, callVars, mainVars
<1> QED BY <1>2, <1>3, <1>4

LEMMA WorkerKeeps == ASSUME DaoInv, NEW w \in Q!Consumers, Worker(w) PROVE DaoInv'
<1> USE DEF DaoInv
<1>1. UNCHANGED <<vars, daoSeen, caster, cast>>
  BY DEF Worker, Q!Work, Q!CountGo, Q!TakeJob, Q!Finish, Q!TireOut, Q!LeaveQueue
<1>2. ServerPart' /\ (CallsQuiet => CallsQuiet')
  BY <1>1 DEF ServerPart, CallsCounted, Counted, CallsQuiet, vars, callVars, mainVars
<1>3. jobQueue' = jobQueue \/ (jobQueue # <<>> /\ jobQueue' = Tail(jobQueue))
  BY DEF Worker, Q!Work, Q!CountGo, Q!TakeJob, Q!Finish, Q!TireOut, Q!LeaveQueue
<1>4. jobQueue' \in Seq(Int)
  BY <1>3, HeadTailProperties DEF CastInv
<1>5. CastInv'
  BY <1>1, <1>4 DEF CastInv, vars, callVars
<1>6. QueueSeen'
  BY <1>1, <1>2, <1>3 DEF QueueSeen, Drained, vars, mainVars
<1> QED BY <1>2, <1>5, <1>6

LEMMA DaoMainKeeps == ASSUME DaoInv, DaoMain PROVE DaoInv'
<1> USE DEF DaoInv
<1>1. CASE (Signal \/ SetClosed \/ CloseConns) /\ UNCHANGED <<jobVars, daoSeen>>
  <2>1. ServerPart' /\ (CallsQuiet => CallsQuiet') /\ UNCHANGED callVars
    BY <1>1, MainKeepsPart
  <2>2. CastInv'
    BY <1>1, <2>1 DEF CastInv, jobVars, callVars
  <2>3. QueueSeen'
    BY <1>1, <2>1 DEF QueueSeen, Drained, ServerPart, Signal, SetClosed, CloseConns, jobVars
  <2> QED BY <2>1, <2>2, <2>3
<1>2. CASE DaoSeeCalls \/ SeeQueue \/ DaoDecideBusy \/ DaoDecideIdle
  <2>1. UNCHANGED <<callVars, status, jobVars>>
    BY <1>2 DEF DaoSeeCalls, SeeQueue, DaoSeeNext, DaoDecideBusy, DaoDecideIdle
  <2>2. Counted' = Counted
    BY <2>1 DEF Counted, callVars
  <2>3. ServerPart'
    BY <1>2, <2>1, <2>2, ConstantsAssumption
    DEF ServerPart, CallsCounted, Waiting, callVars, DaoSeeCalls, SeeQueue, DaoSeeNext,
        DaoDecideBusy, DaoDecideIdle
  <2>4. CastInv'
    BY <2>1 DEF CastInv, callVars, jobVars
  <2>5. QueueSeen'
    <3>1. (CallsQuiet => CallsQuiet') /\ jobQueue' = jobQueue
      BY <2>1 DEF CallsQuiet, callVars, jobVars
    <3>2. CASE DaoSeeCalls
      BY <3>1, <3>2, NoCallIsQuiet DEF QueueSeen, Drained, DaoSeeCalls, DaoSeeNext, Waiting
    <3>3. CASE SeeQueue
      <4>1. ~(Len(jobQueue) > 0) => jobQueue = <<>>
        BY EmptySeq, LenProperties DEF CastInv
      <4> QED BY <3>1, <3>3, <4>1 DEF QueueSeen, Drained, SeeQueue, DaoSeeNext
    <3>4. CASE DaoDecideBusy \/ DaoDecideIdle
      BY <3>1, <3>4 DEF QueueSeen, Drained, DaoDecideBusy, DaoDecideIdle
    <3> QED BY <1>2, <3>2, <3>3, <3>4
  <2> QED BY <2>3, <2>4, <2>5
<1> QED BY <1>1, <1>2 DEF DaoMain

LEMMA DaoStepKeeps == ASSUME DaoInv, [DaoNext]_daoVars PROVE DaoInv'
<1>1. ASSUME NEW k \in Conns, Serve(k), UNCHANGED <<jobVars, daoSeen>> PROVE DaoInv'
  <2>1. UNCHANGED mainVars /\ \A r \in Requests : call[r] = "running" => call'[r] = "running"
    BY <1>1 DEF DaoInv, ServerPart, Serve, Accept, Admit, Register, Read, ReadInvalid,
                PeerCloses, ReadEnds, ReadGarbled, ReaderLeaves, callVars
  <2> QED BY <1>1, <2>1, ServeKeepsPart, DaoServerKeeps DEF DaoInv, CastInv, jobVars
<1>2. ASSUME NEW r \in Requests, CallOutside(r) PROVE DaoInv'
  <2>1. UNCHANGED mainVars
    BY <1>2 DEF CallOutside, Call, Count, FieldEmpty, SeesStopping, SeesNotStopping,
                SeesClosed, SeesOpen, Invoke, Return, Panics, Send, Leave
  <2>2. ServerPart' /\ (CallsQuiet => CallsQuiet')
    BY <1>2, CallKeepsPart DEF CallOutside, DaoInv
  <2>3. \A q \in Requests : caster[q] # "idle" => call'[q] = "running"
    BY <1>2, CallKeepsPart DEF CallOutside, DaoInv, CastInv
  <2> QED BY <1>2, <2>1, <2>2, <2>3, DaoServerKeeps DEF CallOutside, jobVars
<1>3. CASE UNCHANGED daoVars
  BY <1>3 DEF DaoInv, ServerPart, CallsCounted, Counted, CastInv, QueueSeen, Drained,
              CallsQuiet, daoVars, vars, callVars, mainVars, jobVars
<1> QED BY <1>1, <1>2, <1>3, CastKeeps, WorkerKeeps, DaoMainKeeps DEF DaoNext

LEMMA DaoInvLeavesNoJob == DaoInv => DrainedLeavesNoJob
BY ConstantsAssumption
DEF DaoInv, ServerPart, CastInv, QueueSeen, Drained, CallsQuiet, DrainedLeavesNoJob

\* A dao that stops because it saw no call and no waiting job leaves no job in
\* the channel, no call running and no controller blocked in a cast.
THEOREM DaoLeavesNoJob == DaoSpec => []DrainedLeavesNoJob
<1>1. DaoInv /\ [DaoNext]_daoVars => DaoInv'
  BY DaoStepKeeps
<1> QED BY InitDao, <1>1, DaoInvLeavesNoJob, PTL DEF DaoSpec

-----------------------------------------------------------------------------
(* The process that is either.                                             *)

StopsInv ==
    \/ /\ process = "app" /\ AppInv
       /\ jobQueue = <<>> /\ \A r \in Requests : caster[r] = "idle"
    \/ /\ process = "dao" /\ DaoInv
       /\ \A t \in Timers : timer[t] = "delayed"

LEMMA StopsInvLeavesNothing == StopsInv => StopLeavesNothing
<1>1. CASE process = "app"
  BY <1>1, AppInvIsQuiet DEF StopsInv, StopLeavesNothing, DrainedIsQuiet, DrainedLeavesNoJob
<1>2. CASE process = "dao"
  BY <1>2, DaoInvLeavesNoJob
  DEF StopsInv, StopLeavesNothing, DrainedIsQuiet, DrainedLeavesNoJob
<1> QED BY <1>1, <1>2 DEF StopsInv

\* Whatever the process is, a stop that found nothing leaves nothing behind.
THEOREM StopsLeaveNothing == StopsSpec => []StopLeavesNothing
<1>1. StopsInit => StopsInv
  <2> SUFFICES ASSUME StopsInit PROVE StopsInv
    OBVIOUS
  <2>1. CASE process = "app"
    BY <2>1, InitApp DEF StopsInit, StopsInv, Q!QueueInit
  <2>2. CASE process = "dao"
    BY <2>2, InitDao DEF StopsInit, StopsInv, AppInit, DaoInit
  <2> QED BY <2>1, <2>2 DEF StopsInit
<1>2. StopsInv /\ [StopsNext]_stopsVars => StopsInv'
  <2> SUFFICES ASSUME StopsInv, [StopsNext]_stopsVars PROVE StopsInv'
    OBVIOUS
  <2>1. CASE process = "app" /\ AppNext /\ UNCHANGED <<jobVars, daoSeen, process>>
    BY <2>1, AppStepKeeps DEF StopsInv, jobVars
  <2>2. CASE process = "dao" /\ DaoNext /\ UNCHANGED <<appVars, process>>
    BY <2>2, DaoStepKeeps DEF StopsInv, appVars, timerVars
  <2>3. CASE UNCHANGED stopsVars
    BY <2>3, AppStepKeeps, DaoStepKeeps
    DEF StopsInv, stopsVars, allVars, daoVars, appVars, timerVars, jobVars
  <2> QED BY <2>1, <2>2, <2>3 DEF StopsNext
<1> QED BY <1>1, <1>2, StopsInvLeavesNothing, PTL DEF StopsSpec
=============================================================================
