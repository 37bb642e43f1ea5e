---------------------------- MODULE CallsProofs ----------------------------
(***************************************************************************)
(* What holds of a remote call, of the breaker, of the limit and of the    *)
(* statistics it reports to, whatever the numbers of callers, nodes and    *)
(* attempts and whatever the seconds of the breaker's windows; and of a    *)
(* group of tasks that are called at the same time (TaskGroup).            *)
(***************************************************************************)
EXTENDS CallClient, CallBreak, Limiting, CallQps, TaskGroup, FiniteSetTheorems,
        SequenceTheorems, TLAPS

-----------------------------------------------------------------------------
(* CallClient.Do.                                                          *)

DoTypeOK ==
    /\ doPc \in [Calls -> {"idle", "routing", "waiting", "network", "returned"}]
    /\ index \in [Calls -> 0 .. TryCount]
    /\ at \in [Calls -> Nodes \cup {NoNode}]
    /\ wire \in [Calls -> {"none", "sent", "executed", "ok", "error", "misread",
                           "ShutDownIng", "broken"}]
    /\ timeoutCall \in [Calls -> BOOLEAN]
    /\ result \in [Calls -> {"none", "ok", "error", "panic", "breaker", "timed out", "unreachable"}]
    /\ told \in [Calls -> Seq(BOOLEAN)]
    /\ node \in [Nodes -> {"up", "stopping", "down"}]
    /\ executed \in [Calls -> Nat] /\ left \in [Calls -> Nat]
    /\ broke \in [Calls -> BOOLEAN] /\ misled \in [Calls -> BOOLEAN]

\* Only an attempt that waits has a request under way.
WireInv(c) == doPc[c] # "waiting" <=> wire[c] = "none"

\* What a call may have had done, if no connection broke under it and no answer
\* read as if one had: nothing until an attempt was executed or given up for good.
DoneInv(c) == ~broke[c] /\ ~misled[c] =>
    /\ wire[c] \notin {"broken", "misread"}
    /\ doPc[c] \in {"idle", "routing", "network"} => executed[c] + left[c] = 0
    /\ wire[c] \in {"sent", "ShutDownIng"} => executed[c] + left[c] = 0
    /\ executed[c] + left[c] <= 1

\* timeoutCall is set while an attempt waits, and nothing is told before the end.
ToldInv(c) ==
    /\ doPc[c] \in {"idle", "routing", "network"} => timeoutCall[c] = FALSE
    /\ doPc[c] = "waiting" => timeoutCall[c] = TRUE
    /\ doPc[c] # "returned" => result[c] = "none" /\ told[c] = <<>>
    /\ result[c] \in {"ok", "error", "panic"} => told[c] = <<FALSE>>
    /\ result[c] \in {"timed out", "unreachable"} => told[c] = <<TRUE>>
    /\ result[c] \in {"none", "breaker"} => told[c] = <<>>

CallInv(c) == WireInv(c) /\ DoneInv(c) /\ ToldInv(c)

DoInv == DoTypeOK /\ \A c \in Calls : CallInv(c)

\* The step is another call's.
Spared(c) ==
    /\ doPc'[c] = doPc[c] /\ wire'[c] = wire[c] /\ timeoutCall'[c] = timeoutCall[c]
    /\ result'[c] = result[c] /\ told'[c] = told[c]
    /\ executed'[c] = executed[c] /\ left'[c] = left[c]
    /\ broke'[c] = broke[c] /\ misled'[c] = misled[c]

LEMMA SparedKeeps == ASSUME NEW c \in Calls, CallInv(c), Spared(c) PROVE CallInv(c)'
BY DEF CallInv, WireInv, DoneInv, ToldInv, Spared

LEMMA InitDo == DoInit => DoInv
<1> SUFFICES ASSUME DoInit PROVE DoInv
  OBVIOUS
<1>1. DoTypeOK
  BY ClientAssumption DEF DoInit, DoTypeOK
<1>2. ASSUME NEW c \in Calls PROVE CallInv(c)
  <2>1. executed[c] = 0 /\ left[c] = 0 /\ wire[c] = "none" /\ doPc[c] = "idle"
    BY DEF DoInit
  <2> QED BY <2>1 DEF DoInit, CallInv, WireInv, DoneInv, ToldInv
<1> QED BY <1>1, <1>2 DEF DoInv

\* Nothing is told of a call before its last step.
LEMMA FirstReport ==
  ASSUME DoInv, NEW c \in Calls, doPc[c] # "returned",
         NEW b \in BOOLEAN, TellsBreaker(c, b)
  PROVE  /\ told' = [told EXCEPT ![c] = <<b>>]
         /\ told' \in [Calls -> Seq(BOOLEAN)]
<1>1. told[c] = <<>>
  BY DEF DoInv, CallInv, ToldInv
<1>2. Append(told[c], b) = <<b>> /\ <<b>> \in Seq(BOOLEAN)
  BY <1>1
<1>3. told' = [told EXCEPT ![c] = <<b>>]
  BY <1>2 DEF TellsBreaker
<1> QED BY <1>2, <1>3 DEF DoInv, DoTypeOK

\* Steps of Do.
LEMMA DoKeeps == ASSUME DoInv, NEW c \in Calls, Do(c) PROVE DoInv'
<1>0. /\ executed[c] \in Nat /\ left[c] \in Nat
      /\ executed[c] + 1 \in Nat /\ left[c] + 1 \in Nat
      /\ left[c] > 0 => left[c] - 1 \in Nat
  <2>1. executed[c] \in Nat /\ left[c] \in Nat
    BY DEF DoInv, DoTypeOK
  <2> QED BY <2>1
<1>a. 1 \in 0 .. TryCount
  BY ClientAssumption
<1>b. index[c] < TryCount => index[c] + 1 \in 0 .. TryCount
  <2>1. index[c] \in 0 .. TryCount /\ TryCount \in Nat
    BY ClientAssumption DEF DoInv, DoTypeOK
  <2> QED BY <2>1
<1>1. CASE BreakerOpen(c)
  <2>1. DoTypeOK'
    BY <1>0, <1>1 DEF DoInv, DoTypeOK, BreakerOpen, Returns, Goes, netVars
  <2>2. \A d \in Calls \ {c} : Spared(d)
    BY <1>1 DEF DoInv, DoTypeOK, Spared, BreakerOpen, Returns, Goes, netVars
  <2>3. WireInv(c)'
    BY <1>1 DEF DoInv, DoTypeOK, CallInv, WireInv, BreakerOpen, Returns, Goes, netVars
  <2>4. DoneInv(c)'
    BY <1>0, <1>1 DEF DoInv, DoTypeOK, CallInv, WireInv, DoneInv, BreakerOpen, Returns, Goes, netVars
  <2>5. ToldInv(c)'
    BY <1>1 DEF DoInv, DoTypeOK, CallInv, WireInv, ToldInv, BreakerOpen, Returns, Goes, netVars
  <2> QED BY <2>1, <2>2, <2>3, <2>4, <2>5, SparedKeeps DEF DoInv, CallInv
<1>2. CASE BreakerClosed(c)
  <2>1. DoTypeOK'
    BY <1>0, <1>a, <1>2 DEF DoInv, DoTypeOK, BreakerClosed, Goes, netVars
  <2>2. \A d \in Calls \ {c} : Spared(d)
    BY <1>2 DEF DoInv, DoTypeOK, Spared, BreakerClosed, Goes, netVars
  <2>3. WireInv(c)'
    BY <1>2 DEF DoInv, DoTypeOK, CallInv, WireInv, BreakerClosed, Goes, netVars
  <2>4. DoneInv(c)'
    BY <1>0, <1>2 DEF DoInv, DoTypeOK, CallInv, WireInv, DoneInv, BreakerClosed, Goes, netVars
  <2>5. ToldInv(c)'
    BY <1>2 DEF DoInv, DoTypeOK, CallInv, WireInv, ToldInv, BreakerClosed, Goes, netVars
  <2> QED BY <2>1, <2>2, <2>3, <2>4, <2>5, SparedKeeps DEF DoInv, CallInv
<1>3. CASE NoConnection(c)
  <2>1. DoTypeOK'
    BY <1>0, <1>3 DEF DoInv, DoTypeOK, NoConnection, Goes, netVars
  <2>2. \A d \in Calls \ {c} : Spared(d)
    BY <1>3 DEF DoInv, DoTypeOK, Spared, NoConnection, Goes, netVars
  <2>3. WireInv(c)'
    BY <1>3 DEF DoInv, DoTypeOK, CallInv, WireInv, NoConnection, Goes, netVars
  <2>4. DoneInv(c)'
    BY <1>0, <1>3 DEF DoInv, DoTypeOK, CallInv, WireInv, DoneInv, NoConnection, Goes, netVars
  <2>5. ToldInv(c)'
    BY <1>3 DEF DoInv, DoTypeOK, CallInv, WireInv, ToldInv, NoConnection, Goes, netVars
  <2> QED BY <2>1, <2>2, <2>3, <2>4, <2>5, SparedKeeps DEF DoInv, CallInv
<1>4. CASE RoutingPanics(c)
  <2>0. /\ told' = [told EXCEPT ![c] = <<timeoutCall[c]>>]
        /\ told' \in [Calls -> Seq(BOOLEAN)]
    <3>1. timeoutCall[c] \in BOOLEAN /\ doPc[c] # "returned" /\ TellsBreaker(c, timeoutCall[c])
      BY <1>4 DEF DoInv, DoTypeOK, RoutingPanics, Returns, Goes
    <3> QED BY <3>1, FirstReport
  <2>1. DoTypeOK'
    BY <1>0, <1>4, <2>0 DEF DoInv, DoTypeOK, RoutingPanics, Returns, Goes, netVars
  <2>2. \A d \in Calls \ {c} : Spared(d)
    BY <1>4, <2>0 DEF DoInv, DoTypeOK, Spared, RoutingPanics, Returns, Goes, netVars
  <2>3. WireInv(c)'
    BY <1>4 DEF DoInv, DoTypeOK, CallInv, WireInv, RoutingPanics, Returns, Goes, netVars
  <2>4. DoneInv(c)'
    BY <1>0, <1>4 DEF DoInv, DoTypeOK, CallInv, WireInv, DoneInv, RoutingPanics, Returns, Goes, netVars
  <2>5. ToldInv(c)'
    BY <1>4, <2>0 DEF DoInv, DoTypeOK, CallInv, WireInv, ToldInv, RoutingPanics, Returns, Goes, netVars
  <2> QED BY <2>1, <2>2, <2>3, <2>4, <2>5, SparedKeeps DEF DoInv, CallInv
<1>5. ASSUME NEW n \in Nodes, Send(c, n) PROVE DoInv'
  <2>1. DoTypeOK'
    BY <1>0, <1>5 DEF DoInv, DoTypeOK, Send, Goes
  <2>2. \A d \in Calls \ {c} : Spared(d)
    BY <1>5 DEF DoInv, DoTypeOK, Spared, Send, Goes
  <2>3. WireInv(c)'
    BY <1>5 DEF DoInv, DoTypeOK, CallInv, WireInv, Send, Goes
  <2>4. DoneInv(c)'
    BY <1>0, <1>5 DEF DoInv, DoTypeOK, CallInv, WireInv, DoneInv, Send, Goes
  <2>5. ToldInv(c)'
    BY <1>5 DEF DoInv, DoTypeOK, CallInv, WireInv, ToldInv, Send, Goes
  <2> QED BY <2>1, <2>2, <2>3, <2>4, <2>5, SparedKeeps DEF DoInv, CallInv
<1>6. CASE Answered(c)
  <2>0. /\ told' = [told EXCEPT ![c] = <<FALSE>>]
        /\ told' \in [Calls -> Seq(BOOLEAN)]
    BY <1>6, FirstReport DEF DoInv, DoTypeOK, Answered, Returns, Goes
  <2>1. DoTypeOK'
    BY <1>0, <1>6, <2>0 DEF DoInv, DoTypeOK, Answered, Returns, Goes, Forget
  <2>2. \A d \in Calls \ {c} : Spared(d)
    BY <1>6, <2>0 DEF DoInv, DoTypeOK, Spared, Answered, Returns, Goes, Forget
  <2>3. WireInv(c)'
    BY <1>6 DEF DoInv, DoTypeOK, CallInv, WireInv, Answered, Returns, Goes, Forget
  <2>4. DoneInv(c)'
    <3>1. /\ wire'[c] = "none" /\ doPc'[c] = "returned" /\ executed'[c] = executed[c]
          /\ broke'[c] = broke[c] /\ misled'[c] = misled[c] /\ left'[c] = left[c]
      BY <1>6 DEF DoInv, DoTypeOK, Answered, Returns, Goes, Forget
    <3> QED BY <1>0, <3>1 DEF DoInv, CallInv, DoneInv
  <2>5. ToldInv(c)'
    BY <1>6, <2>0 DEF DoInv, DoTypeOK, CallInv, WireInv, ToldInv, Answered, Returns, Goes, Forget
  <2> QED BY <2>1, <2>2, <2>3, <2>4, <2>5, SparedKeeps DEF DoInv, CallInv
<1>7. CASE NetworkFails(c)
  <2>1. DoTypeOK'
    BY <1>0, <1>7 DEF DoInv, DoTypeOK, NetworkFails, Goes, Forget
  <2>2. \A d \in Calls \ {c} : Spared(d)
    BY <1>7 DEF DoInv, DoTypeOK, Spared, NetworkFails, Goes, Forget
  <2>3. WireInv(c)'
    BY <1>7 DEF DoInv, DoTypeOK, CallInv, WireInv, NetworkFails, Goes, Forget
  <2>4. DoneInv(c)'
    <3>1. /\ wire[c] \in {"broken", "ShutDownIng", "misread"}
          /\ wire'[c] = "none" /\ doPc'[c] = "network" /\ executed'[c] = executed[c]
          /\ broke'[c] = broke[c] /\ misled'[c] = misled[c] /\ left'[c] = left[c]
      BY <1>7 DEF DoInv, DoTypeOK, NetworkFails, Goes, Forget
    <3> QED BY <1>0, <3>1 DEF DoInv, CallInv, DoneInv
  <2>5. ToldInv(c)'
    BY <1>7 DEF DoInv, DoTypeOK, CallInv, WireInv, ToldInv, NetworkFails, Goes, Forget
  <2> QED BY <2>1, <2>2, <2>3, <2>4, <2>5, SparedKeeps DEF DoInv, CallInv
<1>8. CASE TimesOut(c)
  <2>0. /\ told' = [told EXCEPT ![c] = <<timeoutCall[c]>>]
        /\ told' \in [Calls -> Seq(BOOLEAN)]
    BY <1>8, FirstReport DEF DoInv, DoTypeOK, TimesOut, Returns, Goes
  <2>1. DoTypeOK'
    BY <1>0, <1>8, <2>0 DEF DoInv, DoTypeOK, TimesOut, Returns, Goes, Forget
  <2>2. \A d \in Calls \ {c} : Spared(d)
    BY <1>8, <2>0 DEF DoInv, DoTypeOK, Spared, TimesOut, Returns, Goes, Forget
  <2>3. WireInv(c)'
    BY <1>8 DEF DoInv, DoTypeOK, CallInv, WireInv, TimesOut, Returns, Goes, Forget
  <2>4. DoneInv(c)'
    <3>1. /\ wire'[c] = "none" /\ doPc'[c] = "returned" /\ executed'[c] = executed[c]
          /\ broke'[c] = broke[c] /\ misled'[c] = misled[c] /\ wire[c] \in {"sent", "executed"}
          /\ left'[c] = IF wire[c] = "sent" THEN left[c] + 1 ELSE left[c]
      BY <1>8 DEF DoInv, DoTypeOK, TimesOut, Returns, Goes, Forget
    <3> QED BY <1>0, <3>1 DEF DoInv, CallInv, DoneInv
  <2>5. ToldInv(c)'
    BY <1>8, <2>0 DEF DoInv, DoTypeOK, CallInv, WireInv, ToldInv, TimesOut, Returns, Goes, Forget
  <2> QED BY <2>1, <2>2, <2>3, <2>4, <2>5, SparedKeeps DEF DoInv, CallInv
<1>9. CASE Retry(c)
  <2>1. DoTypeOK'
    BY <1>0, <1>b, <1>9 DEF DoInv, DoTypeOK, Retry, Goes, netVars
  <2>2. \A d \in Calls \ {c} : Spared(d)
    BY <1>9 DEF DoInv, DoTypeOK, Spared, Retry, Goes, netVars
  <2>3. WireInv(c)'
    BY <1>9 DEF DoInv, DoTypeOK, CallInv, WireInv, Retry, Goes, netVars
  <2>4. DoneInv(c)'
    BY <1>0, <1>9 DEF DoInv, DoTypeOK, CallInv, WireInv, DoneInv, Retry, Goes, netVars
  <2>5. ToldInv(c)'
    BY <1>9 DEF DoInv, DoTypeOK, CallInv, WireInv, ToldInv, Retry, Goes, netVars
  <2> QED BY <2>1, <2>2, <2>3, <2>4, <2>5, SparedKeeps DEF DoInv, CallInv
<1>10. CASE GiveUp(c)
  <2>0. /\ told' = [told EXCEPT ![c] = <<TRUE>>]
        /\ told' \in [Calls -> Seq(BOOLEAN)]
    BY <1>10, FirstReport DEF DoInv, DoTypeOK, GiveUp, Returns, Goes
  <2>1. DoTypeOK'
    BY <1>0, <1>10, <2>0 DEF DoInv, DoTypeOK, GiveUp, Returns, Goes, netVars
  <2>2. \A d \in Calls \ {c} : Spared(d)
    BY <1>10, <2>0 DEF DoInv, DoTypeOK, Spared, GiveUp, Returns, Goes, netVars
  <2>3. WireInv(c)'
    BY <1>10 DEF DoInv, DoTypeOK, CallInv, WireInv, GiveUp, Returns, Goes, netVars
  <2>4. DoneInv(c)'
    BY <1>0, <1>10 DEF DoInv, DoTypeOK, CallInv, WireInv, DoneInv, GiveUp, Returns, Goes, netVars
  <2>5. ToldInv(c)'
    BY <1>10, <2>0 DEF DoInv, DoTypeOK, CallInv, WireInv, ToldInv, GiveUp, Returns, Goes, netVars
  <2> QED BY <2>1, <2>2, <2>3, <2>4, <2>5, SparedKeeps DEF DoInv, CallInv
<1> QED BY <1>1, <1>2, <1>3, <1>4, <1>5, <1>6, <1>7, <1>8, <1>9, <1>10 DEF Do

\* Steps of the network under one call.
LEMMA WireKeeps ==
  ASSUME DoInv, NEW c \in Calls,
         \/ Execute(c) \/ Answer(c) \/ AnswerLikeBroken(c) \/ Reject(c) \/ Refuse(c)
         \/ Break(c) \/ ExecuteLate(c)
  PROVE  DoInv'
<1>0. /\ executed[c] \in Nat /\ left[c] \in Nat
      /\ executed[c] + 1 \in Nat /\ left[c] + 1 \in Nat
      /\ left[c] > 0 => left[c] - 1 \in Nat
  <2>1. executed[c] \in Nat /\ left[c] \in Nat
    BY DEF DoInv, DoTypeOK
  <2> QED BY <2>1
<1>1. CASE Execute(c)
  <2>1. DoTypeOK'
    BY <1>0, <1>1 DEF DoInv, DoTypeOK, Execute, Wire, clientVars
  <2>2. \A d \in Calls \ {c} : Spared(d)
    BY <1>1 DEF DoInv, DoTypeOK, Spared, Execute, Wire, clientVars
  <2>3. WireInv(c)'
    BY <1>1 DEF DoInv, DoTypeOK, CallInv, WireInv, Execute, Wire, clientVars
  <2>4. DoneInv(c)'
    <3>1. /\ wire[c] = "sent" /\ wire'[c] = "executed" /\ doPc'[c] = doPc[c]
          /\ executed'[c] = executed[c] + 1 /\ left'[c] = left[c]
          /\ broke'[c] = broke[c] /\ misled'[c] = misled[c]
      BY <1>1 DEF DoInv, DoTypeOK, Execute, Wire, clientVars
    <3>2. doPc[c] = "waiting"
      BY <3>1 DEF DoInv, CallInv, WireInv
    <3> QED BY <1>0, <3>1, <3>2 DEF DoInv, CallInv, DoneInv
  <2>5. ToldInv(c)'
    BY <1>1 DEF DoInv, DoTypeOK, CallInv, WireInv, ToldInv, Execute, Wire, clientVars
  <2> QED BY <2>1, <2>2, <2>3, <2>4, <2>5, SparedKeeps DEF DoInv, CallInv
<1>2. CASE Answer(c)
  <2>1. DoTypeOK'
    BY <1>0, <1>2 DEF DoInv, DoTypeOK, Answer, Wire, clientVars
  <2>2. \A d \in Calls \ {c} : Spared(d)
    BY <1>2 DEF DoInv, DoTypeOK, Spared, Answer, Wire, clientVars
  <2>3. WireInv(c)'
    BY <1>2 DEF DoInv, DoTypeOK, CallInv, WireInv, Answer, Wire, clientVars
  <2>4. DoneInv(c)'
    <3>1. /\ wire[c] = "executed" /\ wire'[c] \in {"ok", "error"}
          /\ doPc'[c] = doPc[c] /\ executed'[c] = executed[c]
          /\ broke'[c] = broke[c] /\ misled'[c] = misled[c] /\ left'[c] = left[c]
          /\ doPc[c] = "waiting"
      BY <1>2 DEF DoInv, DoTypeOK, CallInv, WireInv, Answer, Wire, clientVars
    <3> QED BY <1>0, <3>1 DEF DoInv, CallInv, DoneInv
  <2>5. ToldInv(c)'
    BY <1>2 DEF DoInv, DoTypeOK, CallInv, WireInv, ToldInv, Answer, Wire, clientVars
  <2> QED BY <2>1, <2>2, <2>3, <2>4, <2>5, SparedKeeps DEF DoInv, CallInv
<1>3. CASE Refuse(c)
  <2>1. DoTypeOK'
    BY <1>0, <1>3 DEF DoInv, DoTypeOK, Refuse, Wire, clientVars
  <2>2. \A d \in Calls \ {c} : Spared(d)
    BY <1>3 DEF DoInv, DoTypeOK, Spared, Refuse, Wire, clientVars
  <2>3. WireInv(c)'
    BY <1>3 DEF DoInv, DoTypeOK, CallInv, WireInv, Refuse, Wire, clientVars
  <2>4. DoneInv(c)'
    <3>1. /\ wire[c] = "sent" /\ wire'[c] \in {"ShutDownIng"}
          /\ doPc'[c] = doPc[c] /\ executed'[c] = executed[c]
          /\ broke'[c] = broke[c] /\ misled'[c] = misled[c] /\ left'[c] = left[c]
          /\ doPc[c] = "waiting"
      BY <1>3 DEF DoInv, DoTypeOK, CallInv, WireInv, Refuse, Wire, clientVars
    <3> QED BY <1>0, <3>1 DEF DoInv, CallInv, DoneInv
  <2>5. ToldInv(c)'
    BY <1>3 DEF DoInv, DoTypeOK, CallInv, WireInv, ToldInv, Refuse, Wire, clientVars
  <2> QED BY <2>1, <2>2, <2>3, <2>4, <2>5, SparedKeeps DEF DoInv, CallInv
<1>4. CASE Break(c)
  <2>1. DoTypeOK'
    BY <1>0, <1>4 DEF DoInv, DoTypeOK, Break, clientVars
  <2>2. \A d \in Calls \ {c} : Spared(d)
    BY <1>4 DEF DoInv, DoTypeOK, Spared, Break, clientVars
  <2>3. WireInv(c)'
    BY <1>4 DEF DoInv, DoTypeOK, CallInv, WireInv, Break, clientVars
  <2>4. DoneInv(c)'
    <3>1. /\ broke'[c] = TRUE
      BY <1>4 DEF DoInv, DoTypeOK, Break
    <3> QED BY <3>1 DEF DoneInv
  <2>5. ToldInv(c)'
    BY <1>4 DEF DoInv, DoTypeOK, CallInv, WireInv, ToldInv, Break, clientVars
  <2> QED BY <2>1, <2>2, <2>3, <2>4, <2>5, SparedKeeps DEF DoInv, CallInv
<1>5. CASE ExecuteLate(c)
  <2>1. DoTypeOK'
    BY <1>0, <1>5 DEF DoInv, DoTypeOK, ExecuteLate, clientVars
  <2>2. \A d \in Calls \ {c} : Spared(d)
    BY <1>5 DEF DoInv, DoTypeOK, Spared, ExecuteLate, clientVars
  <2>3. WireInv(c)'
    BY <1>5 DEF DoInv, DoTypeOK, CallInv, WireInv, ExecuteLate, clientVars
  <2>4. DoneInv(c)'
    <3>1. /\ wire'[c] = wire[c] /\ doPc'[c] = doPc[c]
          /\ broke'[c] = broke[c] /\ misled'[c] = misled[c]
          /\ executed'[c] = executed[c] + 1 /\ left'[c] = left[c] - 1
      BY <1>5 DEF DoInv, DoTypeOK, ExecuteLate, clientVars
    <3> QED BY <1>0, <3>1 DEF DoInv, CallInv, DoneInv
  <2>5. ToldInv(c)'
    BY <1>5 DEF DoInv, DoTypeOK, CallInv, WireInv, ToldInv, ExecuteLate, clientVars
  <2> QED BY <2>1, <2>2, <2>3, <2>4, <2>5, SparedKeeps DEF DoInv, CallInv
<1>6. CASE AnswerLikeBroken(c)
  <2>1. DoTypeOK'
    BY <1>0, <1>6 DEF DoInv, DoTypeOK, AnswerLikeBroken, Wire, clientVars
  <2>2. \A d \in Calls \ {c} : Spared(d)
    BY <1>6 DEF DoInv, DoTypeOK, Spared, AnswerLikeBroken, Wire, clientVars
  <2>3. WireInv(c)'
    BY <1>6 DEF DoInv, DoTypeOK, CallInv, WireInv, AnswerLikeBroken, Wire, clientVars
  <2>4. DoneInv(c)'
    <3>1. misled'[c] = TRUE
      BY <1>6 DEF DoInv, DoTypeOK, AnswerLikeBroken
    <3> QED BY <3>1 DEF DoneInv
  <2>5. ToldInv(c)'
    BY <1>6 DEF DoInv, DoTypeOK, CallInv, WireInv, ToldInv, AnswerLikeBroken, Wire, clientVars
  <2> QED BY <2>1, <2>2, <2>3, <2>4, <2>5, SparedKeeps DEF DoInv, CallInv
<1>7. CASE Reject(c)
  <2>1. DoTypeOK'
    BY <1>0, <1>7 DEF DoInv, DoTypeOK, Reject, Wire, clientVars
  <2>2. \A d \in Calls \ {c} : Spared(d)
    BY <1>7 DEF DoInv, DoTypeOK, Spared, Reject, Wire, clientVars
  <2>3. WireInv(c)'
    BY <1>7 DEF DoInv, DoTypeOK, CallInv, WireInv, Reject, Wire, clientVars
  <2>4. DoneInv(c)'
    <3>1. /\ wire[c] = "sent" /\ wire'[c] = "error"
          /\ doPc'[c] = doPc[c] /\ executed'[c] = executed[c]
          /\ broke'[c] = broke[c] /\ misled'[c] = misled[c] /\ left'[c] = left[c]
          /\ doPc[c] = "waiting"
      BY <1>7 DEF DoInv, DoTypeOK, CallInv, WireInv, Reject, Wire, clientVars
    <3> QED BY <1>0, <3>1 DEF DoInv, CallInv, DoneInv
  <2>5. ToldInv(c)'
    BY <1>7 DEF DoInv, DoTypeOK, CallInv, WireInv, ToldInv, Reject, Wire, clientVars
  <2> QED BY <2>1, <2>2, <2>3, <2>4, <2>5, SparedKeeps DEF DoInv, CallInv
<1> QED BY <1>1, <1>2, <1>3, <1>4, <1>5, <1>6, <1>7

LEMMA NodeKeeps ==
  ASSUME DoInv, NEW n \in Nodes, StopNode(n) \/ EndNode(n) \/ StartNode(n)
  PROVE  DoInv'
<1>1. DoTypeOK'
  <2>1. CASE StopNode(n) \/ StartNode(n)
    BY <2>1 DEF DoInv, DoTypeOK, StopNode, StartNode, clientVars, netVars
  <2>2. CASE EndNode(n)
    <3>1. broke' \in [Calls -> BOOLEAN]
      BY <2>2, Zenon DEF EndNode
    <3>2. wire' \in [Calls -> {"none", "sent", "executed", "ok", "error", "misread",
                               "ShutDownIng", "broken"}]
      BY <2>2 DEF DoInv, DoTypeOK, EndNode
    <3> QED BY <2>2, <3>1, <3>2 DEF DoInv, DoTypeOK, EndNode, clientVars
  <2> QED BY <2>1, <2>2
<1>2. ASSUME NEW c \in Calls PROVE CallInv(c)'
  <2>1. UNCHANGED <<clientVars, executed, left, misled>>
    BY DEF StopNode, EndNode, StartNode, netVars
  <2>2. \/ wire'[c] = wire[c] /\ (broke'[c] <=> broke[c])
        \/ wire[c] \in {"sent", "executed"} /\ wire'[c] = "broken" /\ broke'[c]
    <3>1. CASE StopNode(n) \/ StartNode(n)
      BY <3>1 DEF StopNode, StartNode, netVars
    <3>2. CASE EndNode(n)
      BY <3>2 DEF EndNode
    <3> QED BY <3>1, <3>2
  <2> QED BY <2>1, <2>2 DEF DoInv, DoTypeOK, CallInv, WireInv, DoneInv, ToldInv, clientVars
<1> QED BY <1>1, <1>2 DEF DoInv

LEMMA DoInvariant == DoSpec => []DoInv
<1>1. DoInv /\ [DoNext]_doVars => DoInv'
  <2> SUFFICES ASSUME DoInv, [DoNext]_doVars PROVE DoInv'
    OBVIOUS
  <2>1. CASE UNCHANGED doVars
    BY <2>1 DEF DoInv, DoTypeOK, CallInv, WireInv, DoneInv, ToldInv, doVars, clientVars, netVars
  <2> QED BY <2>1, DoKeeps, WireKeeps, NodeKeeps DEF DoNext, Network
<1> QED BY InitDo, <1>1, PTL DEF DoSpec

\* A call is executed, or may be, at most once, unless a connection broke under
\* it or a node's answer read as if one had: Do repeats only what did not reach
\* a node, what a node turned away, and what it must take for the one or other.
THEOREM DoRepeatsOnlyIfBroken == DoSpec => []RepeatedOnlyIfBroken
<1>1. DoInv => RepeatedOnlyIfBroken
  <2> SUFFICES ASSUME DoInv, NEW c \in Calls, ~broke[c], ~misled[c]
               PROVE  ~(executed[c] + left[c] + (IF wire[c] = "sent" THEN 1 ELSE 0) > 1)
    BY DEF RepeatedOnlyIfBroken
  <2>1. executed[c] \in Nat /\ left[c] \in Nat /\ DoneInv(c)
    BY DEF DoInv, DoTypeOK, CallInv
  <2> QED BY <2>1 DEF DoneInv
<1> QED BY <1>1, DoInvariant, PTL

\* Every call that the breaker let pass is reported to it once, not more often:
\* as a success when a node's answer ended it, as a failure when none came in
\* time or every attempt met what reads like a failing network.
THEOREM DoTellsBreakerOnce == DoSpec => []BreakerHearsOnce
<1>1. DoInv => BreakerHearsOnce
  <2> SUFFICES ASSUME DoInv, NEW c \in Calls
               PROVE  told[c] = CASE result[c] \in {"ok", "error", "panic"} -> <<FALSE>>
                                  [] result[c] \in {"timed out", "unreachable"} -> <<TRUE>>
                                  [] OTHER -> <<>>
    BY DEF BreakerHearsOnce
  <2>1. ToldInv(c) /\ result[c] \in {"none", "ok", "error", "panic", "breaker", "timed out",
                                     "unreachable"}
    BY DEF DoInv, DoTypeOK, CallInv
  <2> QED BY <2>1 DEF ToldInv
<1> QED BY <1>1, DoInvariant, PTL

-----------------------------------------------------------------------------
(* The circuit breaker.                                                    *)

\* Breaker's Run is called once, when the program starts.
OneLoop == \A l, m \in Loops : l = m

BreakTypeOK ==
    /\ callSum \in Nat /\ callTimeout \in Nat
    /\ windowTick \in 0 .. RangeSec /\ resumeTick \in 0 .. ResumeSec
    /\ breaking \in BOOLEAN
    /\ loop \in [Loops -> {"off", "ready", "asleep", "done"}]
    /\ call \in [Callers -> {"idle", "calling", "answered", "timeout"}]
    /\ oldest \in Nat /\ broken \in Nat

\* The ticks left and the seconds gone make up the whole time; a loop that has
\* yet to tick in this second is one behind.
TickInv ==
    /\ callSum = 0 => oldest = 0
    /\ breaking => resumeTick >= 1
    /\ ~breaking => windowTick >= 1
    /\ \A l \in Loops :
          /\ breaking => loop[l] # "off"
          /\ breaking /\ loop[l] = "asleep" => broken + resumeTick = ResumeSec
          /\ breaking /\ loop[l] = "ready" => broken + resumeTick = ResumeSec + 1
          /\ loop[l] = "off" => callSum = 0 /\ \A c \in Callers : call[c] = "idle"
          /\ ~breaking /\ loop[l] = "asleep" => oldest + windowTick <= RangeSec
          /\ ~breaking /\ loop[l] = "ready" => oldest + windowTick <= RangeSec + 1

BreakInv == BreakTypeOK /\ TickInv

LEMMA InitBreak == BreakInit => BreakInv
<1> SUFFICES ASSUME BreakInit PROVE BreakInv
  OBVIOUS
<1>1. RangeSec \in 0 .. RangeSec /\ 0 \in 0 .. ResumeSec /\ RangeSec >= 1 /\ RangeSec \in Nat
  BY BreakAssumption
<1>2. BreakTypeOK
  BY <1>1 DEF BreakInit, BreakTypeOK
<1>3. TickInv
  BY <1>1 DEF BreakInit, TickInv
<1> QED BY <1>2, <1>3 DEF BreakInv

LEMMA CallerKeeps ==
  ASSUME BreakInv, NEW c \in Callers, LetIn(c) \/ Return(c) \/ Call(c), OneLoop
  PROVE  BreakInv'
<1>1. BreakTypeOK'
  BY DEF BreakInv, BreakTypeOK, LetIn, Return, Call, breaker
<1>2. \A l \in Loops : loop[l] # "off"
  BY DEF BreakInv, BreakTypeOK, TickInv, LetIn, Return, Call, Started, OneLoop
<1>3. /\ UNCHANGED <<windowTick, breaking, resumeTick, loop, broken>>
      /\ callSum' = 0 => callSum = 0
      /\ oldest' = oldest \/ oldest' = 0
      /\ callSum = 0 /\ callSum' # 0 => oldest' = 0
  BY DEF BreakInv, BreakTypeOK, LetIn, Return, Call, breaker
<1>4. callSum' = 0 => oldest' = 0
  BY DEF BreakInv, BreakTypeOK, TickInv, LetIn, Return, Call, breaker
<1>5. TickInv'
  BY <1>2, <1>3, <1>4, BreakAssumption DEF BreakInv, BreakTypeOK, TickInv
<1> QED BY <1>1, <1>5 DEF BreakInv

LEMMA LoopKeeps == ASSUME BreakInv, NEW l \in Loops, Run(l) \/ Stop(l) \/ Tick(l), OneLoop PROVE BreakInv'
<1>1. CASE Run(l) \/ Stop(l)
  <2>1. BreakTypeOK'
    BY <1>1 DEF BreakInv, BreakTypeOK, Run, Stop, breaker
  <2>2. CASE Run(l)
    BY <1>1, <2>1, <2>2, BreakAssumption DEF BreakInv, BreakTypeOK, TickInv, Run, breaker, OneLoop
  <2>3. CASE Stop(l)
    BY <1>1, <2>1, <2>3 DEF BreakInv, BreakTypeOK, TickInv, Stop, breaker, OneLoop
  <2> QED BY <1>1, <2>2, <2>3
<1>2. CASE Tick(l)
  <2>1. loop[l] = "ready" /\ loop'[l] = "asleep" /\ \A m \in Loops : m = l
    BY <1>2 DEF BreakInv, BreakTypeOK, Tick, OneLoop
  <2>2. /\ oldest' = (IF callSum' = 0 THEN 0 ELSE oldest) /\ call' = call
        /\ broken' = (IF breaking THEN broken ELSE 0)
        /\ loop' \in [Loops -> {"off", "ready", "asleep", "done"}]
    BY <1>2 DEF BreakInv, BreakTypeOK, Tick
  <2>3. CASE Resuming
    <3>1. broken + resumeTick = ResumeSec + 1 /\ resumeTick \in 1 .. ResumeSec /\ broken \in Nat
      BY <2>1, <2>3 DEF BreakInv, BreakTypeOK, TickInv, Resuming
    <3>2. CASE resumeTick - 1 > 0
      <4>1. resumeTick' = resumeTick - 1 /\ UNCHANGED <<callSum, callTimeout, windowTick, breaking>>
        BY <2>3, <3>2 DEF Resuming
      <4> QED BY <2>1, <2>2, <2>3, <3>1, <3>2, <4>1, BreakAssumption
              DEF BreakInv, BreakTypeOK, TickInv, Resuming
    <3>3. CASE ~(resumeTick - 1 > 0)
      <4>1. breaking' = FALSE /\ ResetCounters
        BY <2>3, <3>3 DEF Resuming
      <4>2. /\ ~breaking' /\ breaking' \in BOOLEAN
            /\ callSum' = 0 /\ callTimeout' = 0 /\ oldest' = 0 /\ broken' \in Nat
            /\ windowTick' = RangeSec /\ resumeTick' = 0
        BY <2>2, <3>1, <4>1 DEF ResetCounters
      <4>3. BreakTypeOK'
        BY <2>2, <4>2, BreakAssumption DEF BreakInv, BreakTypeOK
      <4>4. TickInv'
        <5>1. RangeSec \in Nat /\ RangeSec >= 1 /\ 0 + RangeSec <= RangeSec
          BY BreakAssumption
        <5>2. \A m \in Loops : loop'[m] = "asleep"
          BY <2>1
        <5> QED BY <4>2, <5>1, <5>2 DEF TickInv
      <4> QED BY <4>3, <4>4 DEF BreakInv
    <3> QED BY <3>2, <3>3
  <2>4. CASE Tripping
    BY <2>1, <2>2, <2>4, BreakAssumption DEF BreakInv, BreakTypeOK, TickInv, Tripping
  <2>5. CASE Counting
    BY <2>1, <2>2, <2>5, BreakAssumption
    DEF BreakInv, BreakTypeOK, TickInv, Counting, ResetCounters
  <2> QED BY <1>2, <2>3, <2>4, <2>5 DEF Tick
<1> QED BY <1>1, <1>2

LEMMA SecondKeeps == ASSUME BreakInv, BreakSecond, OneLoop PROVE BreakInv'
<1>1. PICK l \in Loops : loop[l] = "asleep" /\ loop'[l] = "ready" /\ \A m \in Loops : m = l
  BY DEF BreakSecond, Running, OneLoop
<1>2. BreakTypeOK'
  BY BreakAssumption DEF BreakInv, BreakTypeOK, BreakSecond, Later, SecondsCap, breaker
<1>3. TickInv'
  BY <1>1, BreakAssumption
  DEF BreakInv, BreakTypeOK, TickInv, BreakSecond, Later, SecondsCap, breaker
<1> QED BY <1>2, <1>3 DEF BreakInv

\* With the one loop the program starts, a breaker that has tripped refuses
\* for ResumeSec seconds, and the ratio of one that has not is of calls
\* reported in the last RangeSec seconds, whatever calls end meanwhile.
THEOREM BreakerTimes == ASSUME OneLoop PROVE BreakSpec => BreakerKeepsTime
<1>1. BreakInv /\ [BreakNext]_breakVars => BreakInv'
  <2> SUFFICES ASSUME BreakInv, [BreakNext]_breakVars PROVE BreakInv'
    OBVIOUS
  <2>1. CASE UNCHANGED breakVars
    BY <2>1 DEF BreakInv, BreakTypeOK, TickInv, breakVars, breaker
  <2> QED BY <2>1, CallerKeeps, LoopKeeps, SecondKeeps, OneLoop DEF BreakNext
<1>2. BreakInv /\ [BreakNext]_breakVars =>
        /\ breaking /\ ~breaking' => broken >= ResumeSec
        /\ (Running /\ ~breaking /\ callSum > 0) => oldest <= RangeSec
  <2> SUFFICES ASSUME BreakInv, [BreakNext]_breakVars
               PROVE  /\ breaking /\ ~breaking' => broken >= ResumeSec
                      /\ (Running /\ ~breaking /\ callSum > 0) => oldest <= RangeSec
    OBVIOUS
  <2>1. ASSUME breaking, ~breaking' PROVE broken >= ResumeSec
    <3>1. PICK l \in Loops : Tick(l) /\ Resuming
      BY <2>1 DEF BreakNext, LetIn, Return, Call, Run, Stop, Tick, Tripping, Counting,
                  BreakSecond, breakVars, breaker
    <3>2. resumeTick >= 1 /\ ~(resumeTick - 1 > 0) /\ broken + resumeTick = ResumeSec + 1
      BY <2>1, <3>1 DEF BreakInv, TickInv, Tick, Resuming
    <3> QED BY <3>2, BreakAssumption DEF BreakInv, BreakTypeOK
  <2>2. ASSUME Running, ~breaking PROVE oldest <= RangeSec
    BY <2>2, BreakAssumption DEF BreakInv, BreakTypeOK, TickInv, Running
  <2> QED BY <2>1, <2>2
<1> QED BY InitBreak, <1>1, <1>2, PTL DEF BreakSpec, BreakerKeepsTime

-----------------------------------------------------------------------------
(* The limit.                                                              *)

UnderWay == InCall \cup GotThrough

LEMMA LimitSetsAreFinite ==
  /\ IsFiniteSet(InCall) /\ IsFiniteSet(InCall')
  /\ IsFiniteSet(UnderWay \ excused) /\ IsFiniteSet((UnderWay \ excused)')
<1>1. /\ InCall \in SUBSET Clients /\ InCall' \in SUBSET Clients
      /\ UnderWay \ excused \in SUBSET Clients /\ (UnderWay \ excused)' \in SUBSET Clients
  BY DEF InCall, GotThrough, UnderWay
<1> QED BY <1>1, FS_Subset, LimitAssumption

\* The count is the number of calls under way, and who is not excused finds no
\* more than Most of them, and nobody between his look and his count.
LimitInv ==
    /\ pc \in [Clients -> {"idle", "looking", "passed", "running", "panicking", "leaving"}]
    /\ excused \subseteq UnderWay
    /\ count = Cardinality(InCall)
    /\ Cardinality(UnderWay \ excused) <= Most + 1

LEMMA LimitStarts == LimitInit => LimitInv
<1> SUFFICES ASSUME LimitInit PROVE LimitInv
  OBVIOUS
<1>1. InCall = {} /\ UnderWay \ excused = {} /\ excused = {}
  BY DEF LimitInit, InCall, GotThrough, UnderWay
<1>2. 0 <= Most + 1
  BY LimitAssumption
<1> QED BY <1>1, <1>2, FS_EmptySet DEF LimitInit, LimitInv

LEMMA LimitStep == ASSUME LimitInv, NEW c \in Clients, Go(c) PROVE LimitInv'
<1>0. /\ count = Cardinality(InCall) /\ count \in Nat
      /\ Cardinality(UnderWay \ excused) \in Nat
  BY LimitSetsAreFinite, FS_CardinalityType DEF LimitInv
<1>1. CASE Begin(c) \/ Sleep(c) \/ CallEnds(c) \/ CallPanics(c) \/ Recovers(c)
  <2>1. /\ InCall' = InCall /\ UnderWay' = UnderWay
        /\ count' = count /\ excused' = excused
    BY <1>1 DEF LimitInv, InCall, GotThrough, UnderWay, Begin, Sleep, CallEnds, CallPanics,
                Recovers, GoMoves
  <2>2. pc' \in [Clients -> {"idle", "looking", "passed", "running", "panicking", "leaving"}]
    BY <1>1 DEF LimitInv, Begin, Sleep, CallEnds, CallPanics, Recovers, GoMoves
  <2> QED BY <2>1, <2>2 DEF LimitInv
<1>2. CASE Pass(c) \/ RunsOutOfLooks(c)
  <2>1. /\ InCall' = InCall /\ count' = count
        /\ c \notin UnderWay /\ UnderWay' = UnderWay \cup {c}
    BY <1>2 DEF LimitInv, InCall, GotThrough, UnderWay, Pass, RunsOutOfLooks, GoMoves
  <2>2. pc' \in [Clients -> {"idle", "looking", "passed", "running", "panicking", "leaving"}]
    BY <1>2 DEF LimitInv, Pass, RunsOutOfLooks, GoMoves
  <2>3. excused' \subseteq UnderWay'
    BY <1>2, <2>1 DEF LimitInv, Pass, RunsOutOfLooks
  <2>4. Cardinality((UnderWay \ excused)') <= Most + 1
    <3>1. CASE excused' = excused \cup {c}
      <4>1. UnderWay' \ excused' = UnderWay \ excused
        BY <2>1, <3>1
      <4> QED BY <4>1 DEF LimitInv
    <3>2. CASE Pass(c) /\ GotThrough = {} /\ excused' = excused
      \* Who is not excused is in a call, and is counted.
      <4>1. UnderWay \ excused \subseteq InCall
        BY <3>2 DEF UnderWay
      <4>2. Cardinality(UnderWay \ excused) <= Cardinality(InCall)
        BY <4>1, LimitSetsAreFinite, FS_Subset
      <4>3. count <= Most
        BY <3>2 DEF Pass
      <4>4. /\ c \notin UnderWay \ excused
            /\ (UnderWay \ excused)' = (UnderWay \ excused) \cup {c}
        BY <2>1, <3>2 DEF LimitInv
      <4>5. Cardinality((UnderWay \ excused)') = Cardinality(UnderWay \ excused) + 1
        BY <4>4, LimitSetsAreFinite, FS_AddElement
      <4> QED BY <1>0, <4>2, <4>3, <4>5, LimitAssumption
    <3>3. \/ excused' = excused \cup {c}
          \/ Pass(c) /\ GotThrough = {} /\ excused' = excused
      BY <1>2 DEF Pass, RunsOutOfLooks
    <3> QED BY <3>1, <3>2, <3>3
  <2> QED BY <2>1, <2>2, <2>3, <2>4 DEF LimitInv
<1>3. CASE Enter(c)
  <2>1. /\ c \notin InCall /\ InCall' = InCall \cup {c}
        /\ UnderWay' = UnderWay /\ excused' = excused /\ count' = count + 1
    BY <1>3 DEF LimitInv, InCall, GotThrough, UnderWay, Enter, GoMoves
  <2>2. pc' \in [Clients -> {"idle", "looking", "passed", "running", "panicking", "leaving"}]
    BY <1>3 DEF LimitInv, Enter, GoMoves
  <2>3. Cardinality(InCall') = Cardinality(InCall) + 1
    BY <2>1, LimitSetsAreFinite, FS_AddElement
  <2> QED BY <2>1, <2>2, <2>3 DEF LimitInv
<1>4. CASE Leave(c)
  <2>1. /\ c \in InCall /\ InCall' = InCall \ {c} /\ UnderWay' = UnderWay \ {c}
        /\ excused' = excused \ {c} /\ count' = count - 1
    BY <1>4 DEF LimitInv, InCall, GotThrough, UnderWay, Leave, GoMoves
  <2>2. pc' \in [Clients -> {"idle", "looking", "passed", "running", "panicking", "leaving"}]
    BY <1>4 DEF LimitInv, Leave, GoMoves
  <2>3. Cardinality(InCall') = Cardinality(InCall) - 1
    BY <2>1, LimitSetsAreFinite, FS_RemoveElement
  <2>4. (UnderWay \ excused)' \subseteq UnderWay \ excused
    BY <2>1
  <2>5. /\ Cardinality((UnderWay \ excused)') <= Cardinality(UnderWay \ excused)
        /\ Cardinality((UnderWay \ excused)') \in Nat
    BY <2>4, LimitSetsAreFinite, FS_Subset, FS_CardinalityType
  <2>6. Cardinality((UnderWay \ excused)') <= Most + 1
    BY <1>0, <2>5, LimitAssumption DEF LimitInv
  <2> QED BY <2>1, <2>2, <2>3, <2>6 DEF LimitInv
<1> QED BY <1>1, <1>2, <1>3, <1>4 DEF Go

\* Whatever the number of callers, the limit and the looks: at most Most + 1 are
\* through apart from those it cannot hold back, and it holds nobody back unless
\* more than Most calls are under way, however earlier ones ended.
THEOREM LimitKeeps == LimitSpec => []LimitHolds
<1>1. LimitInv /\ UNCHANGED limitVars => LimitInv'
  BY DEF LimitInv, InCall, GotThrough, UnderWay, limitVars
<1>2. LimitInv /\ [LimitNext]_limitVars => LimitInv'
  BY <1>1, LimitStep DEF LimitNext
<1>3. LimitInv => LimitHolds
  BY DEF LimitInv, LimitHolds, UnderWay
<1> QED BY LimitStarts, <1>2, <1>3, PTL DEF LimitSpec

-----------------------------------------------------------------------------
(* The statistics.                                                         *)

Counters == [Count : Nat, AvgMs : Int, MaxMs : Int, MinMs : Int]

QpsTypeOK ==
    /\ dict \in [DOMAIN dict -> Counters] /\ DOMAIN dict \subseteq Methods
    /\ reported \in [Methods -> Seq(Int)]
    /\ beginTime \in Nat \ {0}
    /\ shown \in [list : {shown.list}, of : Nat, begin : Nat]

\* The counters of one method are those of the times reported.
CountersInv(m) ==
    /\ m \in DOMAIN dict <=> reported[m] # << >>
    /\ m \in DOMAIN dict =>
          /\ dict[m].Count = Len(reported[m])
          /\ dict[m].MinMs \in Took(m) /\ dict[m].MaxMs \in Took(m)
          /\ \A ms \in Took(m) \cup {dict[m].AvgMs} : dict[m].MinMs <= ms /\ ms <= dict[m].MaxMs

ShownInv == shown.of <= beginTime /\ (shown.begin # 0 => shown.begin >= shown.of)

QpsInv == QpsTypeOK /\ (\A m \in Methods : CountersInv(m)) /\ ShownInv

\* The mean of two numbers, rounded down, lies between them.
LEMMA MeanLiesBetween ==
  ASSUME NEW a \in Int, NEW b \in Int, NEW lo \in Int, NEW hi \in Int,
         lo <= a, lo <= b, a <= hi, b <= hi
  PROVE  (a + b) \div 2 \in Int /\ lo <= (a + b) \div 2 /\ (a + b) \div 2 <= hi
OBVIOUS

LEMMA TookAppended ==
  ASSUME NEW s \in Seq(Int), NEW ms \in Int
  PROVE  {Append(s, ms)[i] : i \in 1 .. Len(Append(s, ms))} = {s[i] : i \in 1 .. Len(s)} \cup {ms}
<1>1. /\ Len(Append(s, ms)) = Len(s) + 1 /\ Len(s) \in Nat
      /\ \A i \in 1 .. Len(s) : Append(s, ms)[i] = s[i]
      /\ Append(s, ms)[Len(s) + 1] = ms
  BY AppendProperties
<1>2. \A i : i \in 1 .. Len(s) + 1 <=> i \in 1 .. Len(s) \/ i = Len(s) + 1
  BY <1>1
<1> QED BY <1>1, <1>2

LEMMA QpsKeeps ==
  ASSUME QpsInv, NEW m \in Methods, NEW took \in Times \cup {-1}, Qps(m, took)
  PROVE  QpsInv'
<1> USE DEF QpsInv
<1> DEFINE ms == IF took = 0 THEN 1 ELSE took
<1> DEFINE q == IF m \in DOMAIN dict THEN Then(dict[m], ms) ELSE First(ms)
<1>1. ms \in Int /\ took \in Int
  BY QpsAssumption
<1>2. /\ dict' = [k \in DOMAIN dict \cup {m} |-> IF k = m THEN q ELSE dict[k]]
      /\ reported' = [reported EXCEPT ![m] = Append(@, ms)]
      /\ UNCHANGED <<beginTime, tickAt, listed, shown>>
  BY DEF Qps
<1>3. m \in DOMAIN dict => dict[m] \in Counters
  BY DEF QpsTypeOK
<1>4. q \in Counters
  <2>1. CASE m \in DOMAIN dict
    <3>1. (dict[m].AvgMs + ms) \div 2 \in Int
      BY <1>1, <1>3, <2>1 DEF Counters
    <3> QED BY <1>1, <1>3, <2>1, <3>1 DEF Then, Counters
  <2>2. CASE m \notin DOMAIN dict
    BY <1>1, <2>2 DEF First, Counters
  <2> QED BY <2>1, <2>2
<1> HIDE DEF q, ms
<1>5. /\ DOMAIN dict' = DOMAIN dict \cup {m}
      /\ dict'[m] = q /\ \A k \in DOMAIN dict \ {m} : dict'[k] = dict[k]
  BY <1>2
<1>6. /\ reported[m] \in Seq(Int) /\ reported'[m] = Append(reported[m], ms)
      /\ \A k \in Methods \ {m} : reported'[k] = reported[k]
  BY <1>2 DEF QpsTypeOK
<1>7. Append(reported[m], ms) \in Seq(Int) /\ Append(reported[m], ms) # << >>
      /\ Len(Append(reported[m], ms)) = Len(reported[m]) + 1
  <2>1. reported[m] \in Seq(Int) /\ ms \in Int
    BY <1>1, <1>6
  <2>2. Append(reported[m], ms) \in Seq(Int)
    BY ONLY <2>1, AppendProperties
  <2>3. Append(reported[m], ms) # << >>
    BY ONLY <2>1, AppendProperties
  <2>4. Len(Append(reported[m], ms)) = Len(reported[m]) + 1
    BY ONLY <2>1, AppendProperties
  <2> QED BY <2>2, <2>3, <2>4
<1>8. QpsTypeOK'
  <2>1. dict' \in [DOMAIN dict' -> Counters] /\ DOMAIN dict' \subseteq Methods
    BY <1>2, <1>4, <1>5 DEF QpsTypeOK
  <2>2. reported' \in [Methods -> Seq(Int)]
    BY <1>2, <1>6, <1>7 DEF QpsTypeOK
  <2> QED BY <1>2, <2>1, <2>2 DEF QpsTypeOK
<1>9. ASSUME NEW k \in Methods \ {m} PROVE CountersInv(k)'
  <2>1. reported'[k] = reported[k] /\ (k \in DOMAIN dict' <=> k \in DOMAIN dict)
    BY <1>5, <1>6
  <2>2. Took(k)' = Took(k)
    BY <2>1 DEF Took
  <2>3. k \in DOMAIN dict => dict'[k] = dict[k]
    BY <1>5
  <2> QED BY <2>1, <2>2, <2>3 DEF CountersInv
<1>10. CountersInv(m)'
  <2>1. Took(m)' = Took(m) \cup {ms}
    BY <1>1, <1>6, TookAppended DEF Took
  <2>2. CASE m \notin DOMAIN dict
    <3>1. reported[m] = << >> /\ Took(m) = {} /\ Len(reported[m]) = 0
      BY <2>2 DEF CountersInv, Took
    <3>2. q = First(ms)
      BY <2>2 DEF q
    <3> QED BY <1>1, <1>5, <1>6, <1>7, <2>1, <3>1, <3>2 DEF CountersInv, First
  <2>3. CASE m \in DOMAIN dict
    <3>1. /\ dict[m].Count = Len(reported[m])
          /\ dict[m].MinMs \in Took(m) /\ dict[m].MaxMs \in Took(m)
          /\ \A t \in Took(m) \cup {dict[m].AvgMs} : dict[m].MinMs <= t /\ t <= dict[m].MaxMs
      BY <2>3 DEF CountersInv
    <3>2. /\ dict[m].Count \in Nat /\ dict[m].AvgMs \in Int /\ dict[m].MinMs \in Int
          /\ dict[m].MaxMs \in Int /\ Took(m) \subseteq Int
      <4>1. Took(m) \subseteq Int
        BY <1>6 DEF Took
      <4> QED BY <1>3, <2>3, <4>1 DEF Counters
    <3>3. /\ q.Count = dict[m].Count + 1 /\ q.AvgMs = (dict[m].AvgMs + ms) \div 2
          /\ q.MaxMs = (IF ms > dict[m].MaxMs THEN ms ELSE dict[m].MaxMs)
          /\ q.MinMs = (IF ms < dict[m].MinMs THEN ms ELSE dict[m].MinMs)
      BY <2>3 DEF q, Then
    <3>4. /\ q.MinMs \in Took(m) \cup {ms} /\ q.MaxMs \in Took(m) \cup {ms}
          /\ q.MinMs \in Int /\ q.MaxMs \in Int
          /\ q.MinMs <= ms /\ ms <= q.MaxMs
          /\ q.MinMs <= dict[m].MinMs /\ dict[m].MaxMs <= q.MaxMs
      BY <1>1, <3>1, <3>2, <3>3
    <3>5. q.MinMs <= q.AvgMs /\ q.AvgMs <= q.MaxMs
      <4>1. q.MinMs <= dict[m].AvgMs /\ dict[m].AvgMs <= q.MaxMs
        <5>1. dict[m].MinMs <= dict[m].AvgMs /\ dict[m].AvgMs <= dict[m].MaxMs
          BY <3>1
        <5> QED BY <5>1, <3>2, <3>4
      <4> QED BY <1>1, <3>2, <3>3, <3>4, <4>1, MeanLiesBetween
    <3>6. \A t \in Took(m) : q.MinMs <= t /\ t <= q.MaxMs
      BY <3>1, <3>2, <3>4
    <3>7. \A t \in Took(m)' \cup {q.AvgMs} : q.MinMs <= t /\ t <= q.MaxMs
      BY <2>1, <3>4, <3>5, <3>6
    <3>8. q.Count = Len(reported'[m]) /\ reported'[m] # << >>
      BY <1>6, <1>7, <3>1, <3>3
    <3> QED BY <1>5, <2>1, <3>4, <3>7, <3>8 DEF CountersInv
  <2> QED BY <2>2, <2>3
<1>11. ShownInv'
  BY <1>2 DEF ShownInv
<1> QED BY <1>8, <1>9, <1>10, <1>11

\* The tick and the two requests of `app qps`.
LEMMA TicksAndListsKeep ==
  ASSUME QpsInv, TickLists \/ TickResets \/ List \/ ComQpsBeginTime \/ Again
  PROVE  QpsInv'
<1> USE DEF QpsInv
<1>1. CASE TickResets
  <2>1. /\ DOMAIN dict' = {} /\ reported' = [m \in Methods |-> << >>] /\ shown' = shown
        /\ beginTime' = beginTime + 1 /\ dict' \in [DOMAIN dict' -> Counters]
    BY <1>1 DEF TickResets, NoCounters
  <2>2. reported' \in [Methods -> Seq(Int)]
    BY <2>1
  <2>3. QpsTypeOK'
    BY <2>1, <2>2 DEF QpsTypeOK
  <2>4. \A m \in Methods : CountersInv(m)'
    BY <2>1 DEF CountersInv
  <2>5. ShownInv'
    BY <2>1 DEF QpsTypeOK, ShownInv
  <2> QED BY <2>3, <2>4, <2>5
<1>2. CASE TickLists \/ List \/ ComQpsBeginTime \/ Again
  <2>1. UNCHANGED <<dict, reported, beginTime>>
    BY <1>2 DEF TickLists, List, ComQpsBeginTime, Again
  <2>2. shown' \in [list : {shown'.list}, of : Nat, begin : Nat] /\ ShownInv'
    BY <1>2, <2>1 DEF QpsTypeOK, ShownInv, NotAsked, TickLists, List, ComQpsBeginTime, Again
  <2>3. QpsTypeOK'
    BY <2>1, <2>2 DEF QpsTypeOK
  <2>4. \A m \in Methods : CountersInv(m)'
    BY <2>1 DEF CountersInv, Took
  <2> QED BY <2>2, <2>3, <2>4
<1> QED BY <1>1, <1>2

\* The counters are those of the calls reported since the last reset: their
\* number, the slowest and the fastest, and a mean that lies between, whatever
\* the times and however the halves were rounded; and what `app qps` shows as
\* the begin is never earlier than the period of its list.
THEOREM QpsCountsItsPeriod == QpsSpec => []QpsIsOfItsPeriod
<1>1. QpsInit => QpsInv
  <2> SUFFICES ASSUME QpsInit PROVE QpsInv
    OBVIOUS
  <2>1. DOMAIN dict = {} /\ dict \in [DOMAIN dict -> Counters]
    BY DEF QpsInit, NoCounters
  <2>2. QpsTypeOK /\ ShownInv
    BY <2>1 DEF QpsInit, QpsTypeOK, ShownInv, NotAsked
  <2>3. \A m \in Methods : CountersInv(m)
    BY <2>1 DEF QpsInit, CountersInv
  <2> QED BY <2>2, <2>3 DEF QpsInv
<1>2. QpsInv /\ [QpsNext]_qpsVars => QpsInv'
  <2> SUFFICES ASSUME QpsInv, [QpsNext]_qpsVars PROVE QpsInv'
    OBVIOUS
  <2>1. CASE UNCHANGED qpsVars
    BY <2>1 DEF QpsInv, QpsTypeOK, CountersInv, Took, ShownInv, qpsVars
  <2> QED BY <2>1, QpsKeeps, TicksAndListsKeep DEF QpsNext
<1>3. QpsInv => QpsIsOfItsPeriod
  <2> SUFFICES ASSUME QpsInv PROVE QpsIsOfItsPeriod
    OBVIOUS
  <2>1. ASSUME NEW m \in DOMAIN dict, NEW ms \in Took(m) \cup {dict[m].AvgMs}
        PROVE  ms \in dict[m].MinMs .. dict[m].MaxMs
    <3>1. m \in Methods /\ dict[m] \in Counters /\ Took(m) \subseteq Int
      BY DEF QpsInv, QpsTypeOK, Took
    <3>2. ms \in Int /\ dict[m].MinMs \in Int /\ dict[m].MaxMs \in Int
      BY <3>1 DEF Counters
    <3> QED BY <3>1, <3>2 DEF QpsInv, CountersInv
  <2>2. \A m \in DOMAIN dict : m \in Methods
    BY DEF QpsInv, QpsTypeOK
  <2> QED BY <2>1, <2>2 DEF QpsInv, CountersInv, ShownInv, QpsIsOfItsPeriod
<1> QED BY <1>1, <1>2, <1>3, PTL DEF QpsSpec

-----------------------------------------------------------------------------
(* The group of tasks (TaskGroup).                                         *)

GroupTypeOK ==
    /\ nil \in SUBSET Tasks /\ failed \in SUBSET Tasks
    /\ waiter \in {"idle", "queueing", "receiving", "returned"}
    /\ atTask \in 1 .. NumTasks + 1
    /\ groupResult \in 0 .. NumTasks
    /\ queue \in Seq(Tasks)
    /\ worker \in [Workers -> {"none", "polling", "calling", "sending", "checking", "left"}]
    /\ callTask \in [Workers -> 0 .. NumTasks]
    /\ runs \in [Tasks -> Nat]

\* The next task to be queued, to be taken by a worker, to be received.
NextQueued == IF waiter \in {"idle", "queueing"} THEN atTask ELSE NumTasks + 1
NextTaken == NextQueued - Len(queue)
NextReceived == IF waiter \in {"idle", "queueing"} THEN 1 ELSE atTask

HasResult(t) == t < NextReceived \/ \E w \in Workers : worker[w] = "sending" /\ callTask[w] = t

\* The tasks in the channel are those between the taken and the queued.
ChannelIsInterval ==
    /\ NextReceived <= NextTaken
    /\ \A i \in 1 .. Len(queue) : queue[i] = NextTaken + i - 1

\* A task that was taken and not received is in the hands of one worker, if it has
\* a function.
HandsOfWorkers ==
    /\ \A w \in Workers :
        /\ worker[w] \in {"calling", "sending"} <=> callTask[w] # 0
        /\ callTask[w] # 0 => callTask[w] \in NextReceived .. NextTaken - 1
        /\ worker[w] = "sending" => callTask[w] \notin nil
    /\ \A v, w \in Workers : callTask[v] = callTask[w] => v = w \/ callTask[w] = 0
    /\ \A t \in NextReceived .. NextTaken - 1 : t \in nil \/ \E w \in Workers : callTask[w] = t

\* Functions are called once, and what failed before Wait's place is in the result.
ResultsOfTasks ==
    /\ \A t \in Tasks : runs[t] = IF HasResult(t) THEN 1 ELSE 0
    /\ \A t \in failed : HasResult(t)
    /\ \A t \in nil : t >= NextReceived
    /\ groupResult = 0 <=> \A t \in failed : t >= NextReceived

GroupInv ==
    /\ GroupTypeOK /\ ChannelIsInterval /\ HandsOfWorkers /\ ResultsOfTasks
    /\ waiter = "idle" => atTask = 1 /\ \A w \in Workers : worker[w] = "none"
    /\ waiter = "returned" => atTask = NumTasks + 1

LEMMA GroupTyped == GroupInv /\ [GroupNext]_groupVars => GroupTypeOK'
<1> SUFFICES ASSUME GroupTypeOK, HandsOfWorkers, [GroupNext]_groupVars PROVE GroupTypeOK'
  BY DEF GroupInv
<1> USE GroupAssumption DEF GroupTypeOK, Tasks
<1>1. CASE Start
  BY <1>1 DEF Start
<1>2. CASE Enqueue
  <2>1. atTask \in Tasks /\ queue' \in Seq(Tasks) /\ atTask' \in 1 .. NumTasks + 1
    BY <1>2 DEF Enqueue
  <2> QED BY <1>2, <2>1 DEF Enqueue, workVars
<1>3. CASE Enqueued
  BY <1>3 DEF Enqueued, workVars
<1>4. CASE \E w \in Workers : Receive(w)
  <2> PICK w \in Workers : Receive(w)
    BY <1>4
  <2>1. atTask \in Tasks
    BY DEF Receive
  <2> QED BY <2>1 DEF Receive
<1>5. CASE Quit
  BY <1>5 DEF Quit, workVars
<1>6. CASE \E w \in Workers : RunWorker(w)
  <2> PICK w \in Workers : RunWorker(w)
    BY <1>6
  <2>1. CASE Take(w)
    <3>1. Head(queue) \in Tasks /\ Tail(queue) \in Seq(Tasks)
      BY <2>1, HeadTailProperties DEF Take
    <3> QED BY <2>1, <3>1 DEF Take, waitVars
  <2>2. CASE TakeNothing(w)
    BY <2>2 DEF TakeNothing, waitVars
  <2>3. CASE CallFunction(w)
    <3>1. callTask[w] \in Tasks
      BY <2>3 DEF CallFunction, HandsOfWorkers
    <3>2. runs[callTask[w]] + 1 \in Nat
      BY <3>1
    <3>3. runs' \in [Tasks -> Nat]
      BY <2>3, <3>1, <3>2 DEF CallFunction
    <3>4. worker' \in [Workers -> {"none", "polling", "calling", "sending", "checking", "left"}]
      BY <2>3 DEF CallFunction
    <3>5. failed' \in SUBSET Tasks
      BY <2>3, <3>1 DEF CallFunction
    <3> QED BY <2>3, <3>3, <3>4, <3>5 DEF CallFunction, waitVars
  <2>4. CASE Skip(w)
    BY <2>4 DEF Skip, waitVars
  <2>5. CASE CheckQuit(w)
    BY <2>5 DEF CheckQuit, waitVars
  <2> QED BY <2>1, <2>2, <2>3, <2>4, <2>5 DEF RunWorker
<1>7. CASE UNCHANGED groupVars
  BY <1>7 DEF groupVars, waitVars, workVars
<1> QED BY <1>1, <1>2, <1>3, <1>4, <1>5, <1>6, <1>7 DEF GroupNext, Wait

LEMMA GroupStarts == GroupInit => GroupInv
<1> SUFFICES ASSUME GroupInit PROVE GroupInv
  OBVIOUS
<1> USE GroupAssumption DEF GroupInit, Tasks
<1>1. queue = <<>> /\ Len(queue) = 0 /\ queue \in Seq(Tasks)
  OBVIOUS
<1>2. NextReceived = 1 /\ NextTaken = 1
  BY <1>1 DEF NextReceived, NextTaken, NextQueued
<1>3. GroupTypeOK
  BY <1>1 DEF GroupTypeOK
<1>4. ChannelIsInterval /\ HandsOfWorkers
  BY <1>1, <1>2 DEF ChannelIsInterval, HandsOfWorkers
<1>5. ResultsOfTasks
  BY <1>2 DEF ResultsOfTasks, HasResult
<1> QED BY <1>3, <1>4, <1>5 DEF GroupInv

\* Steps of Wait.
LEMMA WaitStep == GroupInv /\ Wait => GroupInv'
<1> SUFFICES ASSUME GroupInv, Wait PROVE GroupInv'
  OBVIOUS
<1>0. GroupTypeOK /\ GroupTypeOK'
  BY GroupTyped DEF GroupInv, GroupNext
<1>l. Len(queue) \in Nat
  BY <1>0, LenProperties DEF GroupTypeOK
<1> USE GroupAssumption DEF Tasks
<1>1. CASE Start
  <2>1. NextReceived = 1 /\ NextReceived' = 1 /\ NextTaken' = NextTaken /\ queue' = queue
    BY <1>1 DEF Start, NextReceived, NextTaken, NextQueued
  <2>2. ChannelIsInterval'
    BY <2>1 DEF GroupInv, ChannelIsInterval
  <2>3. \A w \in Workers : callTask[w] = 0 /\ callTask'[w] = 0 /\ worker'[w] = "polling"
    BY <1>1 DEF Start, GroupInv, HandsOfWorkers
  <2>4. NextTaken = 1 - Len(queue)
    BY <1>1 DEF Start, GroupInv, NextTaken, NextQueued
  <2>5. HandsOfWorkers'
    BY <1>l, <2>1, <2>3, <2>4 DEF HandsOfWorkers
  <2>6. \A t : HasResult(t)' <=> HasResult(t)
    BY <1>1, <2>1, <2>3 DEF HasResult, GroupInv
  <2>7. ResultsOfTasks'
    BY <1>0, <1>1, <2>1, <2>6 DEF Start, GroupInv, ResultsOfTasks, GroupTypeOK
  <2> QED BY <1>0, <1>1, <2>2, <2>5, <2>7 DEF GroupInv, Start
<1>2. CASE Enqueue
  <2>1. /\ Len(queue') = Len(queue) + 1
        /\ \A i \in 1 .. Len(queue) : queue'[i] = queue[i]
        /\ queue'[Len(queue) + 1] = atTask
    BY <1>0, <1>2, AppendProperties DEF Enqueue, GroupTypeOK
  <2>2. NextReceived' = NextReceived /\ NextTaken' = NextTaken
    BY <1>0, <1>2, <1>l, <2>1 DEF Enqueue, NextReceived, NextTaken, NextQueued, GroupTypeOK
  <2>3. NextTaken + Len(queue) = atTask
    BY <1>0, <1>2, <1>l DEF Enqueue, NextTaken, NextQueued, GroupTypeOK
  <2>4. NextTaken \in Int
    BY <1>0, <1>2, <1>l DEF Enqueue, NextTaken, NextQueued, GroupTypeOK
  <2>5. ChannelIsInterval'
    BY <1>l, <2>1, <2>2, <2>3, <2>4 DEF GroupInv, ChannelIsInterval
  <2>6. HandsOfWorkers'
    BY <1>2, <2>2 DEF Enqueue, workVars, GroupInv, HandsOfWorkers
  <2>7. ResultsOfTasks'
    BY <1>2, <2>2 DEF Enqueue, workVars, GroupInv, ResultsOfTasks, HasResult
  <2> QED BY <1>0, <1>2, <2>5, <2>6, <2>7 DEF GroupInv, Enqueue
<1>3. CASE Enqueued
  <2>1. NextReceived' = NextReceived /\ NextTaken' = NextTaken /\ queue' = queue
    BY <1>0, <1>3 DEF Enqueued, NextReceived, NextTaken, NextQueued, GroupTypeOK
  <2>2. ChannelIsInterval'
    BY <2>1 DEF GroupInv, ChannelIsInterval
  <2>3. HandsOfWorkers'
    BY <1>3, <2>1 DEF Enqueued, workVars, GroupInv, HandsOfWorkers
  <2>4. ResultsOfTasks'
    BY <1>3, <2>1 DEF Enqueued, workVars, GroupInv, ResultsOfTasks, HasResult
  <2> QED BY <1>0, <1>3, <2>2, <2>3, <2>4 DEF GroupInv, Enqueued
<1>4. CASE \E w \in Workers : Receive(w)
  <2> PICK w \in Workers : Receive(w)
    BY <1>4
  <2>1. /\ atTask \in Tasks /\ NextReceived = atTask /\ NextReceived' = atTask + 1
        /\ NextTaken' = NextTaken /\ queue' = queue
    BY <1>0 DEF Receive, NextReceived, NextTaken, NextQueued, GroupTypeOK
  <2>2. NextTaken \in Int
    BY <1>l DEF Receive, NextTaken, NextQueued
  <2>3. atTask < NextTaken /\ atTask \notin nil
    BY <2>1, <2>2 DEF Receive, GroupInv, HandsOfWorkers
  <2>4. ChannelIsInterval'
    BY <2>1, <2>2, <2>3 DEF GroupInv, ChannelIsInterval
  <2>5. \A v \in Workers : v # w => callTask[v] # atTask
    BY <2>1 DEF Receive, GroupInv, HandsOfWorkers
  <2>6. \A v \in Workers : v # w => callTask'[v] = callTask[v] /\ worker'[v] = worker[v]
    BY <1>0 DEF Receive, GroupTypeOK
  <2>7. callTask'[w] = 0 /\ worker'[w] = "checking" /\ nil' = nil
    BY <1>0 DEF Receive, GroupTypeOK
  <2>8. HandsOfWorkers'
    <3>1. ASSUME NEW v \in Workers
          PROVE  /\ worker'[v] \in {"calling", "sending"} <=> callTask'[v] # 0
                 /\ callTask'[v] # 0 => callTask'[v] \in NextReceived' .. NextTaken' - 1
                 /\ worker'[v] = "sending" => callTask'[v] \notin nil'
      <4>1. CASE v = w
        BY <2>7, <4>1
      <4>2. CASE v # w
        BY <1>0, <2>1, <2>2, <2>5, <2>6, <2>7, <4>2 DEF GroupInv, HandsOfWorkers, GroupTypeOK
      <4> QED BY <4>1, <4>2
    <3>2. ASSUME NEW u \in Workers, NEW v \in Workers, callTask'[u] = callTask'[v]
          PROVE  u = v \/ callTask'[u] = 0
      BY <2>6, <2>7, <3>2 DEF GroupInv, HandsOfWorkers
    <3>3. ASSUME NEW t \in NextReceived' .. NextTaken' - 1
          PROVE  t \in nil' \/ \E v \in Workers : callTask'[v] = t
      <4>1. t \in NextReceived .. NextTaken - 1 /\ t # atTask
        BY <2>1, <2>2
      <4>2. t \in nil \/ \E v \in Workers : callTask[v] = t
        BY <4>1 DEF GroupInv, HandsOfWorkers
      <4> QED BY <4>1, <4>2, <2>6, <2>7 DEF Receive
    <3> QED BY <3>1, <3>2, <3>3 DEF HandsOfWorkers
  <2>9. \A t \in Tasks : HasResult(t)' <=> HasResult(t)
    BY <2>1, <2>6, <2>7 DEF HasResult, Receive
  <2>10. ResultsOfTasks'
    <3>1. \A t \in Tasks : runs'[t] = IF HasResult(t)' THEN 1 ELSE 0
      BY <2>9 DEF Receive, GroupInv, ResultsOfTasks
    <3>2. \A t \in failed' : HasResult(t)'
      BY <1>0, <2>9 DEF Receive, GroupInv, ResultsOfTasks, GroupTypeOK
    <3>3. \A t \in nil' : t >= NextReceived'
      BY <1>0, <2>1, <2>3, <2>7 DEF GroupInv, ResultsOfTasks, GroupTypeOK
    <3>4. groupResult' = 0 <=> \A t \in failed' : t >= NextReceived'
      <4>1. failed' = failed /\ groupResult' = IF atTask \in failed THEN atTask ELSE groupResult
        BY DEF Receive
      <4>2. groupResult = 0 <=> \A t \in failed : t >= atTask
        BY <2>1 DEF GroupInv, ResultsOfTasks
      <4> QED BY <1>0, <2>1, <4>1, <4>2 DEF GroupTypeOK
    <3> QED BY <3>1, <3>2, <3>3, <3>4 DEF ResultsOfTasks
  <2> QED BY <1>0, <2>4, <2>8, <2>10 DEF GroupInv, Receive
<1>5. CASE Quit
  <2>1. NextReceived' = NextReceived /\ NextTaken' = NextTaken /\ queue' = queue
    BY <1>5 DEF Quit, NextReceived, NextTaken, NextQueued
  <2>2. ChannelIsInterval'
    BY <2>1 DEF GroupInv, ChannelIsInterval
  <2>3. HandsOfWorkers'
    BY <1>5, <2>1 DEF Quit, workVars, GroupInv, HandsOfWorkers
  <2>4. ResultsOfTasks'
    BY <1>5, <2>1 DEF Quit, workVars, GroupInv, ResultsOfTasks, HasResult
  <2> QED BY <1>0, <1>5, <2>2, <2>3, <2>4 DEF GroupInv, GroupTypeOK, Quit
<1> QED BY <1>1, <1>2, <1>3, <1>4, <1>5 DEF Wait

\* Steps of a worker.
LEMMA WorkerStep == ASSUME NEW w \in Workers, GroupInv, RunWorker(w) PROVE GroupInv'
<1>0. GroupTypeOK /\ GroupTypeOK'
  BY GroupTyped DEF GroupInv, GroupNext
<1>l. Len(queue) \in Nat /\ NextReceived \in Int /\ NextTaken \in Int
  BY <1>0, GroupAssumption, LenProperties DEF GroupTypeOK, NextReceived, NextTaken, NextQueued
<1>r. NextReceived' = NextReceived /\ nil' = nil /\ waiter' = waiter /\ atTask' = atTask
  BY DEF NextReceived, RunWorker, Take, TakeNothing, CallFunction, Skip, CheckQuit, waitVars
<1>g. groupResult' = groupResult
  BY DEF RunWorker, Take, TakeNothing, CallFunction, Skip, CheckQuit, waitVars
<1>w. /\ \A v \in Workers : v # w => worker'[v] = worker[v] /\ callTask'[v] = callTask[v]
      /\ worker[w] # "none"
  BY <1>0 DEF RunWorker, Take, TakeNothing, CallFunction, Skip, CheckQuit, GroupTypeOK
<1>1. CASE Take(w)
  <2>1. /\ queue # <<>> /\ Len(queue) > 0 /\ Len(queue') = Len(queue) - 1
        /\ \A i \in 1 .. Len(queue') : queue'[i] = queue[i + 1]
        /\ callTask'[w] = queue[1] /\ worker'[w] = "calling"
    BY <1>0, <1>1, HeadTailProperties, EmptySeq DEF Take, GroupTypeOK
  <2>2. NextTaken' = NextTaken + 1
    BY <1>0, <1>1, <1>l, <1>r, <2>1, GroupAssumption DEF Take, NextTaken, NextQueued, GroupTypeOK
  <2>3. callTask'[w] = NextTaken
    BY <1>l, <2>1 DEF GroupInv, ChannelIsInterval
  <2>4. ChannelIsInterval'
    BY <1>l, <1>r, <2>1, <2>2 DEF GroupInv, ChannelIsInterval
  <2>5. NextTaken # 0 /\ NextReceived <= NextTaken
    <3>1. queue[1] \in Tasks
      BY <1>0, <1>l, <2>1, ElementOfSeq DEF GroupTypeOK
    <3> QED BY <1>l, <2>1, <2>3, <3>1 DEF GroupInv, ChannelIsInterval, Tasks
  <2>6. HandsOfWorkers'
    <3>1. ASSUME NEW v \in Workers
          PROVE  /\ worker'[v] \in {"calling", "sending"} <=> callTask'[v] # 0
                 /\ callTask'[v] # 0 => callTask'[v] \in NextReceived' .. NextTaken' - 1
                 /\ worker'[v] = "sending" => callTask'[v] \notin nil'
      <4>1. CASE v = w
        BY <1>l, <1>r, <2>1, <2>2, <2>3, <2>5, <4>1
      <4>2. CASE v # w
        BY <1>0, <1>l, <1>r, <1>w, <2>2, <4>2 DEF GroupInv, HandsOfWorkers, GroupTypeOK
      <4> QED BY <4>1, <4>2
    <3>2. \A v \in Workers : callTask[v] # NextTaken
      <4> SUFFICES ASSUME NEW v \in Workers, callTask[v] = NextTaken PROVE FALSE
        OBVIOUS
      <4>1. callTask[v] \in NextReceived .. NextTaken - 1
        BY <2>5 DEF GroupInv, HandsOfWorkers
      <4> QED BY <1>l, <4>1
    <3>3. ASSUME NEW u \in Workers, NEW v \in Workers, callTask'[u] = callTask'[v]
          PROVE  u = v \/ callTask'[u] = 0
      BY <1>w, <2>3, <3>2, <3>3 DEF GroupInv, HandsOfWorkers
    <3>4. ASSUME NEW t \in NextReceived' .. NextTaken' - 1
          PROVE  t \in nil' \/ \E v \in Workers : callTask'[v] = t
      <4>1. CASE t = NextTaken
        BY <2>3, <4>1
      <4>2. CASE t # NextTaken
        <5>1. t \in NextReceived .. NextTaken - 1
          BY <1>l, <1>r, <2>2, <4>2
        <5>2. callTask[w] = 0
          BY <1>1 DEF Take, GroupInv, HandsOfWorkers
        <5>3. t # 0
          BY <1>0, <1>r, <3>4, GroupAssumption DEF GroupTypeOK, NextReceived
        <5> QED BY <1>r, <1>w, <5>1, <5>2, <5>3 DEF GroupInv, HandsOfWorkers
      <4> QED BY <4>1, <4>2
    <3> QED BY <3>1, <3>3, <3>4 DEF HandsOfWorkers
  <2>7. \A t : HasResult(t)' <=> HasResult(t)
    BY <1>1, <1>r, <1>w, <2>1 DEF HasResult, Take
  <2>8. ResultsOfTasks'
    BY <1>1, <1>g, <1>r, <2>7 DEF Take, GroupInv, ResultsOfTasks
  <2> QED BY <1>0, <1>r, <1>w, <2>4, <2>6, <2>8 DEF GroupInv
<1>2. CASE TakeNothing(w) \/ CheckQuit(w)
  <2>1. /\ queue' = queue /\ callTask' = callTask /\ failed' = failed /\ runs' = runs
        /\ worker[w] \in {"polling", "checking"} /\ worker'[w] \in {"polling", "checking", "left"}
    BY <1>0, <1>2 DEF TakeNothing, CheckQuit, GroupTypeOK
  <2>2. NextTaken' = NextTaken
    BY <1>r, <2>1 DEF NextTaken, NextQueued
  <2>3. ChannelIsInterval'
    BY <1>r, <2>1, <2>2 DEF GroupInv, ChannelIsInterval
  <2>4. \A v \in Workers : /\ worker'[v] \in {"calling", "sending"} <=> worker[v] \in {"calling", "sending"}
                           /\ worker'[v] = "sending" <=> worker[v] = "sending"
    BY <1>w, <2>1
  <2>5. HandsOfWorkers'
    BY <1>r, <2>1, <2>2, <2>4 DEF GroupInv, HandsOfWorkers
  <2>6. \A t : HasResult(t)' <=> HasResult(t)
    BY <1>r, <2>1, <2>4 DEF HasResult
  <2>7. ResultsOfTasks'
    BY <1>g, <1>r, <2>1, <2>6 DEF GroupInv, ResultsOfTasks
  <2> QED BY <1>0, <1>r, <1>w, <2>3, <2>5, <2>7 DEF GroupInv
<1>3. CASE CallFunction(w)
  <2>1. /\ queue' = queue /\ callTask' = callTask
        /\ worker[w] = "calling" /\ worker'[w] = "sending" /\ callTask[w] \notin nil
    BY <1>0, <1>3 DEF CallFunction, GroupTypeOK
  <2>2. NextTaken' = NextTaken
    BY <1>r, <2>1 DEF NextTaken, NextQueued
  <2>3. callTask[w] \in Tasks /\ callTask[w] >= NextReceived
    BY <1>0, <1>l, <2>1 DEF GroupInv, HandsOfWorkers, GroupTypeOK, Tasks
  <2>4. ChannelIsInterval'
    BY <1>r, <2>1, <2>2 DEF GroupInv, ChannelIsInterval
  <2>5. HandsOfWorkers'
    BY <1>r, <1>w, <2>1, <2>2 DEF GroupInv, HandsOfWorkers
  <2>6. ~HasResult(callTask[w])
    BY <1>0, <1>l, <2>1, <2>3 DEF HasResult, GroupInv, HandsOfWorkers, GroupTypeOK, Tasks
  <2>7. \A t : HasResult(t)' <=> (HasResult(t) \/ t = callTask[w])
    BY <1>r, <1>w, <2>1 DEF HasResult
  <2>8. \A t \in Tasks : runs'[t] = IF HasResult(t)' THEN 1 ELSE 0
    <3>1. \A t \in Tasks : runs'[t] = IF t = callTask[w] THEN runs[t] + 1 ELSE runs[t]
      BY <1>0, <1>3 DEF CallFunction, GroupTypeOK
    <3>2. \A t \in Tasks : runs[t] = IF HasResult(t) THEN 1 ELSE 0
      BY DEF GroupInv, ResultsOfTasks
    <3> QED BY <2>3, <2>6, <2>7, <3>1, <3>2
  <2>9. \A t \in failed' : t \in failed \/ t = callTask[w]
    BY <1>3 DEF CallFunction
  <2>10. failed \subseteq failed'
    BY <1>3 DEF CallFunction
  <2>11. ResultsOfTasks'
    BY <1>g, <1>r, <2>3, <2>7, <2>8, <2>9, <2>10 DEF GroupInv, ResultsOfTasks
  <2> QED BY <1>0, <1>r, <1>w, <2>4, <2>5, <2>11 DEF GroupInv
<1>4. CASE Skip(w)
  <2>1. /\ queue' = queue /\ failed' = failed /\ runs' = runs
        /\ worker[w] = "calling" /\ worker'[w] = "checking" /\ callTask'[w] = 0 /\ callTask[w] \in nil
    BY <1>0, <1>4 DEF Skip, GroupTypeOK
  <2>2. NextTaken' = NextTaken
    BY <1>r, <2>1 DEF NextTaken, NextQueued
  <2>3. ChannelIsInterval'
    BY <1>r, <2>1, <2>2 DEF GroupInv, ChannelIsInterval
  <2>4. HandsOfWorkers'
    BY <1>r, <1>w, <2>1, <2>2 DEF GroupInv, HandsOfWorkers
  <2>5. \A t : HasResult(t)' <=> HasResult(t)
    BY <1>r, <1>w, <2>1 DEF HasResult
  <2>6. ResultsOfTasks'
    BY <1>g, <1>r, <2>1, <2>5 DEF GroupInv, ResultsOfTasks
  <2> QED BY <1>0, <1>r, <1>w, <2>3, <2>4, <2>6 DEF GroupInv
<1> QED BY <1>1, <1>2, <1>3, <1>4 DEF RunWorker

\* The inductive invariant: the tasks that were taken and not received are in the
\* hands of workers, one each, those that wait are the ones after them, and of
\* those before Wait's place the result is known.
THEOREM GroupInvariant == GroupSpec => []GroupInv
<1>1. GroupInv /\ UNCHANGED groupVars => GroupInv'
  BY DEF GroupInv, groupVars, waitVars, workVars, GroupTypeOK, ChannelIsInterval, HandsOfWorkers,
         ResultsOfTasks, HasResult, NextReceived, NextTaken, NextQueued
<1>2. GroupInv /\ [GroupNext]_groupVars => GroupInv'
  BY <1>1, WaitStep, WorkerStep DEF GroupNext
<1> QED BY <1>2, GroupStarts, PTL DEF GroupSpec

\* Wait is never stuck before a task that waits behind others: what is not in a
\* worker's hands is the first of the channel, and then no hands are full.
THEOREM GroupNeverStuck == GroupSpec => []NeverStuck
<1>1. GroupInv => NeverStuck
  <2> SUFFICES ASSUME GroupInv, waiter = "receiving", atTask <= NumTasks, nil = {},
                      \A w \in Workers : callTask[w] # atTask
               PROVE  /\ queue # <<>> /\ Head(queue) = atTask
                      /\ \A w \in Workers : callTask[w] = 0
    BY DEF NeverStuck
  <2> USE GroupAssumption
  <2>1. GroupTypeOK /\ Len(queue) \in Nat
    BY LenProperties DEF GroupInv, GroupTypeOK
  <2>2. NextReceived = atTask /\ NextTaken = NumTasks + 1 - Len(queue)
    BY DEF NextReceived, NextTaken, NextQueued
  <2>3. NextTaken = atTask
    <3>1. NextTaken \in Int /\ NextReceived \in Int /\ NextReceived <= NextTaken
      BY <2>1, <2>2 DEF GroupInv, ChannelIsInterval, GroupTypeOK
    <3>2. atTask \notin NextReceived .. NextTaken - 1
      BY DEF GroupInv, HandsOfWorkers
    <3> QED BY <2>2, <3>1, <3>2
  <2>4. Len(queue) > 0
    BY <2>1, <2>2, <2>3 DEF GroupTypeOK
  <2>5. queue # <<>> /\ Head(queue) = queue[1]
    BY <2>1, <2>4, HeadTailProperties, EmptySeq DEF GroupTypeOK
  <2>6. queue[1] = atTask
    BY <2>1, <2>3, <2>4 DEF GroupInv, ChannelIsInterval, GroupTypeOK
  <2>7. \A w \in Workers : callTask[w] = 0
    BY <2>1, <2>2, <2>3 DEF GroupInv, HandsOfWorkers, GroupTypeOK
  <2> QED BY <2>5, <2>6, <2>7
<1> QED BY <1>1, GroupInvariant, PTL

\* When Wait has returned, each task was called once and the result tells whether
\* one failed, for any number of tasks and workers.
THEOREM GroupReturnsComplete == GroupSpec => []ReturnIsComplete
<1>1. GroupInv => ReturnIsComplete
  <2> SUFFICES ASSUME GroupInv, waiter = "returned" PROVE ReturnIsComplete
    BY DEF ReturnIsComplete
  <2> USE GroupAssumption DEF Tasks
  <2>1. GroupTypeOK /\ Len(queue) \in Nat
    BY LenProperties DEF GroupInv, GroupTypeOK
  <2>2. atTask = NumTasks + 1 /\ NextReceived = NumTasks + 1 /\ NextTaken = NumTasks + 1 - Len(queue)
    BY DEF GroupInv, NextReceived, NextTaken, NextQueued
  <2>3. Len(queue) = 0
    BY <2>1, <2>2 DEF GroupInv, ChannelIsInterval
  <2>4. queue = <<>>
    BY <2>1, <2>3, EmptySeq DEF GroupTypeOK
  <2>5. \A w \in Workers : callTask[w] = 0
    BY <2>1, <2>2, <2>3 DEF GroupInv, HandsOfWorkers, GroupTypeOK
  <2>6. nil = {}
    BY <2>1, <2>2 DEF GroupInv, ResultsOfTasks, GroupTypeOK
  <2>7. \A t \in Tasks : runs[t] = 1
    BY <2>1, <2>2 DEF GroupInv, ResultsOfTasks, HasResult
  <2>8. groupResult = 0 <=> failed = {}
    BY <2>1, <2>2 DEF GroupInv, ResultsOfTasks, GroupTypeOK
  <2> QED BY <2>4, <2>5, <2>6, <2>7, <2>8 DEF ReturnIsComplete
<1> QED BY <1>1, GroupInvariant, PTL
=============================================================================
