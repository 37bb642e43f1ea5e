------------------------------ MODULE MCParts ------------------------------
(***************************************************************************)
(* Components that owe somebody an end, for TLC, each under the fairness   *)
(* of its goroutines.  They share no state: in a behaviour one of them is  *)
(* at work, `part`, and the others stay as they were initialised, so that  *)
(* the state spaces add up and do not multiply.                            *)
(***************************************************************************)
EXTENDS HealthClient, TaskGroup, DaoQueue, Transaction

CONSTANTS Requests, Conns, MaxPolls, Timers, Asyncs     \* see AppStop

VARIABLES
    part,       \* the component at work
    status, calls, link, reader, connmap, garbled, call, on, reply, cutOff, main, polls,
    timer, stop, timeNum, async, subscribed, closeAsync, asyncNum, seen  \* see AppStop

App == INSTANCE AppStop WITH close <- closeAsync

appVars ==
    <<status, calls, link, reader, connmap, garbled, call, on, reply, cutOff, main, polls,
      timer, stop, timeNum, async, subscribed, closeAsync, asyncNum, seen>>
partsVars == <<part, healthVars, groupVars, queueVars, txVars, appVars>>

PartsInit ==
    /\ part \in {"health", "group", "queue", "transaction", "app"}
    /\ HealthInit /\ GroupInit /\ QueueInit /\ TxInit /\ App!AppInit
    /\ part # "health" => ~gateway
    /\ part # "queue" => maxGo = 1

PartsNext ==
    /\ \/ /\ part = "health" /\ HealthNext
          /\ UNCHANGED <<groupVars, queueVars, txVars, appVars>>
       \/ /\ part = "group" /\ GroupNext
          /\ UNCHANGED <<healthVars, queueVars, txVars, appVars>>
       \/ /\ part = "queue" /\ QueueNext
          /\ UNCHANGED <<healthVars, groupVars, txVars, appVars>>
       \/ /\ part = "transaction" /\ TxNext
          /\ UNCHANGED <<healthVars, groupVars, queueVars, appVars>>
       \/ /\ part = "app" /\ App!AppNext
          /\ UNCHANGED <<healthVars, groupVars, queueVars, txVars>>
    /\ UNCHANGED part

-----------------------------------------------------------------------------
(* Fairness.                                                               *)

\* Heartbeats go on: dialling and calling take a time with a bound, or fail.
FairHealth == WF_healthVars(part = "health" /\ HeartBeat)

\* Wait need not be called; the tasks return.
FairGroup ==
    /\ WF_groupVars(part = "group" /\ waiter # "idle" /\ Wait)
    /\ \A w \in Workers : WF_groupVars(part = "group" /\ RunWorker(w))

\* Goroutines are scheduled and jobs return; a blocked sender is served.
FairQueue ==
    /\ \A p \in Casters : /\ WF_queueVars(part = "queue" /\ Assist(p))
                          /\ SF_queueVars(part = "queue" /\ SendJob(p))
    /\ \A w \in Consumers : WF_queueVars(part = "queue" /\ Work(w))

\* A transaction that waits for a connection gets one that is given back again
\* and again, and its function returns; Begin need not fail.
FairTransaction ==
    \A g \in Gors :
        /\ SF_txVars(part = "transaction" /\ BeginTx(g))
        /\ WF_txVars(part = "transaction" /\ (Commit(g) \/ Rollback(g)))

\* Of an app nothing need be scheduled, and nothing need return, but a task that
\* sleeps looks for its message twice a second.
FairTasks ==
    \A a \in Asyncs :
        WF_appVars(/\ part = "app"
                   /\ App!AsyncCounts(a) \/ App!AsyncCancelled(a) \/ App!AsyncLeaves(a))

PartsSpec ==
    /\ PartsInit /\ [][PartsNext]_partsVars
    /\ FairHealth /\ FairGroup /\ FairQueue /\ FairTransaction /\ FairTasks

\* A task that sleeps when the shutdown of its app reaches it ends (app_async.go
\* Sleep): it leaves by Goexit, and its deferred functions take it off the count.
SleepersEnd == App!SleepersEnd
=============================================================================
