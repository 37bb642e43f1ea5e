------------------------------ MODULE DaoQueue ------------------------------
(***************************************************************************)
(* A job queue of a dao (dao_queue.go): a buffered channel, one consumer   *)
(* that runs for ever and assistants that cast starts when jobs are        *)
(* waiting and currentGo is below maxGo.  An assistant counts itself when  *)
(* its goroutine runs, and leaves when it has found nothing for a while.   *)
(***************************************************************************)
EXTENDS Integers, FiniteSets, Sequences

CONSTANTS
    Casters,    \* goroutines that call ComController.Queue
    Assistants, \* names for the goroutines of assistRun
    MainRun,    \* the goroutine of mainRun
    QueueLen,   \* the capacity of the channel
    MaxGo,      \* bound: the largest daoQueue.maxGo
    MaxJobs     \* bound on the number of jobs ever cast

ASSUME QueueAssumption ==
    /\ IsFiniteSet(Assistants) /\ MainRun \notin Assistants
    /\ QueueLen \in Nat \ {0} /\ MaxGo \in Nat \ {0} /\ MaxJobs \in Nat

VARIABLES
    maxGo,      \* daoQueue.maxGo
    jobQueue,   \* daoQueue.queue: the jobs waiting, by their number
    currentGo,  \* daoQueue.currentGo
    consumer,   \* where each consumer stands
    job,        \* the job each consumer executes, or 0
    caster,     \* where each caster stands in cast
    cast        \* the number of jobs cast

queueVars == <<maxGo, jobQueue, currentGo, consumer, job, caster, cast>>

Consumers == Assistants \cup {MainRun}

\* The queue is registered when the program starts, and mainRun has counted
\* itself long before the first request can cast a job.
QueueInit ==
    /\ maxGo \in 1 .. MaxGo
    /\ jobQueue = <<>>
    /\ currentGo = 1
    /\ consumer = [w \in Consumers |-> IF w = MainRun THEN "waiting" ELSE "none"]
    /\ job = [w \in Consumers |-> 0]
    /\ caster = [p \in Casters |-> "idle"]
    /\ cast = 0

-----------------------------------------------------------------------------
(* daoQueue.cast and openAssist.                                           *)

\* Mutant: one consumer more than maxGo is let in.
CheckOneMore(p) ==
    /\ caster[p] = "idle"
    /\ cast < MaxJobs
    /\ caster' = [caster EXCEPT ![p] = IF currentGo > maxGo THEN "sending" ELSE "assisting"]
    /\ UNCHANGED <<maxGo, jobQueue, currentGo, consumer, job, cast>>

\* openAssist loads currentGo ...
CheckGo(p) ==
    /\ caster[p] = "idle"
    /\ cast < MaxJobs
    /\ caster' = [caster EXCEPT ![p] = IF currentGo >= maxGo THEN "sending" ELSE "assisting"]
    /\ UNCHANGED <<maxGo, jobQueue, currentGo, consumer, job, cast>>

\* ... and starts an assistant if jobs are waiting.
Assist(p) ==
    /\ caster[p] = "assisting"
    /\ caster' = [caster EXCEPT ![p] = "sending"]
    /\ IF jobQueue = <<>>
       THEN UNCHANGED consumer
       ELSE \E a \in Assistants :
                /\ consumer[a] = "none"
                /\ consumer' = [consumer EXCEPT ![a] = "starting"]
    /\ UNCHANGED <<maxGo, jobQueue, currentGo, job, cast>>

\* The send blocks while the channel is full.
SendJob(p) ==
    /\ caster[p] = "sending"
    /\ Len(jobQueue) < QueueLen
    /\ cast' = cast + 1
    /\ jobQueue' = Append(jobQueue, cast')
    /\ caster' = [caster EXCEPT ![p] = "idle"]
    /\ UNCHANGED <<maxGo, currentGo, consumer, job>>

-----------------------------------------------------------------------------
(* mainRun, assistRun and execute.                                         *)

CountGo(a) ==
    /\ consumer[a] = "starting"
    /\ consumer' = [consumer EXCEPT ![a] = "waiting"]
    /\ currentGo' = currentGo + 1
    /\ UNCHANGED <<maxGo, jobQueue, job, caster, cast>>

TakeJob(w) ==
    /\ consumer[w] = "waiting"
    /\ jobQueue # <<>>
    /\ job' = [job EXCEPT ![w] = Head(jobQueue)]
    /\ jobQueue' = Tail(jobQueue)
    /\ consumer' = [consumer EXCEPT ![w] = "executing"]
    /\ UNCHANGED <<maxGo, currentGo, caster, cast>>

\* The job returns, or panics and is recovered.
Finish(w) ==
    /\ consumer[w] = "executing"
    /\ job' = [job EXCEPT ![w] = 0]
    /\ consumer' = [consumer EXCEPT ![w] = "waiting"]
    /\ UNCHANGED <<maxGo, jobQueue, currentGo, caster, cast>>

\* The assistant has found nothing for 300000 ms.
TireOut(a) ==
    /\ a # MainRun
    /\ consumer[a] = "waiting"
    /\ jobQueue = <<>>
    /\ consumer' = [consumer EXCEPT ![a] = "leaving"]
    /\ UNCHANGED <<maxGo, jobQueue, currentGo, job, caster, cast>>

\* Mutant: the assistant leaves without taking itself off the count.
LeaveCounted(a) ==
    /\ consumer[a] = "leaving"
    /\ consumer' = [consumer EXCEPT ![a] = "none"]
    /\ UNCHANGED <<maxGo, jobQueue, currentGo, job, caster, cast>>

LeaveQueue(a) ==
    /\ consumer[a] = "leaving"
    /\ consumer' = [consumer EXCEPT ![a] = "none"]
    /\ currentGo' = currentGo - 1
    /\ UNCHANGED <<maxGo, jobQueue, job, caster, cast>>

Cast(p) == CheckGo(p) \/ Assist(p) \/ SendJob(p)

Work(w) == CountGo(w) \/ TakeJob(w) \/ Finish(w) \/ TireOut(w) \/ LeaveQueue(w)

QueueNext == (\E p \in Casters : Cast(p)) \/ (\E w \in Consumers : Work(w))

QueueSpec == QueueInit /\ [][QueueNext]_queueVars

-----------------------------------------------------------------------------
Executing == {w \in Consumers : consumer[w] = "executing"}

\* A queue registered for one consumer executes one job at a time, in the
\* order of the casts: no assistant ever joins the first consumer.
OneAtATime ==
    maxGo = 1 =>
        /\ Cardinality(Executing) <= 1
        /\ \A w \in Executing : job[w] + Len(jobQueue) = cast

\* A cast that blocks on a full queue goes through, and when the casts are over
\* the queue is worked off and the assistants leave.
QueueSettles ==
    <>[](/\ jobQueue = <<>> /\ currentGo = 1 /\ Executing = {}
         /\ \A p \in Casters : caster[p] = "idle")

\* The example's comment: the last argument of RegQueue is the number of jobs
\* consumed concurrently.
ConcurrencyBounded == [][Cardinality(Executing') <= maxGo]_queueVars
=============================================================================
