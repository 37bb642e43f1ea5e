------------------------------ MODULE Session ------------------------------
(***************************************************************************)
(* The storage of a goroutine (framework/run_stack.go) and the sequence    *)
(* numbers of requests that travel in it.  The key of the storage is the   *)
(* pointer of the goroutine, which the runtime gives to another goroutine  *)
(* once the first has ended; calls, timers, asynchronous tasks, jobs of a  *)
(* queue and tasks of a group each set it and clean it in their own way.   *)
(***************************************************************************)
EXTENDS Integers, FiniteSets

CONSTANTS
    Pointers,       \* what helper.RuntimePointer may return
    MaxSeq          \* bound: sequence numbers given out

ASSUME SessionAssumption == MaxSeq \in Nat

VARIABLES
    process,    \* an app, or a dao
    stackMap,   \* RunStack.m: gseq and session value at each pointer, 0 for none
    work,       \* what runs on the goroutine at each pointer
    gseq,       \* Application.gseq: the last number given out
    jobs        \* queueCast's in the channel of a queue, by their gseq

sessionVars == <<process, stackMap, work, gseq, jobs>>

NoStack == [gseq |-> 0, value |-> 0]
Idle == [kind |-> "none", of |-> 0]

SessionInit ==
    /\ process \in {"app", "dao"}
    /\ stackMap = [p \in Pointers |-> NoStack]
    /\ work = [p \in Pointers |-> Idle]
    /\ gseq = 0
    /\ jobs = {}

Free(p) == work[p] = Idle

\* RunStack's Get and Set of the sequence number, and its Remove.
Get(p) == stackMap[p].gseq
SetGseq(stack, p, seq) == [stack EXCEPT ![p].gseq = seq]
RemoveStack(stack, p) == [stack EXCEPT ![p] = NoStack]

-----------------------------------------------------------------------------
\* getGseq.
GetGseq == gseq < MaxSeq /\ gseq' = gseq + 1

\* A call of an app gets a number of its own, ...
AppCall(p) ==
    /\ process = "app"
    /\ Free(p)
    /\ GetGseq
    /\ work' = [work EXCEPT ![p] = [kind |-> "call", of |-> gseq']]
    /\ stackMap' = SetGseq(stackMap, p, gseq')
    /\ UNCHANGED <<process, jobs>>

\* ... and triggerLoop and dayLoop give a timer one each time they run its
\* function.
TimerStarts(p) ==
    /\ process = "app"
    /\ Free(p)
    /\ work' = [work EXCEPT ![p] = [kind |-> "timer", of |-> 0]]
    /\ UNCHANGED <<process, stackMap, gseq, jobs>>

TimerRuns(p) ==
    /\ work[p].kind = "timer"
    /\ GetGseq
    /\ work' = [work EXCEPT ![p].of = gseq']
    /\ stackMap' = SetGseq(stackMap, p, gseq')
    /\ UNCHANGED <<process, jobs>>

\* A call of a dao carries the number of the command that was sent
\* (CallCmd.Gotree); the calls of Health carry none.
DaoCall(p) ==
    /\ Free(p)
    /\ \E seq \in IF process = "dao" THEN 0 .. MaxSeq ELSE {0} :
        /\ work' = [work EXCEPT ![p] = [kind |-> "call", of |-> seq]]
        /\ stackMap' = IF seq = 0 THEN stackMap ELSE SetGseq(stackMap, p, seq)
    /\ UNCHANGED <<process, gseq, jobs>>

\* Code of the application: it stores a session value, ...
SessionSet(p) ==
    /\ process = "app"
    /\ work[p].of # 0
    /\ stackMap' = [stackMap EXCEPT ![p].value = work[p].of]
    /\ UNCHANGED <<process, work, gseq, jobs>>

\* ... starts a goroutine that takes the number over: it is read from the
\* storage here and set there, if there is one.
Start(p, q, sort) ==
    /\ work[p].of # 0 /\ Free(q)
    /\ work' = [work EXCEPT ![q] = [kind |-> sort, of |-> work[p].of]]
    /\ stackMap' = IF Get(p) = 0 THEN stackMap ELSE SetGseq(stackMap, q, Get(p))
    /\ UNCHANGED <<process, gseq, jobs>>

\* It is an asynchronous task, or a worker of a task group; ...
Async(p, q) == process = "app" /\ Start(p, q, "async")

GroupWait(p, q) == Start(p, q, "task")

\* ... or casts a job into a queue.
Cast(p) ==
    /\ process = "dao"
    /\ work[p].of # 0
    /\ jobs' = jobs \cup {[of |-> work[p].of, gseq |-> Get(p)]}
    /\ UNCHANGED <<process, stackMap, work, gseq>>

\* A bug: the job runs under the number its consumer has.
ExecuteUnset(p, j) ==
    /\ Free(p) \/ work[p].kind = "queue"
    /\ work' = [work EXCEPT ![p] = [kind |-> "queue", of |-> j.of]]
    /\ jobs' = jobs \ {j}
    /\ stackMap' = IF stackMap[p].gseq = 0 THEN SetGseq(stackMap, p, j.gseq) ELSE stackMap
    /\ UNCHANGED <<process, gseq>>

\* A consumer of the queue, an assistant just started or one at work, executes
\* a job.
Execute(p, j) ==
    /\ Free(p) \/ work[p].kind = "queue"
    /\ work' = [work EXCEPT ![p] = [kind |-> "queue", of |-> j.of]]
    /\ jobs' = jobs \ {j}
    /\ stackMap' = SetGseq(stackMap, p, j.gseq)
    /\ UNCHANGED <<process, gseq>>

\* service.call, triggerLoop, async.execute and TaskGroup.run clean the storage
\* when the goroutine ends; ...
Ends(p) ==
    /\ work[p].kind \in {"call", "timer", "async", "task"}
    /\ work' = [work EXCEPT ![p] = Idle]
    /\ stackMap' = RemoveStack(stackMap, p)
    /\ UNCHANGED <<process, gseq, jobs>>

\* ... an assistant of a queue leaves its last number.
AssistEnds(p) ==
    /\ work[p].kind = "queue"
    /\ work' = [work EXCEPT ![p] = Idle]
    /\ UNCHANGED <<process, stackMap, gseq, jobs>>

SessionNext ==
    \/ \E p \in Pointers :
        \/ AppCall(p) \/ TimerStarts(p) \/ TimerRuns(p) \/ DaoCall(p)
        \/ SessionSet(p)
        \/ Cast(p) \/ Ends(p) \/ AssistEnds(p)
        \/ \E q \in Pointers : Async(p, q) \/ GroupWait(p, q)
        \/ \E j \in jobs : Execute(p, j)

SessionSpec == SessionInit /\ [][SessionNext]_sessionVars

-----------------------------------------------------------------------------
\* README.md:17, "logs of the whole network in the order of gseq", and :513,
\* "async passes the stack on": work that belongs to a request finds the
\* number of this request in its storage whatever ran on the goroutine before,
\* and no session value but one of this request (RunStack, async, TaskGroup,
\* daoQueue, service.call).  A timer keeps its session from run to run.
WorkCarriesItsGseq ==
    \A p \in Pointers : work[p].of # 0 =>
        /\ stackMap[p].gseq = work[p].of
        /\ work[p].kind # "timer" => stackMap[p].value \in {0, work[p].of}
=============================================================================
