------------------------------ MODULE TaskGroup ------------------------------
(***************************************************************************)
(* A group of tasks run in parallel (helper/group.go): Wait starts the     *)
(* workers, puts the tasks into a channel that has room for all of them    *)
(* and receives their results in the order of the list.  Every task        *)
(* has a done channel of its own, without a buffer: a worker that has      *)
(* finished a task stands still until Wait comes to it.                    *)
(***************************************************************************)
EXTENDS Integers, Sequences, FiniteSets

CONSTANTS
    NumTasks,   \* the number of tasks added before Wait
    Nil,        \* tasks that may have been added without a function
    Workers     \* the goroutines Wait starts

ASSUME GroupAssumption == NumTasks \in Nat /\ Nil \subseteq 1 .. NumTasks

Tasks == 1 .. NumTasks

VARIABLES
    nil,        \* the tasks without a function
    waiter,     \* where Wait stands
    atTask,     \* the index of Wait's loop
    groupResult, \* what Wait returns: the last task that failed, 0 for nil
    close,      \* TaskGroup.close
    queue,      \* TaskGroup.queue
    worker,     \* where each worker stands
    callTask,   \* the task of each worker, or 0
    failed,     \* tasks that returned an error or panicked
    runs        \* how often each task's function was called

waitVars == <<waiter, atTask, groupResult, close>>
workVars == <<worker, callTask, failed, runs>>
groupVars == <<nil, waitVars, queue, workVars>>

GroupInit ==
    /\ nil = {}
    /\ waiter = "idle" /\ atTask = 1 /\ groupResult = 0 /\ close = FALSE
    /\ queue = <<>>
    /\ worker = [w \in Workers |-> "none"]
    /\ callTask = [w \in Workers |-> 0]
    /\ failed = {}
    /\ runs = [t \in Tasks |-> 0]

-----------------------------------------------------------------------------
(* Wait.                                                                   *)

\* The tasks have been added, and Wait starts the workers.
Start ==
    /\ waiter = "idle"
    /\ waiter' = "queueing"
    /\ nil' \in {{}, Nil}
    /\ worker' = [w \in Workers |-> "polling"]
    /\ UNCHANGED <<atTask, groupResult, close, queue, callTask, failed, runs>>

Enqueue ==
    /\ waiter = "queueing"
    /\ atTask <= NumTasks
    /\ queue' = Append(queue, atTask)
    /\ atTask' = atTask + 1
    /\ UNCHANGED <<nil, waiter, groupResult, close, workVars>>

Enqueued ==
    /\ waiter = "queueing"
    /\ atTask > NumTasks
    /\ waiter' = "receiving"
    /\ atTask' = 1
    /\ UNCHANGED <<nil, groupResult, close, queue, workVars>>

\* Mutant: each result takes the place of the one before, nil or not.
ReceiveLast(w) ==
    /\ waiter = "receiving"
    /\ worker[w] = "sending" /\ callTask[w] = atTask
    /\ groupResult' = IF atTask \in failed THEN atTask ELSE 0
    /\ atTask' = atTask + 1
    /\ worker' = [worker EXCEPT ![w] = "checking"]
    /\ callTask' = [callTask EXCEPT ![w] = 0]
    /\ UNCHANGED <<nil, waiter, close, queue, failed, runs>>

\* Wait receives from the done channel of the next task, and the worker that
\* sends the result goes on.
Receive(w) ==
    /\ waiter = "receiving"
    /\ worker[w] = "sending" /\ callTask[w] = atTask
    /\ groupResult' = IF atTask \in failed THEN atTask ELSE groupResult
    /\ atTask' = atTask + 1
    /\ worker' = [worker EXCEPT ![w] = "checking"]
    /\ callTask' = [callTask EXCEPT ![w] = 0]
    /\ UNCHANGED <<nil, waiter, close, queue, failed, runs>>

\* The deferred quit closes the group.
Quit ==
    /\ waiter = "receiving"
    /\ atTask > NumTasks
    /\ waiter' = "returned"
    /\ close' = TRUE
    /\ UNCHANGED <<nil, atTask, groupResult, queue, workVars>>

-----------------------------------------------------------------------------
(* run and runTask.                                                        *)

\* Mutant: the task added last is taken first.
TakeLast(w) ==
    /\ worker[w] = "polling"
    /\ queue # <<>>
    /\ callTask' = [callTask EXCEPT ![w] = queue[Len(queue)]]
    /\ queue' = SubSeq(queue, 1, Len(queue) - 1)
    /\ worker' = [worker EXCEPT ![w] = "calling"]
    /\ UNCHANGED <<nil, waitVars, failed, runs>>

Take(w) ==
    /\ worker[w] = "polling"
    /\ queue # <<>>
    /\ callTask' = [callTask EXCEPT ![w] = Head(queue)]
    /\ queue' = Tail(queue)
    /\ worker' = [worker EXCEPT ![w] = "calling"]
    /\ UNCHANGED <<nil, waitVars, failed, runs>>

TakeNothing(w) ==
    /\ worker[w] = "polling"
    /\ queue = <<>>
    /\ worker' = [worker EXCEPT ![w] = "checking"]
    /\ UNCHANGED <<nil, waitVars, queue, callTask, failed, runs>>

\* The function returns nil or an error, or panics, which is an error too.
CallFunction(w) ==
    /\ worker[w] = "calling"
    /\ callTask[w] \notin nil
    /\ runs' = [runs EXCEPT ![callTask[w]] = @ + 1]
    /\ failed' \in {failed, failed \cup {callTask[w]}}
    /\ worker' = [worker EXCEPT ![w] = "sending"]
    /\ UNCHANGED <<nil, waitVars, queue, callTask>>

\* A task without a function is dropped.
Skip(w) ==
    /\ worker[w] = "calling"
    /\ callTask[w] \in nil
    /\ callTask' = [callTask EXCEPT ![w] = 0]
    /\ worker' = [worker EXCEPT ![w] = "checking"]
    /\ UNCHANGED <<nil, waitVars, queue, failed, runs>>

CheckQuit(w) ==
    /\ worker[w] = "checking"
    /\ worker' = [worker EXCEPT ![w] = IF close THEN "left" ELSE "polling"]
    /\ UNCHANGED <<nil, waitVars, queue, callTask, failed, runs>>

Wait == Start \/ Enqueue \/ Enqueued \/ (\E w \in Workers : Receive(w)) \/ Quit

RunWorker(w) == Take(w) \/ TakeNothing(w) \/ CallFunction(w) \/ Skip(w) \/ CheckQuit(w)

GroupNext == Wait \/ \E w \in Workers : RunWorker(w)

GroupSpec == GroupInit /\ [][GroupNext]_groupVars

-----------------------------------------------------------------------------
\* Although a finished worker stands still until Wait reaches its task, the
\* one Wait stands before is never stuck in the queue behind workers that stand
\* still: a worker has it, or it is the next to be taken and all are free.  (If
\* every task has a function: one that has none is dropped.)
NeverStuck ==
    (waiter = "receiving" /\ atTask <= NumTasks /\ nil = {}) =>
        \/ \E w \in Workers : callTask[w] = atTask
        \/ /\ queue # <<>> /\ Head(queue) = atTask
           /\ \A w \in Workers : callTask[w] = 0

\* When Wait has returned, every task has been called exactly once, none is
\* waiting or being called, and the result tells whether one of them failed.
\* (All had a function: Wait stands before one that has none for ever.)
ReturnIsComplete ==
    waiter = "returned" =>
        /\ nil = {}
        /\ \A t \in Tasks : runs[t] = 1
        /\ queue = <<>>
        /\ \A w \in Workers : callTask[w] = 0
        /\ groupResult = 0 <=> failed = {}

\* Wait returns, however few workers there are, if every task has a function.
\* Then it has all the results.
WaitReturns ==
    (waiter = "queueing" /\ nil = {}) ~> (waiter = "returned" /\ ReturnIsComplete)
=============================================================================
