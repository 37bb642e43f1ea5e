------------------------------ MODULE AppStop ------------------------------
(***************************************************************************)
(* The graceful stop of an app (Application.Run, app.go): its RPC server,  *)
(* its tick timers (framework/timer.go, app_timer.go) and its asynchronous *)
(* tasks (app_async.go).  Run looks at the three counts one after the      *)
(* other, without a lock, and closes the server when it saw none of them.  *)
(***************************************************************************)
EXTENDS RpcServer

CONSTANTS
    Timers,     \* tick timers the configuration opens
    Asyncs      \* async objects; each is used once

ASSUME TimersAssumption == IsFiniteSet(Timers)

VARIABLES
    timer,      \* where the goroutine of each tick timer stands
    stop,       \* timers with a message in timer.stop
    timeNum,    \* currentTimeNum
    async,      \* where each asynchronous task stands
    subscribed, \* tasks that listen to system_shutdown
    close,      \* tasks with a message in async.close
    asyncNum,   \* Application.runAsyncNum
    seen        \* the counts seen in this turn: are any of them above 0?

timerVars == <<timer, stop, timeNum>>
asyncVars == <<async, subscribed, close, asyncNum>>
appVars == <<timerVars, asyncVars, seen>>
allVars == <<vars, appVars>>

AppInit ==
    /\ Init
    /\ timer = [t \in Timers |-> "delayed"]
    /\ stop = {}
    /\ timeNum = 0
    /\ async = [a \in Asyncs |-> "none"]
    /\ subscribed = {} /\ close = {}
    /\ asyncNum = 0
    /\ seen = FALSE

-----------------------------------------------------------------------------
(* timer.triggerLoop.                                                      *)

\* The delay is over, and the goroutine counts itself.
TimerStart(t) ==
    /\ timer[t] = "delayed"
    /\ timer' = [timer EXCEPT ![t] = "top"]
    /\ timeNum' = timeNum + 1
    /\ UNCHANGED <<stop, asyncVars, seen, vars>>

\* Mutant: the loop looks for its stop message after it has ticked.
TimerRunsUnasked(t) ==
    /\ timer[t] = "top"
    /\ timer' = [timer EXCEPT ![t] = "ticking"]
    /\ UNCHANGED <<stop, timeNum, asyncVars, seen, vars>>

\* No stop message: the timer sleeps or runs its function.
TimerRuns(t) ==
    /\ timer[t] = "top"
    /\ t \notin stop
    /\ timer' = [timer EXCEPT ![t] = "ticking"]
    /\ UNCHANGED <<stop, timeNum, asyncVars, seen, vars>>

TimerReturns(t) ==
    /\ timer[t] = "ticking"
    /\ timer' = [timer EXCEPT ![t] = "top"]
    /\ UNCHANGED <<stop, timeNum, asyncVars, seen, vars>>

\* The message is taken, or the function panics: the loop is left.
TimerLeaves(t) ==
    /\ \/ timer[t] = "top" /\ t \in stop /\ stop' = stop \ {t}
       \/ timer[t] = "ticking" /\ UNCHANGED stop
    /\ timer' = [timer EXCEPT ![t] = "stopped"]
    /\ timeNum' = timeNum - 1
    /\ UNCHANGED <<asyncVars, seen, vars>>

-----------------------------------------------------------------------------
(* AppController.Async, AppTimer.Async and async.execute.                  *)

\* Code of the application runs in a call, in a timer or in another task.
CodeRuns ==
    \/ \E r \in Requests : call[r] = "running"
    \/ \E t \in Timers : timer[t] = "ticking"
    \/ \E a \in Asyncs : async[a] = "running"

\* new(async).Gotree subscribes to the shutdown, then `go ac.execute()`.
Spawn(a) ==
    /\ CodeRuns
    /\ async[a] = "none"
    /\ async' = [async EXCEPT ![a] = "spawned"]
    /\ subscribed' = subscribed \cup {a}
    /\ UNCHANGED <<close, asyncNum, timerVars, seen, vars>>

\* execute counts the task, in the task's own goroutine.
AsyncCounts(a) ==
    /\ async[a] = "spawned"
    /\ async' = [async EXCEPT ![a] = "running"]
    /\ asyncNum' = asyncNum + 1
    /\ UNCHANGED <<subscribed, close, timerVars, seen, vars>>

AsyncSleeps(a) ==
    /\ async[a] = "running"
    /\ async' = [async EXCEPT ![a] = "sleeping"]
    /\ UNCHANGED <<subscribed, close, asyncNum, timerVars, seen, vars>>

\* Mutant: a task looks for its message only when it has slept to the end.
AsyncWakesDeaf(a) ==
    /\ async[a] = "sleeping"
    /\ async' = [async EXCEPT ![a] = "running"]
    /\ UNCHANGED <<subscribed, close, asyncNum, timerVars, seen, vars>>

\* async.Sleep: half a second later, and no message.
AsyncWakes(a) ==
    /\ async[a] = "sleeping"
    /\ a \notin close
    /\ async' = [async EXCEPT ![a] = "running"]
    /\ UNCHANGED <<subscribed, close, asyncNum, timerVars, seen, vars>>

\* async.Sleep takes the message, completes the task and leaves by Goexit.
AsyncCancelled(a) ==
    /\ async[a] = "sleeping"
    /\ a \in close
    /\ close' = close \ {a}
    /\ async' = [async EXCEPT ![a] = "leaving"]
    /\ UNCHANGED <<subscribed, asyncNum, timerVars, seen, vars>>

\* The task returns or panics.
AsyncReturns(a) ==
    /\ async[a] = "running"
    /\ async' = [async EXCEPT ![a] = "leaving"]
    /\ UNCHANGED <<subscribed, close, asyncNum, timerVars, seen, vars>>

AsyncLeaves(a) ==
    /\ async[a] = "leaving"
    /\ async' = [async EXCEPT ![a] = "done"]
    /\ asyncNum' = asyncNum - 1
    /\ subscribed' = subscribed \ {a}
    /\ UNCHANGED <<close, timerVars, seen, vars>>

Async(a) ==
    \/ AsyncCounts(a) \/ AsyncSleeps(a) \/ AsyncWakes(a) \/ AsyncCancelled(a)
    \/ AsyncReturns(a) \/ AsyncLeaves(a)

Timer(t) == TimerStart(t) \/ TimerRuns(t) \/ TimerReturns(t) \/ TimerLeaves(t)

-----------------------------------------------------------------------------
(* Application.Run once the signal has come.                               *)

AppSignal == Signal /\ UNCHANGED appVars

\* Event("system_shutdown"): every timer's Stop, every subscriber's shutdown.
Shutdown ==
    /\ main = "polling"
    /\ main' = "seeCalls"
    /\ stop' = Timers
    /\ close' = close \cup subscribed
    /\ UNCHANGED <<connVars, callVars, status, polls, timer, timeNum, async, subscribed,
                   asyncNum, seen>>

SeeNext(here, next, num) ==
    /\ main = here
    /\ main' = next
    /\ seen' = (seen \/ num > 0)
    /\ UNCHANGED <<connVars, callVars, status, polls, timerVars, asyncVars>>

SeeCalls == SeeNext("seeCalls", "seeTimers", calls)

SeeTimers == SeeNext("seeTimers", "seeAsyncs", timeNum)

SeeAsyncs == SeeNext("seeAsyncs", "decide", asyncNum)

\* A turn is slept and the loop goes on, or has had its last turn.
DecideBusy ==
    /\ main = "decide"
    /\ seen
    /\ polls' = polls + 1
    /\ seen' = FALSE
    /\ main' = IF polls' = MaxPolls THEN "gaveUp" ELSE "seeCalls"
    /\ UNCHANGED <<connVars, callVars, status, timerVars, asyncVars>>

DecideIdle ==
    /\ main = "decide"
    /\ ~seen
    /\ main' = "drained"
    /\ UNCHANGED <<connVars, callVars, status, polls, timerVars, asyncVars, seen>>

AppMain ==
    \/ AppSignal \/ Shutdown \/ SeeCalls \/ SeeTimers \/ SeeAsyncs
    \/ DecideBusy \/ DecideIdle
    \/ (SetClosed \/ CloseConns) /\ UNCHANGED appVars

AppNext ==
    \/ (\E k \in Conns : Serve(k)) /\ UNCHANGED appVars
    \/ (\E r \in Requests : Call(r)) /\ UNCHANGED appVars
    \/ \E t \in Timers : Timer(t)
    \/ \E a \in Asyncs : Spawn(a) \/ Async(a)
    \/ AppMain

AppSpec == AppInit /\ [][AppNext]_allVars

\* Nothing need be scheduled, and nothing need return, but a task that sleeps
\* looks for its message twice a second.
AppFairSpec ==
    /\ AppSpec
    /\ \A a \in Asyncs : WF_allVars(AsyncCounts(a) \/ AsyncCancelled(a) \/ AsyncLeaves(a))

-----------------------------------------------------------------------------
\* A stop that saw no count above 0 leaves no call and no timer running, nor
\* lets one begin: the calls are looked at before the timers, a call found
\* waiting is refused, and a timer still in its delay meets its message.
DrainedIsQuiet ==
    (main = "drained" \/ (main = "closed" /\ polls < MaxPolls)) =>
        /\ \A r \in Requests : call[r] # "running"
        /\ \A t \in Timers : timer[t] # "ticking"

\* A task that sleeps when the shutdown reaches it ends.
SleepersEnd ==
    \A a \in Asyncs : (async[a] = "sleeping" /\ a \in close) ~> async[a] = "done"

\* README: a graceful stop hooks the tasks and guarantees that the requests of
\* a session are executed to their end.
StopWaitsForTasks ==
    [][(main = "decide" /\ main' = "drained") =>
          \A a \in Asyncs : async[a] \in {"none", "done"}]_allVars
=============================================================================
