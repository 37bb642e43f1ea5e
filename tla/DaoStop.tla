------------------------------ MODULE DaoStop ------------------------------
(***************************************************************************)
(* The graceful stop of a dao (DAO.Run, dao.go): its RPC server, whose     *)
(* controllers cast jobs, and a job queue.  Run looks at the calls and     *)
(* then at the jobs that wait, without a lock, and closes the server when  *)
(* it saw neither.                                                         *)
(***************************************************************************)
EXTENDS RpcServer, Sequences

CONSTANTS Assistants, MainRun, QueueLen, MaxGo, MaxJobs     \* see DaoQueue

VARIABLES
    maxGo, jobQueue, currentGo, consumer, job, caster, cast, \* see DaoQueue
    daoSeen        \* the counts seen in this turn: are any of them above 0?

Q == INSTANCE DaoQueue WITH Casters <- Requests

jobVars == <<maxGo, jobQueue, currentGo, consumer, job, caster, cast>>
daoVars == <<vars, jobVars, daoSeen>>

DaoInit == Init /\ Q!QueueInit /\ daoSeen = FALSE

-----------------------------------------------------------------------------
\* A controller that is casting a job cannot return yet.
CallOutside(r) ==
    /\ Call(r)
    /\ call[r] = "running" => caster[r] = "idle"
    /\ UNCHANGED <<jobVars, daoSeen>>

\* ComController.Queue, called by a controller.
CallCasts(r) ==
    /\ call[r] = "running"
    /\ Q!Cast(r)
    /\ UNCHANGED <<vars, daoSeen>>

Worker(w) == Q!Work(w) /\ UNCHANGED <<vars, daoSeen>>

-----------------------------------------------------------------------------
(* DAO.Run once the signal has come.                                       *)

DaoSeeNext(here, next, num) ==
    /\ main = here
    /\ main' = next
    /\ daoSeen' = (daoSeen \/ num > 0)
    /\ UNCHANGED <<connVars, callVars, status, polls, jobVars>>

DaoSeeCalls == DaoSeeNext("polling", "seeQueue", calls)

\* queueLen: the jobs in the channel, not those being executed.
SeeQueue == DaoSeeNext("seeQueue", "decide", Len(jobQueue))

DaoDecideBusy ==
    /\ main = "decide"
    /\ daoSeen
    /\ polls' = polls + 1
    /\ daoSeen' = FALSE
    /\ main' = IF polls' = MaxPolls THEN "gaveUp" ELSE "polling"
    /\ UNCHANGED <<connVars, callVars, status, jobVars>>

DaoDecideIdle ==
    /\ main = "decide"
    /\ ~daoSeen
    /\ main' = "drained"
    /\ UNCHANGED <<connVars, callVars, status, polls, jobVars, daoSeen>>

\* Mutant: the jobs are looked at before the calls.
DaoMainQueueFirst ==
    \/ DaoSeeNext("polling", "seeQueue", Len(jobQueue))
    \/ DaoSeeNext("seeQueue", "decide", calls)
    \/ DaoDecideBusy \/ DaoDecideIdle
    \/ (Signal \/ SetClosed \/ CloseConns) /\ UNCHANGED <<jobVars, daoSeen>>

DaoMain ==
    \/ DaoSeeCalls \/ SeeQueue \/ DaoDecideBusy \/ DaoDecideIdle
    \/ (Signal \/ SetClosed \/ CloseConns) /\ UNCHANGED <<jobVars, daoSeen>>

DaoNext ==
    \/ (\E k \in Conns : Serve(k)) /\ UNCHANGED <<jobVars, daoSeen>>
    \/ \E r \in Requests : CallOutside(r) \/ CallCasts(r)
    \/ \E w \in Q!Consumers : Worker(w)
    \/ DaoMain

DaoSpec == DaoInit /\ [][DaoNext]_daoVars

-----------------------------------------------------------------------------
\* A stop that saw no call and no waiting job leaves none behind, and no
\* controller blocked in a cast: the calls, which cast the jobs, are looked
\* at first.  (A job taken from the channel is not seen, and may be cut off.)
DrainedLeavesNoJob ==
    (main = "drained" \/ (main = "closed" /\ polls < MaxPolls)) =>
        /\ jobQueue = <<>>
        /\ \A r \in Requests : call[r] # "running" /\ caster[r] = "idle"
=============================================================================
