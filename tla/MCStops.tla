------------------------------ MODULE MCStops ------------------------------
(***************************************************************************)
(* The two graceful stops, for TLC: that of an app and that of a dao, each *)
(* over the RPC server they share.  The process is one or the other,       *)
(* `process`.                                                              *)
(***************************************************************************)
EXTENDS AppStop, DaoStop, TLC

VARIABLE process    \* "app" or "dao"

RequestSymmetry == Permutations(Requests)

stopsVars == <<process, vars, appVars, jobVars, daoSeen>>

StopsInit ==
    /\ process \in {"app", "dao"}
    /\ AppInit /\ Q!QueueInit /\ daoSeen = FALSE

StopsNext ==
    /\ \/ process = "app" /\ AppNext /\ UNCHANGED <<jobVars, daoSeen>>
       \/ process = "dao" /\ DaoNext /\ UNCHANGED appVars
    /\ UNCHANGED process

StopsSpec == StopsInit /\ [][StopsNext]_stopsVars

-----------------------------------------------------------------------------
\* A stop that looked at its counts one after the other and found nothing
\* leaves nothing behind: an app no call and no timer (a task that had not yet
\* counted itself it may miss), a dao no call and no job.
StopLeavesNothing == DrainedIsQuiet /\ DrainedLeavesNoJob
=============================================================================
