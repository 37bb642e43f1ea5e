------------------------------- MODULE Command -------------------------------
(***************************************************************************)
(* The commands start, restart and stop of an app or a dao, and the daemon *)
(* that starts and watches the process (command.go).  A process listens on *)
(* the first of ten ports that is free (GotreeService.Run); a command asks *)
(* each port for a process id and sends the process SIGINT, on which it    *)
(* drains and ends.  A process may crash at any time.                      *)
(***************************************************************************)
EXTENDS Integers, FiniteSets

CONSTANTS
    MaxDaemons, \* bound: the daemons the commands start, one each
    Ports,      \* ports from the configured one on (10)
    Polls,      \* times a restart looks for the new process (5)
    MaxStarts   \* bound: processes the daemons start

ASSUME CommandAssumption ==
    /\ Ports \in Nat \ {0} /\ Polls \in Nat \ {0}
    /\ MaxDaemons \in Nat /\ MaxStarts \in Nat

Daemons == 1 .. MaxDaemons

VARIABLES
    foreign,    \* ports other programs listen on
    daemon,     \* "none", "starts", "waits" for its child, "sleeps", "ended"
    child,      \* "none", "starting", "open" (listening), "serving", "draining"
    port,       \* the port of the child, 0 for none
    young,      \* has the child been started in the last startSecs seconds?
    pid,        \* the number of the process the daemon started last
    command,    \* "none", "stop", "restart", "restarted" (new daemon started)
    scan,       \* the port AppStop is at
    toldPid,      \* the process that told AppStop its id
    polls,      \* looks for the new process left
    newpid,     \* the process AppRestart found
    result,    \* of the last command: "done", "failed", or "none" while one runs
    servedThen  \* the processes that waited for signals when the command began

childVars == <<foreign, daemon, child, port, young, pid>>
stopVars == <<command, scan, toldPid, servedThen>>
pollVars == <<polls, newpid>>
commandVars == <<childVars, stopVars, pollVars, result>>

NoProcess == 0

CommandInit ==
    /\ foreign \in SUBSET (1 .. Ports)
    /\ daemon = [d \in Daemons |-> "none"] /\ child = [d \in Daemons |-> "none"]
    /\ port = [d \in Daemons |-> 0] /\ young = [d \in Daemons |-> FALSE]
    /\ pid = [d \in Daemons |-> NoProcess]
    /\ command = "none" /\ scan = 1 /\ toldPid = NoProcess
    /\ polls = 0 /\ newpid = NoProcess
    /\ result = "none" /\ servedThen = {}

-----------------------------------------------------------------------------
(* The daemon and its child.                                               *)

\* cmd.Start, at first or after the two seconds of sleep.
StartsChild(d) ==
    /\ daemon[d] \in {"starts", "sleeps"}
    /\ \E n \in 1 .. MaxStarts :
        /\ \A m \in 1 .. MaxStarts : m < n <=> \E e \in Daemons : pid[e] >= m
        /\ pid' = [pid EXCEPT ![d] = n]
    /\ daemon' = [daemon EXCEPT ![d] = "waits"]
    /\ child' = [child EXCEPT ![d] = "starting"]
    /\ young' = [young EXCEPT ![d] = TRUE]
    /\ UNCHANGED <<foreign, port>>

\* cmd.Wait returns: an end without an error, or soon after the start, is the
\* daemon's end too; otherwise the process is started again.
ChildEnds(d, failed) ==
    /\ child' = [child EXCEPT ![d] = "none"]
    /\ port' = [port EXCEPT ![d] = 0]
    /\ daemon' = [daemon EXCEPT ![d] = IF failed /\ ~young[d] THEN "sleeps" ELSE "ended"]
    /\ young' = [young EXCEPT ![d] = FALSE]
    /\ UNCHANGED <<foreign, pid>>

StartSecsPass(d) ==
    /\ child[d] # "none" /\ young[d]
    /\ young' = [young EXCEPT ![d] = FALSE]
    /\ UNCHANGED <<foreign, daemon, child, port, pid>>

Crashes(d) == child[d] # "none" /\ ChildEnds(d, TRUE)

Drained(d) == child[d] = "draining" /\ ChildEnds(d, FALSE)

TakenPorts == foreign \cup {port[d] : d \in Daemons}

\* net.Listen on one port after the other; the error of the tenth is a panic.
Listens(d) ==
    /\ child[d] = "starting"
    /\ \E p \in 1 .. Ports \ TakenPorts :
        /\ \A q \in 1 .. p - 1 : q \in TakenPorts
        /\ port' = [port EXCEPT ![d] = p]
    /\ child' = [child EXCEPT ![d] = "open"]
    /\ UNCHANGED <<foreign, daemon, young, pid>>

NoPortFree(d) ==
    /\ child[d] = "starting" /\ 1 .. Ports \subseteq TakenPorts
    /\ ChildEnds(d, TRUE)

WaitsForSignal(d) ==
    /\ child[d] = "open"
    /\ child' = [child EXCEPT ![d] = "serving"]
    /\ UNCHANGED <<foreign, daemon, port, young, pid>>

\* SIGINT.  Before signal.Notify it kills the process, and before the process
\* receives from its channel, which has no room, it is dropped; a process that
\* drains receives no more.
Interrupted(d) ==
    \/ child[d] = "open" /\ ChildEnds(d, TRUE)
    \/ child[d] \in {"open", "draining"} /\ UNCHANGED childVars
    \/ /\ child[d] = "serving"
       /\ child' = [child EXCEPT ![d] = "draining"]
       /\ UNCHANGED <<foreign, daemon, port, young, pid>>

\* Health.ProcessId: a process that drains answers with the error ShutDownIng.
Answering == {d \in Daemons : child[d] \in {"open", "serving"}}

Lives(d) ==
    /\ \/ StartsChild(d) \/ StartSecsPass(d) \/ Crashes(d) \/ Drained(d)
       \/ Listens(d) \/ NoPortFree(d) \/ WaitsForSignal(d)
    /\ UNCHANGED <<stopVars, pollVars, result>>

-----------------------------------------------------------------------------
(* The commands, one at a time.                                            *)

Begins(c) ==
    /\ command = "none"
    /\ c = "restart" => \E d \in Daemons : daemon[d] = "none"
    /\ command' = c /\ result' = "none"
    /\ servedThen' = {pid[d] : d \in {e \in Daemons : child[e] = "serving"}}
    /\ polls' = IF c = "restart" THEN Polls ELSE 0
    /\ UNCHANGED <<childVars, scan, toldPid, newpid>>

Scanning == command \in {"stop", "restart"} /\ scan <= Ports

\* Mutant: a port that nobody answers on ends the search.
AskFirstOnly ==
    /\ Scanning /\ toldPid = NoProcess
    /\ \/ \E d \in Answering : port[d] = scan /\ toldPid' = pid[d] /\ UNCHANGED scan
       \/ /\ \A d \in Answering : port[d] # scan
          /\ scan' = Ports + 1 /\ UNCHANGED toldPid
    /\ UNCHANGED <<childVars, pollVars, command, result, servedThen>>

Ask ==
    /\ Scanning /\ toldPid = NoProcess
    /\ \/ \E d \in Answering : port[d] = scan /\ toldPid' = pid[d] /\ UNCHANGED scan
       \/ /\ \A d \in Answering : port[d] # scan
          /\ scan' = scan + 1 /\ UNCHANGED toldPid
    /\ UNCHANGED <<childVars, pollVars, command, result, servedThen>>

\* The process may have ended since it was asked.
Signals ==
    /\ toldPid # NoProcess
    /\ \/ \E d \in Daemons : pid[d] = toldPid /\ Interrupted(d)
       \/ /\ \A d \in Daemons : pid[d] = toldPid => child[d] = "none"
          /\ UNCHANGED childVars
    /\ toldPid' = NoProcess /\ scan' = scan + 1
    /\ UNCHANGED <<pollVars, command, result, servedThen>>

CommandEnds(how) ==
    /\ command' = "none" /\ result' = how
    /\ scan' = 1 /\ toldPid' = NoProcess /\ polls' = 0 /\ newpid' = NoProcess
    /\ UNCHANGED <<childVars, servedThen>>

Stopped == command = "stop" /\ scan > Ports /\ CommandEnds("done")

\* AppRestart starts the daemon of the next process ...
StartsDaemon ==
    /\ command = "restart" /\ scan > Ports
    /\ \E d \in Daemons :
        /\ \A e \in Daemons : daemon[e] = "none" <=> e >= d
        /\ daemon' = [daemon EXCEPT ![d] = "starts"]
    /\ command' = "restarted"
    /\ UNCHANGED <<foreign, child, port, young, pid, scan, toldPid, servedThen, pollVars, result>>

\* ... while its goroutine looks for a process (newPid), the old one included ...
Polled ==
    /\ polls > 0 /\ newpid = NoProcess
    /\ \/ \E d \in Answering : newpid' = pid[d] /\ UNCHANGED polls
       \/ Answering = {} /\ polls' = polls - 1 /\ UNCHANGED newpid
    /\ UNCHANGED <<childVars, stopVars, result>>

\* ... and ends the command wherever it is when it has found none.
GivesUp ==
    /\ command \in {"restart", "restarted"}
    /\ polls = 0 /\ newpid = NoProcess
    /\ CommandEnds("failed")

Restarted == command = "restarted" /\ newpid # NoProcess /\ CommandEnds("done")

CommandNext ==
    \/ \E d \in Daemons : Lives(d)
    \/ \E c \in {"stop", "restart"} : Begins(c)
    \/ Ask \/ Signals \/ Stopped
    \/ StartsDaemon \/ Polled \/ GivesUp \/ Restarted

CommandSpec == CommandInit /\ [][CommandNext]_commandVars

-----------------------------------------------------------------------------
\* A command that succeeds has reached every process that served when it began,
\* on whichever port: it drains or has ended, also while others crash, are
\* started again by their daemons and take the ports that become free.  Those
\* that were still starting it may miss (command.go AppStop, AppRestart).
CommandReachesAll ==
    command = "none" /\ result = "done" =>
        \A d \in Daemons : pid[d] \in servedThen => child[d] \in {"draining", "none"}
=============================================================================
