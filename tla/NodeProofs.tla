----------------------------- MODULE NodeProofs -----------------------------
(***************************************************************************)
(* Theorems about a node as its operator and its clients see it: the       *)
(* commands that start and stop its process (Command), the answers of its  *)
(* connections (Codec) and its daily timers (DayTimer).                    *)
(***************************************************************************)
EXTENDS Command, Codec, DayTimer, TLAPS

-----------------------------------------------------------------------------
(* The commands.                                                           *)

CommandTypeOK ==
    /\ child \in [Daemons -> {"none", "starting", "open", "serving", "draining"}]
    /\ port \in [Daemons -> 0 .. Ports] /\ pid \in [Daemons -> Nat]
    /\ daemon \in [Daemons -> {"none", "starts", "waits", "sleeps", "ended"}]
    /\ command \in {"none", "stop", "restart", "restarted"}
    /\ scan \in Nat \ {0} /\ toldPid \in Nat

\* Processes differ in their ids, and those that listen in their ports.
ProcessInv ==
    /\ \A d \in Daemons :
        /\ daemon[d] # "waits" => child[d] = "none"
        /\ child[d] \in {"none", "starting"} <=> port[d] = 0
        /\ child[d] # "none" => pid[d] # NoProcess
    /\ \A d, e \in Daemons :
        /\ port[d] = port[e] /\ port[d] # 0 => d = e
        /\ pid[d] = pid[e] /\ pid[d] # NoProcess => d = e

\* A process that served when the command began has been there since.
ServedInv ==
    /\ \A n \in servedThen : n \in Nat /\ n # NoProcess /\ \E e \in Daemons : pid[e] >= n
    /\ \A d \in Daemons : pid[d] \in servedThen => child[d] \in {"none", "serving", "draining"}

\* The command has still to reach it.
Left(d) == pid[d] \in servedThen /\ child[d] = "serving"

\* The search has passed the ports of those it has reached.
ScanInv ==
    /\ command = "none" => scan = 1 /\ toldPid = NoProcess
    /\ command = "none" /\ result = "done" => \A d \in Daemons : ~Left(d)
    /\ command # "none" => \A d \in Daemons : Left(d) => port[d] >= scan
    /\ command = "restarted" => scan > Ports
    /\ toldPid # NoProcess =>
        Scanning /\ \A d \in Daemons : Left(d) /\ port[d] = scan => pid[d] = toldPid

CommandInv == CommandTypeOK /\ ProcessInv /\ ServedInv /\ ScanInv

LEMMA CommandStarts == CommandInit => CommandInv
  <1>. SUFFICES ASSUME CommandInit PROVE CommandInv OBVIOUS
  <1>1. CommandTypeOK
    BY CommandAssumption DEF CommandAssumption, CommandInit, CommandTypeOK, NoProcess
  <1>2. ProcessInv /\ ServedInv /\ ScanInv
    BY DEF CommandInit, ProcessInv, ServedInv, ScanInv, Left, NoProcess
  <1>. QED BY <1>1, <1>2 DEF CommandInv

\* What a step does to the process of a daemon: it stays, ends, is started
\* under a new id, listens on a free port, waits for signals, or drains.
Stays == UNCHANGED <<child, port, pid>>

Ends(d) ==
    /\ child' = [child EXCEPT ![d] = "none"] /\ port' = [port EXCEPT ![d] = 0]
    /\ UNCHANGED pid

Starts(d) ==
    /\ child[d] = "none"
    /\ \E n \in Nat \ {NoProcess} :
        /\ \A e \in Daemons : pid[e] < n
        /\ pid' = [pid EXCEPT ![d] = n]
    /\ child' = [child EXCEPT ![d] = "starting"]
    /\ UNCHANGED port

ListensOn(d) ==
    /\ child[d] = "starting"
    /\ \E p \in 1 .. Ports :
        (\A e \in Daemons : port[e] # p) /\ port' = [port EXCEPT ![d] = p]
    /\ child' = [child EXCEPT ![d] = "open"]
    /\ UNCHANGED pid

Turns(d, from, to) ==
    /\ child[d] = from /\ child' = [child EXCEPT ![d] = to]
    /\ UNCHANGED <<port, pid>>

ChildMove(d) ==
    /\ daemon' \in [Daemons -> {"none", "starts", "waits", "sleeps", "ended"}]
    /\ \A e \in Daemons : daemon'[e] # "waits" => child'[e] = "none"
    /\ \/ Stays \/ Ends(d) \/ Starts(d) \/ ListensOn(d)
       \/ Turns(d, "open", "serving") \/ Turns(d, "serving", "draining")

LEMMA ChildEndsMoves ==
    ASSUME CommandTypeOK, ProcessInv, NEW d \in Daemons, NEW failed \in BOOLEAN,
           ChildEnds(d, failed)
    PROVE  ChildMove(d)
  BY DEF CommandTypeOK, ProcessInv, ChildEnds, ChildMove, Ends

LEMMA LivesMoves ==
    ASSUME CommandTypeOK, ProcessInv, NEW d \in Daemons, Lives(d) PROVE ChildMove(d)
  <1>1. CASE StartsChild(d)
    <2>1. PICK n \in 1 .. MaxStarts :
            /\ \A m \in 1 .. MaxStarts : m < n <=> \E e \in Daemons : pid[e] >= m
            /\ pid' = [pid EXCEPT ![d] = n]
      BY <1>1 DEF StartsChild
    <2>2. n \in Nat /\ n # NoProcess
      BY CommandAssumption DEF CommandAssumption, NoProcess
    <2>3. \A e \in Daemons : pid[e] < n BY <2>1, <2>2 DEF CommandTypeOK
    <2>4. child[d] = "none" BY <1>1 DEF StartsChild, ProcessInv
    <2>5. Starts(d) BY <1>1, <2>1, <2>2, <2>3, <2>4 DEF StartsChild, Starts
    <2>6. /\ daemon' \in [Daemons -> {"none", "starts", "waits", "sleeps", "ended"}]
          /\ \A e \in Daemons : daemon'[e] # "waits" => child'[e] = "none"
      BY <1>1 DEF StartsChild, CommandTypeOK, ProcessInv
    <2>. QED BY <2>5, <2>6 DEF ChildMove
  <1>2. CASE StartSecsPass(d)
    BY <1>2 DEF StartSecsPass, ChildMove, Stays, CommandTypeOK, ProcessInv
  <1>3. CASE Crashes(d) BY <1>3, ChildEndsMoves DEF Crashes
  <1>4. CASE Drained(d) BY <1>4, ChildEndsMoves DEF Drained
  <1>5. CASE Listens(d)
    <2>1. PICK p \in 1 .. Ports \ TakenPorts : port' = [port EXCEPT ![d] = p]
      BY <1>5 DEF Listens
    <2>2. \A e \in Daemons : port[e] # p BY <2>1 DEF TakenPorts
    <2>3. ListensOn(d) BY <1>5, <2>1, <2>2 DEF Listens, ListensOn
    <2>4. daemon[d] = "waits" BY <1>5 DEF Listens, ProcessInv, CommandTypeOK
    <2>. QED
      BY <1>5, <2>3, <2>4 DEF Listens, ChildMove, CommandTypeOK, ProcessInv
  <1>6. CASE NoPortFree(d) BY <1>6, ChildEndsMoves DEF NoPortFree
  <1>7. CASE WaitsForSignal(d)
    BY <1>7 DEF WaitsForSignal, ChildMove, Turns, CommandTypeOK, ProcessInv
  <1>. QED BY <1>1, <1>2, <1>3, <1>4, <1>5, <1>6, <1>7 DEF Lives

LEMMA InterruptedMoves ==
    ASSUME CommandTypeOK, ProcessInv, NEW d \in Daemons, Interrupted(d)
    PROVE  /\ ChildMove(d)
           /\ child[d] = "serving" => child'[d] = "draining"
  <1>1. CASE child[d] = "open" /\ ChildEnds(d, TRUE) BY <1>1, ChildEndsMoves
  <1>2. CASE child[d] \in {"open", "draining"} /\ UNCHANGED childVars
    BY <1>2 DEF childVars, ChildMove, Stays, CommandTypeOK, ProcessInv
  <1>3. CASE /\ child[d] = "serving"
             /\ child' = [child EXCEPT ![d] = "draining"]
             /\ UNCHANGED <<foreign, daemon, port, young, pid>>
    BY <1>3 DEF ChildMove, Turns, CommandTypeOK, ProcessInv
  <1>. QED BY <1>1, <1>2, <1>3 DEF Interrupted

\* Such a step leaves the processes apart, ...
LEMMA MoveKeepsProcesses ==
    ASSUME CommandTypeOK, ProcessInv, NEW d \in Daemons, ChildMove(d),
           command' \in {"none", "stop", "restart", "restarted"},
           scan' \in Nat \ {0}, toldPid' \in Nat
    PROVE  CommandTypeOK' /\ ProcessInv'
  <1>1. CASE Stays BY <1>1 DEF Stays, ChildMove, CommandTypeOK, ProcessInv
  <1>2. CASE Ends(d)
    BY <1>2, CommandAssumption DEF CommandAssumption, Ends, ChildMove, CommandTypeOK, ProcessInv
  <1>3. CASE Starts(d)
    <2>1. PICK n \in Nat \ {NoProcess} :
            (\A e \in Daemons : pid[e] < n) /\ pid' = [pid EXCEPT ![d] = n]
      BY <1>3 DEF Starts
    <2>2. pid' \in [Daemons -> Nat] BY <2>1 DEF CommandTypeOK
    <2>3. \A e, f \in Daemons : pid'[e] = pid'[f] /\ pid'[e] # NoProcess => e = f
      BY <2>1 DEF CommandTypeOK, ProcessInv
    <2>4. \A e \in Daemons : child'[e] # "none" => pid'[e] # NoProcess
      BY <1>3, <2>1 DEF Starts, CommandTypeOK, ProcessInv
    <2>. QED BY <1>3, <2>2, <2>3, <2>4 DEF Starts, ChildMove, CommandTypeOK, ProcessInv
  <1>4. CASE ListensOn(d)
    <2>1. PICK p \in 1 .. Ports :
            (\A e \in Daemons : port[e] # p) /\ port' = [port EXCEPT ![d] = p]
      BY <1>4 DEF ListensOn
    <2>2. p \in 0 .. Ports /\ p # 0 BY CommandAssumption DEF CommandAssumption
    <2>3. port' \in [Daemons -> 0 .. Ports] BY <2>1, <2>2 DEF CommandTypeOK
    <2>4. \A e, f \in Daemons : port'[e] = port'[f] /\ port'[e] # 0 => e = f
      BY <2>1 DEF CommandTypeOK, ProcessInv
    <2>5. \A e \in Daemons : child'[e] \in {"none", "starting"} <=> port'[e] = 0
      BY <1>4, <2>1, <2>2 DEF ListensOn, CommandTypeOK, ProcessInv
    <2>. QED BY <1>4, <2>3, <2>4, <2>5 DEF ListensOn, ChildMove, CommandTypeOK, ProcessInv
  <1>5. CASE Turns(d, "open", "serving") \/ Turns(d, "serving", "draining")
    BY <1>5 DEF Turns, ChildMove, CommandTypeOK, ProcessInv
  <1>. QED BY <1>1, <1>2, <1>3, <1>4, <1>5 DEF ChildMove

\* ... and gives the command nobody more to reach.
LEMMA MoveLeaves ==
    ASSUME CommandTypeOK, ProcessInv, ServedInv, NEW d \in Daemons, ChildMove(d),
           UNCHANGED servedThen
    PROVE  /\ ServedInv'
           /\ \A e \in Daemons : Left(e)' => Left(e) /\ UNCHANGED <<port[e], pid[e]>>
  <1>1. CASE Stays BY <1>1 DEF Stays, ServedInv, Left
  <1>2. CASE Ends(d) BY <1>2 DEF Ends, CommandTypeOK, ServedInv, Left
  <1>3. CASE Starts(d)
    <2>1. PICK n \in Nat \ {NoProcess} :
            (\A e \in Daemons : pid[e] < n) /\ pid' = [pid EXCEPT ![d] = n]
      BY <1>3 DEF Starts
    <2>2. n \notin servedThen BY <2>1 DEF ServedInv, CommandTypeOK
    <2>3. \A e \in Daemons : pid'[e] >= pid[e] /\ pid[e] \in Nat /\ pid'[e] \in Nat
      BY <2>1 DEF CommandTypeOK
    <2>4. ASSUME NEW m \in servedThen PROVE \E e \in Daemons : pid'[e] >= m
      <3>1. PICK e \in Daemons : pid[e] >= m BY DEF ServedInv
      <3>. QED BY <2>3, <3>1 DEF ServedInv
    <2>5. \A e \in Daemons : pid'[e] \in servedThen => child'[e] \in {"none", "serving", "draining"}
      BY <1>3, <2>1, <2>2 DEF Starts, CommandTypeOK, ServedInv
    <2>6. \A e \in Daemons : Left(e)' => Left(e) /\ UNCHANGED <<port[e], pid[e]>>
      BY <1>3, <2>1, <2>2 DEF Starts, CommandTypeOK, Left
    <2>. QED BY <2>4, <2>5, <2>6 DEF ServedInv
  <1>4. CASE ListensOn(d)
    <2>1. pid[d] \notin servedThen BY <1>4 DEF ListensOn, ServedInv
    <2>2. \A e \in Daemons \ {d} : UNCHANGED <<child[e], port[e], pid[e]>>
      BY <1>4 DEF ListensOn, CommandTypeOK
    <2>. QED BY <1>4, <2>1, <2>2 DEF ListensOn, ServedInv, Left
  <1>5. CASE Turns(d, "open", "serving")
    <2>1. pid[d] \notin servedThen BY <1>5 DEF Turns, ServedInv
    <2>. QED BY <1>5, <2>1 DEF Turns, CommandTypeOK, ServedInv, Left
  <1>6. CASE Turns(d, "serving", "draining")
    BY <1>6 DEF Turns, CommandTypeOK, ServedInv, Left
  <1>. QED BY <1>1, <1>2, <1>3, <1>4, <1>5, <1>6 DEF ChildMove

\* What a step of a daemon or its process leaves of the search.
LEMMA MoveKeepsCommand ==
    ASSUME CommandInv, NEW d \in Daemons, ChildMove(d),
           UNCHANGED <<stopVars, result>>
    PROVE  CommandInv'
  <1>1. CommandTypeOK /\ ProcessInv /\ ServedInv /\ ScanInv BY DEF CommandInv
  <1>2. CommandTypeOK' /\ ProcessInv'
    BY <1>1, MoveKeepsProcesses DEF CommandTypeOK, stopVars
  <1>3. /\ ServedInv'
        /\ \A e \in Daemons : Left(e)' => Left(e) /\ UNCHANGED <<port[e], pid[e]>>
    BY <1>1, MoveLeaves DEF stopVars
  <1>4. ScanInv' BY <1>1, <1>3 DEF ScanInv, Scanning, stopVars
  <1>. QED BY <1>2, <1>3, <1>4 DEF CommandInv

LEMMA BeginsKeeps ==
    ASSUME CommandInv, NEW c \in {"stop", "restart"}, Begins(c) PROVE CommandInv'
  <1>1. CommandTypeOK /\ ProcessInv /\ ScanInv BY DEF CommandInv
  <1>2. CommandTypeOK' /\ ProcessInv'
    BY <1>1 DEF Begins, CommandTypeOK, ProcessInv, childVars
  <1>3. UNCHANGED <<child, port, pid>> BY DEF Begins, childVars
  <1>4. servedThen' = {pid[d] : d \in {e \in Daemons : child[e] = "serving"}} BY DEF Begins
  <1>5. \A d \in Daemons : pid[d] \in servedThen' => child[d] = "serving"
    BY <1>1, <1>4 DEF ProcessInv
  <1>6. \A n \in servedThen' : n \in Nat /\ n # NoProcess /\ \E e \in Daemons : pid[e] >= n
    BY <1>1, <1>4 DEF ProcessInv, CommandTypeOK
  <1>7. ServedInv' BY <1>3, <1>5, <1>6 DEF ServedInv
  <1>8. scan' = 1 /\ toldPid' = NoProcess /\ command' = c
    BY <1>1 DEF Begins, ScanInv
  <1>9. \A d \in Daemons : child[d] = "serving" => port[d] >= 1
    BY <1>1, CommandAssumption DEF CommandAssumption, ProcessInv, CommandTypeOK
  <1>10. ScanInv' BY <1>3, <1>8, <1>9 DEF ScanInv, Left
  <1>. QED BY <1>2, <1>7, <1>10 DEF CommandInv

LEMMA AskKeeps == ASSUME CommandInv, Ask PROVE CommandInv'
  <1>1. CommandTypeOK /\ ProcessInv /\ ServedInv /\ ScanInv BY DEF CommandInv
  <1>2. UNCHANGED <<daemon, child, port, pid, command, result, servedThen>>
    BY DEF Ask, childVars
  <1>3. Scanning /\ toldPid = NoProcess /\ command \in {"stop", "restart"} /\ scan \in Nat \ {0}
    BY <1>1 DEF Ask, Scanning, CommandTypeOK
  <1>4. ProcessInv' /\ ServedInv' BY <1>1, <1>2 DEF ProcessInv, ServedInv
  <1>5. \A e \in Daemons : Left(e)' <=> Left(e) BY <1>2 DEF Left
  <1>6. ASSUME NEW d \in Answering, port[d] = scan, toldPid' = pid[d], UNCHANGED scan
        PROVE  CommandInv'
    <2>1. d \in Daemons BY <1>6 DEF Answering
    <2>2. \A e \in Daemons : port[e] = scan => e = d
      BY <1>1, <1>3, <1>6, <2>1 DEF ProcessInv
    <2>3. CommandTypeOK' BY <1>1, <1>2, <1>6, <2>1 DEF CommandTypeOK
    <2>4. \A e \in Daemons : Left(e)' /\ port'[e] = scan' => pid'[e] = toldPid'
      BY <1>2, <1>6, <2>2
    <2>5. Scanning' BY <1>2, <1>3, <1>6 DEF Scanning
    <2>6. ScanInv' BY <1>1, <1>2, <1>3, <1>5, <1>6, <2>4, <2>5 DEF ScanInv
    <2>. QED BY <1>4, <2>3, <2>6 DEF CommandInv
  <1>7. ASSUME \A d \in Answering : port[d] # scan, scan' = scan + 1, UNCHANGED toldPid
        PROVE  CommandInv'
    <2>1. CommandTypeOK' BY <1>1, <1>2, <1>7 DEF CommandTypeOK
    <2>2. \A e \in Daemons : Left(e) => port[e] # scan BY <1>7 DEF Left, Answering
    <2>3. \A e \in Daemons : Left(e) => port[e] >= scan BY <1>1, <1>3 DEF ScanInv
    <2>4. \A e \in Daemons : port[e] \in Int
      BY <1>1, CommandAssumption DEF CommandAssumption, CommandTypeOK
    <2>5. \A e \in Daemons : Left(e) => port[e] >= scan + 1 BY <1>3, <2>2, <2>3, <2>4
    <2>6. ScanInv' BY <1>2, <1>3, <1>5, <1>7, <2>5 DEF ScanInv
    <2>. QED BY <1>4, <2>1, <2>6 DEF CommandInv
  <1>. QED BY <1>6, <1>7 DEF Ask

LEMMA SignalsKeeps == ASSUME CommandInv, Signals PROVE CommandInv'
  <1>1. CommandTypeOK /\ ProcessInv /\ ServedInv /\ ScanInv BY DEF CommandInv
  <1>2. /\ UNCHANGED <<command, result, servedThen>>
        /\ toldPid # NoProcess /\ toldPid' = NoProcess /\ scan' = scan + 1
    BY DEF Signals
  <1>3. /\ Scanning /\ command \in {"stop", "restart"} /\ scan \in Nat \ {0}
        /\ \A d \in Daemons : Left(d) /\ port[d] = scan => pid[d] = toldPid
        /\ \A d \in Daemons : Left(d) => port[d] >= scan
    BY <1>1, <1>2 DEF ScanInv, Scanning, CommandTypeOK
  \* The process asked is not one the command has still to reach.
  <1>4. /\ CommandTypeOK' /\ ProcessInv' /\ ServedInv'
        /\ \A e \in Daemons : Left(e)' =>
             Left(e) /\ pid[e] # toldPid /\ UNCHANGED <<port[e], pid[e]>>
    <2>1. ASSUME NEW d \in Daemons, pid[d] = toldPid, Interrupted(d)
          PROVE  /\ CommandTypeOK' /\ ProcessInv' /\ ServedInv'
                 /\ \A e \in Daemons : Left(e)' =>
                      Left(e) /\ pid[e] # toldPid /\ UNCHANGED <<port[e], pid[e]>>
      <3>1. ChildMove(d) /\ (child[d] = "serving" => child'[d] = "draining")
        BY <1>1, <2>1, InterruptedMoves
      <3>2. CommandTypeOK' /\ ProcessInv'
        BY <1>1, <1>2, <1>3, <3>1, MoveKeepsProcesses DEF CommandTypeOK, NoProcess
      <3>3. /\ ServedInv'
            /\ \A e \in Daemons : Left(e)' => Left(e) /\ UNCHANGED <<port[e], pid[e]>>
        BY <1>1, <1>2, <3>1, MoveLeaves
      <3>4. ASSUME NEW e \in Daemons, Left(e)' PROVE pid[e] # toldPid
        <4>1. Left(e) BY <3>3, <3>4
        <4>2. pid[e] = toldPid => e = d BY <1>1, <1>2, <2>1 DEF ProcessInv
        <4>. QED BY <3>1, <3>4, <4>1, <4>2 DEF Left
      <3>. QED BY <3>2, <3>3, <3>4
    <2>2. ASSUME \A d \in Daemons : pid[d] = toldPid => child[d] = "none", UNCHANGED childVars
          PROVE  /\ CommandTypeOK' /\ ProcessInv' /\ ServedInv'
                 /\ \A e \in Daemons : Left(e)' =>
                      Left(e) /\ pid[e] # toldPid /\ UNCHANGED <<port[e], pid[e]>>
      BY <1>1, <1>2, <1>3, <2>2
      DEF childVars, CommandTypeOK, ProcessInv, ServedInv, Left, NoProcess
    <2>. QED BY <2>1, <2>2 DEF Signals
  <1>5. ASSUME NEW e \in Daemons, Left(e)' PROVE port'[e] >= scan'
    <2>1. Left(e) /\ port[e] # scan /\ port[e] >= scan /\ UNCHANGED port[e]
      BY <1>3, <1>4, <1>5
    <2>2. port[e] \in Int BY <1>1, CommandAssumption DEF CommandAssumption, CommandTypeOK
    <2>. QED BY <1>2, <1>3, <2>1, <2>2
  <1>6. ScanInv' BY <1>2, <1>3, <1>5 DEF ScanInv
  <1>. QED BY <1>4, <1>6 DEF CommandInv

\* When the search is over, no process is left to reach.
LEMMA SearchIsOver ==
    ASSUME CommandInv, command # "none", scan > Ports PROVE \A d \in Daemons : ~Left(d)
  <1>1. \A d \in Daemons : port[d] \in Int /\ port[d] <= Ports
    BY CommandAssumption DEF CommandAssumption, CommandInv, CommandTypeOK
  <1>2. scan \in Int /\ Ports \in Int
    BY CommandAssumption DEF CommandAssumption, CommandInv, CommandTypeOK
  <1>. QED BY <1>1, <1>2 DEF CommandInv, ScanInv

LEMMA EndKeeps ==
    ASSUME CommandInv, NEW how, CommandEnds(how),
           how = "done" => \A d \in Daemons : ~Left(d)
    PROVE  CommandInv'
  <1>1. CommandTypeOK' /\ ProcessInv' /\ ServedInv'
    BY DEF CommandEnds, CommandInv, CommandTypeOK, ProcessInv, ServedInv, childVars, NoProcess
  <1>2. \A d \in Daemons : Left(d)' <=> Left(d) BY DEF CommandEnds, childVars, Left
  <1>3. ScanInv' BY <1>2 DEF CommandEnds, ScanInv
  <1>. QED BY <1>1, <1>3 DEF CommandInv

LEMMA CommandSteps == CommandInv /\ [CommandNext]_commandVars => CommandInv'
  <1>. SUFFICES ASSUME CommandInv, [CommandNext]_commandVars PROVE CommandInv' OBVIOUS
  <1>1. ASSUME NEW d \in Daemons, Lives(d) PROVE CommandInv'
    <2>1. ChildMove(d) BY <1>1, LivesMoves DEF CommandInv
    <2>. QED BY <1>1, <2>1, MoveKeepsCommand DEF Lives
  <1>2. ASSUME NEW c \in {"stop", "restart"}, Begins(c) PROVE CommandInv'
    BY <1>2, BeginsKeeps
  <1>3. CASE Ask BY <1>3, AskKeeps
  <1>4. CASE Signals BY <1>4, SignalsKeeps
  <1>5. CASE Stopped BY <1>5, SearchIsOver, EndKeeps DEF Stopped
  <1>6. CASE StartsDaemon
    <2>1. CommandTypeOK /\ ProcessInv /\ ServedInv /\ ScanInv BY DEF CommandInv
    <2>2. /\ UNCHANGED <<child, port, pid, scan, toldPid, servedThen, result>>
          /\ command' = "restarted" /\ scan > Ports
      BY <1>6 DEF StartsDaemon
    <2>3. PICK d \in Daemons :
            /\ \A e \in Daemons : daemon[e] = "none" <=> e >= d
            /\ daemon' = [daemon EXCEPT ![d] = "starts"]
      BY <1>6 DEF StartsDaemon
    <2>4. daemon[d] = "none" BY <2>3 DEF Daemons
    <2>5. CommandTypeOK' BY <2>1, <2>2, <2>3 DEF CommandTypeOK
    <2>6. ProcessInv' BY <2>1, <2>2, <2>3, <2>4 DEF CommandTypeOK, ProcessInv
    <2>7. ServedInv' BY <2>1, <2>2 DEF ServedInv
    <2>8. \A e \in Daemons : Left(e)' <=> Left(e) BY <2>2 DEF Left
    <2>9. command # "none" BY <1>6 DEF StartsDaemon
    <2>10. toldPid = NoProcess
      BY <2>1, <2>2, CommandAssumption DEF ScanInv, Scanning, CommandTypeOK, CommandAssumption
    <2>11. ScanInv' BY <2>1, <2>2, <2>8, <2>9, <2>10 DEF ScanInv
    <2>. QED BY <2>5, <2>6, <2>7, <2>11 DEF CommandInv
  <1>7. CASE Polled
    BY <1>7 DEF Polled, childVars, stopVars, CommandInv, CommandTypeOK, ProcessInv, ServedInv,
                ScanInv, Scanning, Left
  <1>8. CASE GivesUp BY <1>8, EndKeeps DEF GivesUp
  <1>9. CASE Restarted
    <2>1. scan > Ports BY <1>9 DEF Restarted, CommandInv, ScanInv
    <2>. QED BY <1>9, <2>1, SearchIsOver, EndKeeps DEF Restarted
  <1>10. CASE UNCHANGED commandVars
    BY <1>10 DEF commandVars, childVars, stopVars, CommandInv, CommandTypeOK, ProcessInv,
                 ServedInv, ScanInv, Scanning, Left
  <1>. QED BY <1>1, <1>2, <1>3, <1>4, <1>5, <1>6, <1>7, <1>8, <1>9, <1>10 DEF CommandNext

\* Types; processes have ids and ports of their own; the search for them has
\* passed the ports of all that served when the command began and still do,
\* except the one whose id it has just been told (AppStop).
THEOREM CommandInvariant == CommandSpec => []CommandInv
  BY CommandStarts, CommandSteps, PTL DEF CommandSpec

\* A command that succeeds has reached every process that served when it began
\* (command.go AppStop, AppRestart), whatever the number of daemons and ports.
THEOREM CommandsReachAll == CommandSpec => []CommandReachesAll
  <1>1. CommandInv => CommandReachesAll
    BY DEF CommandInv, ScanInv, ServedInv, Left, CommandReachesAll
  <1>. QED BY <1>1, CommandInvariant, PTL

-----------------------------------------------------------------------------
(* The codec.                                                              *)

\* A free list and the hands of the goroutines: nobody else has an object that
\* one of them has, and the list has none twice.
Apart(free, made, hand) ==
    /\ made \in Nat /\ free \in Seq(1 .. made) /\ DOMAIN hand = Sent
    /\ \A i, j \in 1 .. Len(free) : free[i] = free[j] => i = j
    /\ \A c \in Sent : hand[c] # << >> =>
        /\ hand[c] = <<hand[c][1]>> /\ hand[c][1] \in 1 .. made
        /\ \A i \in 1 .. Len(free) : free[i] # hand[c][1]
        /\ \A d \in Sent : hand[d] # << >> /\ hand[c][1] = hand[d][1] => c = d

\* What is taken from the list nobody has, ...
LEMMA TakenIsFree ==
    ASSUME NEW free, NEW made, NEW hand, Apart(free, made, hand)
    PROVE  /\ Made(free, made) \in Nat /\ Made(free, made) >= made
           /\ Taken(free, made) \in 1 .. Made(free, made)
           /\ 1 .. Made(free, made) = 1 .. made \cup {Taken(free, made)}
           /\ \A d \in Sent : hand[d] # << >> => hand[d][1] # Taken(free, made)
  <1>1. CASE free = << >>
    <2>1. Made(free, made) = made + 1 /\ Taken(free, made) = made + 1
      BY <1>1 DEF Made, Taken
    <2>2. made \in Nat /\ \A d \in Sent : hand[d] # << >> => hand[d][1] \in 1 .. made
      BY DEF Apart
    <2>. QED BY <2>1, <2>2
  <1>2. CASE free # << >>
    <2>1. Made(free, made) = made /\ Taken(free, made) = Head(free)
      BY <1>2 DEF Made, Taken
    <2>2. made \in Nat /\ free \in Seq(1 .. made) BY DEF Apart
    <2>3. Len(free) \in Nat \ {0} /\ Head(free) = free[1] /\ free[1] \in 1 .. made
      BY <1>2, <2>2
    <2>4. \A d \in Sent : hand[d] # << >> => free[1] # hand[d][1]
      BY <2>3 DEF Apart
    <2>. QED BY <2>1, <2>2, <2>3, <2>4
  <1>. QED BY <1>1, <1>2

\* ... so that taking it leaves the objects apart, ...
LEMMA TakingKeepsApart ==
    ASSUME NEW free, NEW made, NEW hand, Apart(free, made, hand),
           NEW c \in Sent, hand[c] = << >>
    PROVE  Apart(Rest(free), Made(free, made), [hand EXCEPT ![c] = <<Taken(free, made)>>])
  <1> DEFINE o == Taken(free, made)
             m == Made(free, made)
             r == Rest(free)
             h == [hand EXCEPT ![c] = <<o>>]
  <1>1. /\ m \in Nat /\ o \in 1 .. m /\ 1 .. m = 1 .. made \cup {o}
        /\ \A d \in Sent : hand[d] # << >> => hand[d][1] # o
    BY TakenIsFree
  <1>2. /\ r \in Seq(1 .. m)
        /\ \A i, j \in 1 .. Len(r) : r[i] = r[j] => i = j
        /\ \A i \in 1 .. Len(r) : r[i] # o /\ \E j \in 1 .. Len(free) : r[i] = free[j]
    <2>1. CASE free = << >>
      BY <2>1 DEF Rest
    <2>2. CASE free # << >>
      <3>1. r = Tail(free) /\ o = Head(free) /\ m = made
        BY <2>2 DEF Rest, Taken, Made
      <3>2. free \in Seq(1 .. made) /\ \A i, j \in 1 .. Len(free) : free[i] = free[j] => i = j
        BY DEF Apart
      <3>3. /\ r \in Seq(1 .. m) /\ Len(free) \in Nat \ {0} /\ Len(r) = Len(free) - 1
            /\ o = free[1] /\ \A i \in 1 .. Len(r) : r[i] = free[i + 1]
        BY <2>2, <3>1, <3>2
      <3>4. \A i \in 1 .. Len(r) : i + 1 \in 1 .. Len(free) /\ i + 1 # 1 BY <3>3
      <3>5. 1 \in 1 .. Len(free) BY <3>3
      <3>6. \A i, j \in 1 .. Len(r) : r[i] = r[j] => i = j
        BY <3>2, <3>3, <3>4
      <3>7. \A i \in 1 .. Len(r) : r[i] # o BY <3>2, <3>3, <3>4, <3>5
      <3>. QED BY <3>3, <3>4, <3>6, <3>7
    <2>. QED BY <2>1, <2>2
  <1>3. DOMAIN h = Sent /\ h[c] = <<o>> /\ \A d \in Sent \ {c} : h[d] = hand[d]
    BY DEF Apart
  <1>4. ASSUME NEW d \in Sent, h[d] # << >>
        PROVE  /\ h[d] = <<h[d][1]>> /\ h[d][1] \in 1 .. m
               /\ \A i \in 1 .. Len(r) : r[i] # h[d][1]
               /\ \A e \in Sent : h[e] # << >> /\ h[d][1] = h[e][1] => d = e
    <2>1. CASE d = c BY <1>1, <1>2, <1>3, <2>1
    <2>2. CASE d # c
      <3>1. hand[d] # << >> /\ h[d] = hand[d] BY <1>3, <1>4, <2>2
      <3>2. /\ hand[d] = <<hand[d][1]>> /\ hand[d][1] \in 1 .. made
            /\ \A i \in 1 .. Len(free) : free[i] # hand[d][1]
            /\ \A e \in Sent : hand[e] # << >> /\ hand[d][1] = hand[e][1] => d = e
        BY <3>1 DEF Apart
      <3>3. \A i \in 1 .. Len(r) : r[i] # h[d][1] BY <1>2, <3>1, <3>2
      <3>4. \A e \in Sent : h[e] # << >> /\ h[d][1] = h[e][1] => d = e
        BY <1>1, <1>3, <3>1, <3>2
      <3>. QED BY <1>1, <3>1, <3>2, <3>3, <3>4
    <2>. QED BY <2>1, <2>2
  <1>. HIDE DEF o, m, r, h
  <1>5. Apart(r, m, h) BY <1>1, <1>2, <1>3, <1>4 DEF Apart
  <1>. QED BY <1>5 DEF o, m, r, h

\* ... as does handing it back.
LEMMA GivingKeepsApart ==
    ASSUME NEW free, NEW made, NEW hand, Apart(free, made, hand),
           NEW c \in Sent, hand[c] # << >>
    PROVE  Apart(hand[c] \o free, made, [hand EXCEPT ![c] = << >>])
  <1> DEFINE o == hand[c][1]
             r == hand[c] \o free
             h == [hand EXCEPT ![c] = << >>]
  <1>1. /\ made \in Nat /\ free \in Seq(1 .. made)
        /\ \A i, j \in 1 .. Len(free) : free[i] = free[j] => i = j
        /\ hand[c] = <<o>> /\ o \in 1 .. made
        /\ \A i \in 1 .. Len(free) : free[i] # o
    BY DEF Apart
  <1>2. \A d \in Sent : h[d] # << >> =>
          /\ d # c /\ h[d] = hand[d] /\ h[d] = <<h[d][1]>> /\ h[d][1] \in 1 .. made
          /\ h[d][1] # o
          /\ \A i \in 1 .. Len(free) : free[i] # h[d][1]
          /\ \A e \in Sent : h[e] # << >> /\ h[d][1] = h[e][1] => d = e
    BY DEF Apart
  <1>3. DOMAIN h = Sent BY DEF Apart
  <1>4. /\ r \in Seq(1 .. made) /\ Len(r) = Len(free) + 1 /\ Len(free) \in Nat
        /\ r[1] = o /\ \A i \in 2 .. Len(r) : r[i] = free[i - 1]
    <2> HIDE DEF o
    <2>1. r = <<o>> \o free BY <1>1
    <2>2. <<o>> \in Seq(1 .. made) BY <1>1
    <2> HIDE DEF r
    <2>. QED BY <1>1, <2>1, <2>2
  <1>. HIDE DEF o, r, h
  <1>5. \A i \in 1 .. Len(r) : i = 1 \/ (i \in 2 .. Len(r) /\ i - 1 \in 1 .. Len(free))
    BY <1>4
  <1>6. \A i, j \in 1 .. Len(r) : r[i] = r[j] => i = j
    <2>0. \A i \in 2 .. Len(r) : i \in Int /\ i - 1 \in 1 .. Len(free) /\ r[i] = free[i - 1]
      BY <1>4
    <2>1. \A i \in 2 .. Len(r) : r[i] # r[1] BY <1>1, <1>4, <2>0
    <2>2. ASSUME NEW i \in 2 .. Len(r), NEW j \in 2 .. Len(r), r[i] = r[j] PROVE i = j
      <3>1. i - 1 \in 1 .. Len(free) /\ j - 1 \in 1 .. Len(free) /\ free[i - 1] = free[j - 1]
        BY <2>0, <2>2
      <3>2. i - 1 = j - 1 BY <1>1, <3>1
      <3>. QED BY <2>0, <3>2
    <2>. QED BY <2>1, <2>2, <1>5
  <1>7. \A d \in Sent : h[d] # << >> => \A i \in 1 .. Len(r) : r[i] # h[d][1]
    BY <1>2, <1>4, <1>5
  <1>8. Apart(r, made, h) BY <1>1, <1>2, <1>3, <1>4, <1>6, <1>7 DEF Apart
  <1>. QED BY <1>8 DEF r, h

\* The reader that gives up leaves its object to nobody.
LEMMA DroppingKeepsApart ==
    ASSUME NEW free, NEW made, NEW hand, Apart(free, made, hand), NEW c \in Sent
    PROVE  Apart(free, made, [hand EXCEPT ![c] = << >>])
  <1> DEFINE h == [hand EXCEPT ![c] = << >>]
  <1>1. DOMAIN h = Sent
        /\ \A d \in Sent : h[d] # << >> => d # c /\ h[d] = hand[d] /\ hand[d] # << >>
    BY DEF Apart
  <1>. HIDE DEF h
  <1>2. Apart(free, made, h) BY <1>1 DEF Apart
  <1>. QED BY <1>2 DEF h

CodecTypeOK ==
    /\ stage \in [Sent -> {"unread", "reading", "called", "filled", "written",
                           "freed", "done", "lost"}]
    /\ serverSeq \in [Links -> Nat] /\ DOMAIN pending = Links
    /\ answered \in [Links -> Seq(Nat)]
    /\ DOMAIN reqSeq = 1 .. madeReq /\ DOMAIN respSeq = 1 .. madeResp

\* Who holds a Request and who a Response, none of them in two hands.
HandsInv ==
    /\ Apart(freeReq, madeReq, request) /\ Apart(freeResp, madeResp, resp)
    /\ \A c \in Sent :
        /\ request[c] # << >> <=> stage[c] \in {"reading", "called", "filled", "written", "freed"}
        /\ resp[c] # << >> <=> stage[c] \in {"filled", "written"}

Pends(waiting, c, s) == s \in DOMAIN waiting[c[1]] /\ waiting[c[1]][s] = c[2]

\* The number that a request carries stands for the id its client gave it.
NumbersInv ==
    /\ \A k \in Links : \A s \in DOMAIN pending[k] : s \in Nat /\ s <= serverSeq[k]
    /\ \A c \in Sent :
        /\ stage[c] = "called" => Pends(pending, c, reqSeq[request[c][1]])
        /\ stage[c] = "filled" => Pends(pending, c, respSeq[resp[c][1]])

CodecInv == CodecTypeOK /\ HandsInv /\ NumbersInv /\ AnsweredOnce

LEMMA SentIs ==
    \A c \in Sent : c[1] \in Links /\ c[2] \in Nat /\ c = <<c[1], c[2]>>
  <1>1. MaxSent \in Nat \ {0} /\ Busy \in Links BY CodecAssumption DEF CodecAssumption
  <1>2. \A n \in 1 .. MaxSent : n \in Nat BY <1>1
  <1>. QED BY <1>1, <1>2 DEF Sent

LEMMA CodecStarts == CodecInit => CodecInv
  <1>. SUFFICES ASSUME CodecInit PROVE CodecInv OBVIOUS
  <1>1. CodecTypeOK BY DEF CodecInit, CodecTypeOK
  <1>2. HandsInv BY DEF CodecInit, HandsInv, Apart
  <1>3. NumbersInv BY DEF CodecInit, NumbersInv
  <1>4. AnsweredOnce
    <2>1. \A c \in Sent : TimesAnswered(c[1], c[2]) = {}
      BY SentIs DEF CodecInit, TimesAnswered
    <2>. QED BY <2>1 DEF CodecInit, AnsweredOnce
  <1>. QED BY <1>1, <1>2, <1>3, <1>4 DEF CodecInv

\* A step that answers nobody.
LEMMA UnansweredKeeps ==
    ASSUME AnsweredOnce, UNCHANGED answered,
           \A c \in Sent : stage'[c] \in {"written", "freed", "done"}
                       <=> stage[c] \in {"written", "freed", "done"}
    PROVE  AnsweredOnce'
  BY DEF AnsweredOnce, TimesAnswered

LEMMA GetRequestKeeps ==
    ASSUME CodecInv, NEW c \in Sent, GetRequest(c) PROVE CodecInv'
  <1>1. CodecTypeOK /\ HandsInv /\ NumbersInv /\ AnsweredOnce BY DEF CodecInv
  <1> DEFINE o == Taken(freeReq, madeReq)
  <1>2. /\ stage[c] = "unread" /\ stage' = [stage EXCEPT ![c] = "reading"]
        /\ request' = [request EXCEPT ![c] = <<o>>] /\ reqSeq' = Put(reqSeq, o, 0)
        /\ freeReq' = Rest(freeReq) /\ madeReq' = Made(freeReq, madeReq)
        /\ UNCHANGED <<wireVars, respVars>>
    BY DEF GetRequest, Moves
  <1>3. Apart(freeReq, madeReq, request) /\ request[c] = << >>
    BY <1>1, <1>2 DEF HandsInv
  <1>4. /\ 1 .. madeReq' = 1 .. madeReq \cup {o}
        /\ \A d \in Sent : request[d] # << >> => request[d][1] # o
    BY <1>2, <1>3, TakenIsFree
  <1>5. Apart(freeReq', madeReq', request') BY <1>2, <1>3, TakingKeepsApart
  <1>. HIDE DEF o
  <1>6. DOMAIN request = Sent /\ DOMAIN stage = Sent BY <1>1, <1>3 DEF Apart, CodecTypeOK
  <1>7. /\ stage'[c] = "reading" /\ request'[c] # << >>
        /\ \A d \in Sent \ {c} : stage'[d] = stage[d] /\ request'[d] = request[d]
    BY <1>2, <1>6
  <1>8. CodecTypeOK' BY <1>1, <1>2, <1>4 DEF CodecTypeOK, wireVars, respVars, Put
  <1>9. HandsInv' BY <1>1, <1>2, <1>5, <1>7 DEF HandsInv, respVars
  <1>10. \A d \in Sent : request[d] # << >> => reqSeq'[request[d][1]] = reqSeq[request[d][1]]
    BY <1>1, <1>2, <1>3, <1>4 DEF Put, CodecTypeOK, Apart
  <1>11. NumbersInv'
    BY <1>1, <1>2, <1>7, <1>10 DEF NumbersInv, HandsInv, wireVars, respVars
  <1>12. AnsweredOnce' BY <1>1, <1>2, <1>7, UnansweredKeeps DEF wireVars
  <1>. QED BY <1>8, <1>9, <1>11, <1>12 DEF CodecInv

LEMMA ReadRequestKeeps ==
    ASSUME CodecInv, NEW c \in Sent, ReadRequest(c) PROVE CodecInv'
  <1>1. CodecTypeOK /\ HandsInv /\ NumbersInv /\ AnsweredOnce BY DEF CodecInv
  <1>2. c[1] \in Links BY SentIs
  <1>3. PICK k \in Links : k = c[1] BY <1>2
  <1>4. PICK s : s = serverSeq[k] + 1 OBVIOUS
  <1>5. PICK o : o = request[c][1] OBVIOUS
  <1>6. /\ stage[c] = "reading" /\ stage' = [stage EXCEPT ![c] = "called"]
        /\ serverSeq' = [serverSeq EXCEPT ![k] = s]
        /\ pending' = [pending EXCEPT ![k] = Put(pending[k], s, c[2])]
        /\ reqSeq' = [reqSeq EXCEPT ![o] = s]
        /\ UNCHANGED <<answered, freeReq, madeReq, request, respVars>>
    BY <1>3, <1>4, <1>5 DEF ReadRequest, Moves
  <1>7. /\ stage'[c] = "called" /\ \A d \in Sent \ {c} : stage'[d] = stage[d]
    BY <1>1, <1>6 DEF CodecTypeOK
  <1>8. serverSeq[k] \in Nat /\ s \in Nat /\ s > serverSeq[k]
    BY <1>1, <1>4 DEF CodecTypeOK
  <1>9. /\ s \notin DOMAIN pending[k]
        /\ DOMAIN pending'[k] = DOMAIN pending[k] \cup {s}
        /\ pending'[k][s] = c[2]
        /\ \A t \in DOMAIN pending[k] : pending'[k][t] = pending[k][t]
        /\ \A j \in Links \ {k} : pending'[j] = pending[j]
    <2>1. s \notin DOMAIN pending[k] BY <1>1, <1>8 DEF NumbersInv
    <2>2. pending'[k] = Put(pending[k], s, c[2]) /\ \A j \in Links \ {k} : pending'[j] = pending[j]
      BY <1>1, <1>6 DEF CodecTypeOK
    <2>. QED BY <2>1, <2>2 DEF Put
  <1>10. o \in DOMAIN reqSeq /\ \A d \in Sent \ {c} : request[d] # << >> => request[d][1] # o
    BY <1>1, <1>5, <1>6 DEF HandsInv, Apart, CodecTypeOK
  <1>11. CodecTypeOK'
    <2>1. serverSeq' \in [Links -> Nat] BY <1>1, <1>6, <1>8 DEF CodecTypeOK
    <2>. QED BY <1>1, <1>6, <2>1 DEF CodecTypeOK, respVars
  <1>12. HandsInv' BY <1>1, <1>6, <1>7 DEF HandsInv, respVars
  <1>13. \A j \in Links : \A t \in DOMAIN pending'[j] : t \in Nat /\ t <= serverSeq'[j]
    <2>1. serverSeq'[k] = s /\ \A j \in Links \ {k} : serverSeq'[j] = serverSeq[j]
      BY <1>1, <1>6 DEF CodecTypeOK
    <2>2. \A t \in DOMAIN pending'[k] : t \in Nat /\ t <= s
      BY <1>1, <1>8, <1>9 DEF NumbersInv
    <2>. QED BY <1>1, <1>9, <2>1, <2>2 DEF NumbersInv
  <1>14. \A d \in Sent : \A t : Pends(pending, d, t) => Pends(pending', d, t)
    BY <1>9, SentIs DEF Pends
  <1>15. ASSUME NEW d \in Sent
         PROVE  /\ stage'[d] = "called" => Pends(pending', d, reqSeq'[request[d][1]])
                /\ stage'[d] = "filled" => Pends(pending', d, respSeq[resp[d][1]])
    <2>1. CASE d = c
      <3>1. reqSeq'[request[c][1]] = s BY <1>5, <1>6, <1>10
      <3>2. Pends(pending', c, s) BY <1>3, <1>9 DEF Pends
      <3>. QED BY <1>7, <2>1, <3>1, <3>2
    <2>2. CASE d # c
      <3>1. stage[d] = "called" => reqSeq'[request[d][1]] = reqSeq[request[d][1]]
        BY <1>1, <1>6, <1>10, <2>2 DEF HandsInv
      <3>. QED BY <1>1, <1>7, <1>14, <2>2, <3>1 DEF NumbersInv
    <2>. QED BY <2>1, <2>2
  <1>16. NumbersInv' BY <1>6, <1>13, <1>15 DEF NumbersInv, respVars
  <1>17. AnsweredOnce' BY <1>1, <1>6, <1>7, UnansweredKeeps
  <1>. QED BY <1>11, <1>12, <1>16, <1>17 DEF CodecInv

LEMMA HeaderFailsKeeps ==
    ASSUME CodecInv, NEW c \in Sent, HeaderFails(c) PROVE CodecInv'
  <1>1. CodecTypeOK /\ HandsInv /\ NumbersInv /\ AnsweredOnce BY DEF CodecInv
  <1>2. /\ stage[c] = "reading" /\ stage' = [stage EXCEPT ![c] = "lost"]
        /\ request' = [request EXCEPT ![c] = << >>]
        /\ UNCHANGED <<wireVars, freeReq, madeReq, reqSeq, respVars>>
    BY DEF HeaderFails, Moves
  <1>3. Apart(freeReq, madeReq, request') BY <1>1, <1>2, DroppingKeepsApart DEF HandsInv
  <1>4. /\ stage'[c] = "lost" /\ request'[c] = << >>
        /\ \A d \in Sent \ {c} : stage'[d] = stage[d] /\ request'[d] = request[d]
    BY <1>1, <1>2 DEF CodecTypeOK, HandsInv, Apart
  <1>5. CodecTypeOK' BY <1>1, <1>2 DEF CodecTypeOK, wireVars, respVars
  <1>6. HandsInv' BY <1>1, <1>2, <1>3, <1>4 DEF HandsInv, respVars
  <1>7. NumbersInv' BY <1>1, <1>2, <1>4 DEF NumbersInv, wireVars, respVars
  <1>8. AnsweredOnce' BY <1>1, <1>2, <1>4, UnansweredKeeps DEF wireVars
  <1>. QED BY <1>5, <1>6, <1>7, <1>8 DEF CodecInv

LEMMA ServerGetResponseKeeps ==
    ASSUME CodecInv, NEW c \in Sent, ServerGetResponse(c) PROVE CodecInv'
  <1>1. CodecTypeOK /\ HandsInv /\ NumbersInv /\ AnsweredOnce BY DEF CodecInv
  <1> DEFINE o == Taken(freeResp, madeResp)
  <1>2. /\ stage[c] = "called" /\ stage' = [stage EXCEPT ![c] = "filled"]
        /\ resp' = [resp EXCEPT ![c] = <<o>>]
        /\ respSeq' = Put(respSeq, o, reqSeq[request[c][1]])
        /\ freeResp' = Rest(freeResp) /\ madeResp' = Made(freeResp, madeResp)
        /\ UNCHANGED <<wireVars, reqVars>>
    BY DEF ServerGetResponse, Moves
  <1>3. Apart(freeResp, madeResp, resp) /\ resp[c] = << >>
    BY <1>1, <1>2 DEF HandsInv
  <1>4. /\ 1 .. madeResp' = 1 .. madeResp \cup {o}
        /\ \A d \in Sent : resp[d] # << >> => resp[d][1] # o /\ resp[d][1] \in 1 .. madeResp
    BY <1>2, <1>3, TakenIsFree DEF Apart
  <1>5. Apart(freeResp', madeResp', resp') BY <1>2, <1>3, TakingKeepsApart
  <1>. HIDE DEF o
  <1>6. /\ stage'[c] = "filled" /\ resp'[c] = <<o>>
        /\ \A d \in Sent \ {c} : stage'[d] = stage[d] /\ resp'[d] = resp[d]
    BY <1>1, <1>2, <1>3 DEF CodecTypeOK, Apart
  <1>7. CodecTypeOK' BY <1>1, <1>2, <1>4 DEF CodecTypeOK, wireVars, reqVars, Put
  <1>8. resp'[c] # << >> BY <1>6
  <1>9. HandsInv' BY <1>1, <1>2, <1>5, <1>6, <1>8 DEF HandsInv, reqVars
  <1>10. ASSUME NEW d \in Sent
         PROVE  /\ stage'[d] = "called" => Pends(pending, d, reqSeq[request[d][1]])
                /\ stage'[d] = "filled" => Pends(pending, d, respSeq'[resp'[d][1]])
    <2>1. CASE d = c
      <3>1. resp'[d][1] = o /\ respSeq'[o] = reqSeq[request[c][1]]
        BY <1>2, <1>6, <2>1 DEF Put
      <3>. QED BY <1>1, <1>2, <1>6, <2>1, <3>1 DEF NumbersInv
    <2>2. CASE d # c
      <3>1. stage[d] = "filled" => respSeq'[resp[d][1]] = respSeq[resp[d][1]]
        BY <1>1, <1>2, <1>4 DEF HandsInv, Put, CodecTypeOK
      <3>. QED BY <1>1, <1>6, <2>2, <3>1 DEF NumbersInv
    <2>. QED BY <2>1, <2>2
  <1>11. NumbersInv' BY <1>1, <1>2, <1>10 DEF NumbersInv, wireVars, reqVars
  <1>12. AnsweredOnce' BY <1>1, <1>2, <1>6, UnansweredKeeps DEF wireVars
  <1>. QED BY <1>7, <1>9, <1>11, <1>12 DEF CodecInv

LEMMA WriteResponseKeeps ==
    ASSUME CodecInv, NEW c \in Sent, WriteResponse(c) PROVE CodecInv'
  <1>1. CodecTypeOK /\ HandsInv /\ NumbersInv /\ AnsweredOnce BY DEF CodecInv
  <1>2. stage[c] = "filled" /\ stage' = [stage EXCEPT ![c] = "written"]
    BY DEF WriteResponse, Moves
  <1>3. PICK k \in Links : k = c[1] BY SentIs
  <1>4. PICK s : s = respSeq[resp[c][1]] OBVIOUS
  \* The number is still pending, and stands for c alone.
  <1>5. s \in DOMAIN pending[k] /\ pending[k][s] = c[2]
    BY <1>1, <1>2, <1>3, <1>4 DEF NumbersInv, Pends
  <1>6. /\ pending' = [pending EXCEPT ![k] = [t \in DOMAIN pending[k] \ {s} |-> pending[k][t]]]
        /\ answered' = [answered EXCEPT ![k] = Append(answered[k], c[2])]
        /\ UNCHANGED <<serverSeq, reqVars, respVars>>
    BY <1>3, <1>4, <1>5 DEF WriteResponse
  <1>7. /\ stage'[c] = "written" /\ \A d \in Sent \ {c} : stage'[d] = stage[d]
    BY <1>1, <1>2 DEF CodecTypeOK
  <1>8. /\ DOMAIN pending'[k] = DOMAIN pending[k] \ {s}
        /\ \A t \in DOMAIN pending'[k] : pending'[k][t] = pending[k][t]
        /\ \A j \in Links \ {k} : pending'[j] = pending[j]
    BY <1>1, <1>6 DEF CodecTypeOK
  <1>9. CodecTypeOK'
    <2>1. answered' \in [Links -> Seq(Nat)]
      BY <1>1, <1>6, SentIs DEF CodecTypeOK
    <2>. QED BY <1>1, <1>2, <1>6, <2>1 DEF CodecTypeOK, reqVars, respVars
  <1>10. HandsInv'
    <2>1. request[c] # << >> /\ resp[c] # << >> BY <1>1, <1>2 DEF HandsInv
    <2>. QED BY <1>1, <1>6, <1>7, <2>1 DEF HandsInv, reqVars, respVars
  <1>11. ASSUME NEW d \in Sent \ {c}, NEW t, Pends(pending, d, t) PROVE Pends(pending', d, t)
    <2>1. d[1] = k => d[2] # c[2] BY <1>3, SentIs
    <2>. QED BY <1>5, <1>8, <1>11, <2>1, SentIs DEF Pends
  <1>12. NumbersInv'
    <2>1. \A j \in Links : \A t \in DOMAIN pending'[j] : t \in Nat /\ t <= serverSeq[j]
      BY <1>1, <1>8 DEF NumbersInv
    <2>2. ASSUME NEW d \in Sent
          PROVE  /\ stage'[d] = "called" => Pends(pending', d, reqSeq[request[d][1]])
                 /\ stage'[d] = "filled" => Pends(pending', d, respSeq[resp[d][1]])
      BY <1>1, <1>7, <1>11 DEF NumbersInv
    <2>. QED BY <1>6, <2>1, <2>2 DEF NumbersInv, reqVars, respVars
  <1>13. AnsweredOnce'
    <2>1. PICK a \in Seq(Nat) : a = answered[k] BY <1>1 DEF CodecTypeOK
    <2>2. /\ answered'[k] = Append(a, c[2]) /\ c[2] \in Nat
          /\ \A j \in Links \ {k} : answered'[j] = answered[j]
      BY <1>1, <1>6, <2>1, SentIs DEF CodecTypeOK
    <2>3. /\ Len(a) \in Nat /\ Len(answered'[k]) = Len(a) + 1
          /\ answered'[k][Len(a) + 1] = c[2]
          /\ \A i \in 1 .. Len(a) : answered'[k][i] = a[i]
      BY <2>1, <2>2
    <2>4. TimesAnswered(c[1], c[2]) = {} BY <1>1, <1>2 DEF AnsweredOnce
    <2>5. \A i \in 1 .. Len(a) : a[i] # c[2] BY <1>3, <2>1, <2>4 DEF TimesAnswered
    <2>6. 1 .. Len(a) + 1 = 1 .. Len(a) \cup {Len(a) + 1} BY <2>3
    <2>7. TimesAnswered(c[1], c[2])' = {Len(a) + 1}
      BY <1>3, <2>3, <2>5, <2>6 DEF TimesAnswered
    <2>8. ASSUME NEW d \in Sent \ {c}
          PROVE  TimesAnswered(d[1], d[2])' = TimesAnswered(d[1], d[2])
      <3>1. CASE d[1] = k
        <4>1. d[2] # c[2] BY <1>3, <3>1, SentIs
        <4>. QED BY <2>1, <2>3, <2>6, <3>1, <4>1 DEF TimesAnswered
      <3>2. CASE d[1] # k
        BY <2>2, <3>2, SentIs DEF TimesAnswered
      <3>. QED BY <3>1, <3>2
    <2>9. ASSUME NEW d \in Sent
          PROVE  /\ \A i, j \in TimesAnswered(d[1], d[2])' : i = j
                 /\ stage'[d] \in {"written", "freed", "done"}
                      <=> TimesAnswered(d[1], d[2])' # {}
      <3>1. CASE d = c BY <1>7, <2>7, <3>1
      <3>2. CASE d # c
        <4>1. stage'[d] = stage[d] BY <1>7, <3>2
        <4>2. TimesAnswered(d[1], d[2])' = TimesAnswered(d[1], d[2]) BY <2>8, <3>2
        <4>3. /\ \A i, j \in TimesAnswered(d[1], d[2]) : i = j
              /\ stage[d] \in {"written", "freed", "done"} <=> TimesAnswered(d[1], d[2]) # {}
          BY <1>1 DEF AnsweredOnce
        <4>. QED BY <4>1, <4>2, <4>3
      <3>. QED BY <3>1, <3>2
    <2>. QED BY <2>9 DEF AnsweredOnce
  <1>. QED BY <1>9, <1>10, <1>12, <1>13 DEF CodecInv

LEMMA FreeResponseKeeps ==
    ASSUME CodecInv, NEW c \in Sent, FreeResponse(c) PROVE CodecInv'
  <1>1. CodecTypeOK /\ HandsInv /\ NumbersInv /\ AnsweredOnce BY DEF CodecInv
  <1>2. /\ stage[c] = "written" /\ stage' = [stage EXCEPT ![c] = "freed"]
        /\ freeResp' = resp[c] \o freeResp /\ resp' = [resp EXCEPT ![c] = << >>]
        /\ UNCHANGED <<wireVars, reqVars, madeResp, respSeq>>
    BY DEF FreeResponse, Moves
  <1>3. Apart(freeResp, madeResp, resp) /\ resp[c] # << >> BY <1>1, <1>2 DEF HandsInv
  <1>4. Apart(freeResp', madeResp, resp') BY <1>2, <1>3, GivingKeepsApart
  <1>5. /\ stage'[c] = "freed" /\ resp'[c] = << >>
        /\ \A d \in Sent \ {c} : stage'[d] = stage[d] /\ resp'[d] = resp[d]
    BY <1>1, <1>2, <1>3 DEF CodecTypeOK, Apart
  <1>6. CodecTypeOK' BY <1>1, <1>2 DEF CodecTypeOK, wireVars, reqVars
  <1>7. HandsInv' BY <1>1, <1>2, <1>4, <1>5 DEF HandsInv, reqVars
  <1>8. NumbersInv' BY <1>1, <1>2, <1>5 DEF NumbersInv, wireVars, reqVars
  <1>9. AnsweredOnce' BY <1>1, <1>2, <1>5, UnansweredKeeps DEF wireVars
  <1>. QED BY <1>6, <1>7, <1>8, <1>9 DEF CodecInv

LEMMA FreeRequestKeeps ==
    ASSUME CodecInv, NEW c \in Sent, FreeRequest(c) PROVE CodecInv'
  <1>1. CodecTypeOK /\ HandsInv /\ NumbersInv /\ AnsweredOnce BY DEF CodecInv
  <1>2. /\ stage[c] = "freed" /\ stage' = [stage EXCEPT ![c] = "done"]
        /\ freeReq' = request[c] \o freeReq /\ request' = [request EXCEPT ![c] = << >>]
        /\ UNCHANGED <<wireVars, madeReq, reqSeq, respVars>>
    BY DEF FreeRequest, Moves
  <1>3. Apart(freeReq, madeReq, request) /\ request[c] # << >> BY <1>1, <1>2 DEF HandsInv
  <1>4. Apart(freeReq', madeReq, request') BY <1>2, <1>3, GivingKeepsApart
  <1>5. /\ stage'[c] = "done" /\ request'[c] = << >>
        /\ \A d \in Sent \ {c} : stage'[d] = stage[d] /\ request'[d] = request[d]
    BY <1>1, <1>2, <1>3 DEF CodecTypeOK, Apart
  <1>6. CodecTypeOK' BY <1>1, <1>2 DEF CodecTypeOK, wireVars, respVars
  <1>7. HandsInv' BY <1>1, <1>2, <1>4, <1>5 DEF HandsInv, respVars
  <1>8. NumbersInv' BY <1>1, <1>2, <1>5 DEF NumbersInv, wireVars, respVars
  <1>9. AnsweredOnce' BY <1>1, <1>2, <1>5, UnansweredKeeps DEF wireVars
  <1>. QED BY <1>6, <1>7, <1>8, <1>9 DEF CodecInv

LEMMA CodecSteps == CodecInv /\ [CodecNext]_codecVars => CodecInv'
  <1>. SUFFICES ASSUME CodecInv, [CodecNext]_codecVars PROVE CodecInv' OBVIOUS
  <1>1. ASSUME NEW c \in Sent,
               GetRequest(c) \/ ReadRequest(c) \/ HeaderFails(c) \/ SendResponse(c)
        PROVE  CodecInv'
    BY <1>1, GetRequestKeeps, ReadRequestKeeps, HeaderFailsKeeps, ServerGetResponseKeeps,
       WriteResponseKeeps, FreeResponseKeeps, FreeRequestKeeps DEF SendResponse
  <1>2. CASE UNCHANGED codecVars
    BY <1>2 DEF codecVars, wireVars, reqVars, respVars, CodecInv, CodecTypeOK, HandsInv,
                NumbersInv, AnsweredOnce, TimesAnswered
  <1>. QED BY <1>1, <1>2 DEF CodecNext

\* Types; a Request and a Response are in one hand or in the free list, never
\* in two places; and the number in them stands, in the connection's pending,
\* for the id the client gave (net.go serverCodec, getRequest, freeRequest).
THEOREM CodecInvariant == CodecSpec => []CodecInv
  BY CodecStarts, CodecSteps, PTL DEF CodecSpec

\* Every request whose header was read is answered once, on its connection and
\* with its id, whatever the number of connections and requests (net.go).
THEOREM CodecAnswersOnce == CodecSpec => []AnsweredOnce
  <1>1. CodecInv => AnsweredOnce BY DEF CodecInv
  <1>. QED BY <1>1, CodecInvariant, PTL

-----------------------------------------------------------------------------
(* The daily timer.                                                        *)

LEMMA DayBounds ==
    /\ Hour \in Int /\ Day \in Int /\ RunAt \in Int /\ MaxRun \in Int
    /\ Day \in Nat \ {0} /\ 0 < Hour /\ Hour <= RunAt /\ RunAt <= Day - Hour - 2
    /\ 0 <= MaxRun /\ MaxRun <= Day - 2 * Hour - 3
  BY DayAssumption DEF DayAssumption

\* The first step of a date.
First(d) == d * Day

LEMMA DateIs ==
    ASSUME NEW n \in Int
    PROVE  /\ n \div Day \in Int /\ First(n \div Day) \in Int
           /\ First(n \div Day) <= n /\ n < First(n \div Day) + Day
           /\ n = First(n \div Day) + (n % Day) /\ n % Day \in Int
  BY DayBounds DEF First

LEMMA FirstOfNext == \A d \in Int : First(d) \in Int /\ First(d + 1) = First(d) + Day
  BY DayBounds DEF First

\* A later date begins later.
LEMMA LaterDate ==
    ASSUME NEW d \in Int, NEW e \in Int, d < e PROVE First(d) + Day <= First(e)
  <1>1. PICK k \in Nat : e = d + 1 + k BY e - d - 1 \in Nat
  <1>2. First(e) = First(d) + Day + k * Day BY <1>1, DayBounds DEF First
  <1>3. k * Day >= 0 /\ k * Day \in Int BY DayBounds
  <1>. QED BY <1>2, <1>3, FirstOfNext, DayBounds

LEMMA DateOfNumber ==
    ASSUME NEW n \in Int, NEW d \in Int
    PROVE  /\ n < First(d) + Day => n \div Day <= d
           /\ First(d) <= n => d <= n \div Day
  <1>1. \A e \in Int : First(e) \in Int BY FirstOfNext
  <1>2. ASSUME n < First(d) + Day PROVE n \div Day <= d
    <2>1. SUFFICES ASSUME d < n \div Day PROVE FALSE BY <1>2, DateIs
    <2>2. First(d) + Day <= First(n \div Day) BY <2>1, LaterDate, DateIs
    <2>3. First(n \div Day) <= n /\ First(n \div Day) \in Int BY DateIs
    <2>. QED BY <1>1, <1>2, <2>2, <2>3, DayBounds
  <1>3. ASSUME First(d) <= n PROVE d <= n \div Day
    <2>1. SUFFICES ASSUME n \div Day < d PROVE FALSE BY <1>3, DateIs
    <2>2. First(n \div Day) + Day <= First(d) BY <2>1, LaterDate, DateIs
    <2>3. n < First(n \div Day) + Day /\ First(n \div Day) \in Int BY DateIs
    <2>. QED BY <1>1, <1>3, <2>2, <2>3, DayBounds
  <1>. QED BY <1>2, <1>3

DayTypeOK ==
    /\ change \in Nat /\ by \in {-Hour, 0, Hour}
    /\ unix \in Int /\ wakeAt \in Int /\ ran \in Int
    /\ day \in {"aim", "wait", "running", "pause", "over"}
    /\ dates \in [0 .. MaxDays -> Nat]

\* The function has been called on each date up to d.
Called(d) == \A e \in 1 .. MaxDays : e <= d => dates[e] > 0

\* d: the last date it has been called on, and the clock has not come to
\* hour:minute of the date after the next.
AimInv(d) ==
    /\ Called(d) /\ First(d) <= Local(unix) /\ Local(unix) < First(d + 1) + RunAt

\* d: the date the loop waits for.  When the clock is put back over hour:minute
\* the loop may aim at what has passed.
WaitInv(d) ==
    /\ Called(d - 1) /\ wakeAt = Midnight(d) + RunAt
    /\ \/ unix <= wakeAt + 1
       \/ change <= unix /\ First(d) <= Local(unix) /\ Local(unix) < First(d) + RunAt

\* d: the date of the call.  It runs past midnight at most, whatever the clock.
RunInv(d) ==
    /\ Called(d) /\ wakeAt = Midnight(d) + RunAt /\ wakeAt < unix
    /\ 0 <= ran /\ ran <= MaxRun
    /\ \/ unix <= wakeAt + 1 + ran
       \/ change <= unix /\ Local(unix) < First(d) + RunAt + ran

DayInv ==
    /\ DayTypeOK
    /\ day = "aim" => \E d \in Int : AimInv(d)
    /\ day = "wait" => \E d \in Int : WaitInv(d)
    /\ day \in {"running", "pause"} => \E d \in Int : RunInv(d)

\* The local clock and the midnights, without their multiplications.
LEMMA Offset ==
    ASSUME DayTypeOK
    PROVE  by \in Int /\ change \in Int /\ -Hour <= by /\ by <= Hour
  BY DayBounds DEF DayTypeOK

LEMMA LocalIs ==
    ASSUME DayTypeOK, NEW u \in Int
    PROVE  Local(u) \in Int /\ Local(u) = IF change <= u THEN u + by ELSE u
  BY Offset DEF Local

LEMMA MidnightIs ==
    ASSUME DayTypeOK, NEW d \in Int
    PROVE  /\ Midnight(d) = IF First(d) < change THEN First(d) ELSE First(d) - by
           /\ First(d) \in Int /\ Midnight(d) \in Int /\ First(d + 1) = First(d) + Day
  <1>1. Midnight(d) = IF First(d) < change THEN First(d) ELSE First(d) - by
    BY DEF Midnight, First
  <1>. QED BY <1>1, Offset, FirstOfNext

LEMMA DateBetween ==
    ASSUME DayTypeOK, NEW d \in Int, NEW u \in Int
    PROVE  /\ Date(u) \in Int
           /\ Local(u) < First(d) + Day => Date(u) <= d
           /\ First(d) <= Local(u) => d <= Date(u)
  BY LocalIs, DateOfNumber, DateIs DEF Date

\* Once hour:minute of a date has passed, so has its midnight.
LEMMA PastMidnight ==
    ASSUME DayTypeOK, NEW d \in Int, NEW u \in Int, Midnight(d) + RunAt < u
    PROVE  First(d) <= Local(u)
  <1>1. Midnight(d) = (IF First(d) < change THEN First(d) ELSE First(d) - by) /\ First(d) \in Int
    BY MidnightIs
  <1>2. Local(u) = IF change <= u THEN u + by ELSE u BY LocalIs
  <1>. QED BY <1>1, <1>2, Offset, DayBounds

\* While it has not passed, the date has not either.
LEMMA WaitedDate ==
    ASSUME DayTypeOK, NEW d \in Int, WaitInv(d) PROVE Date(unix) <= d
  <1>1. Local(unix) < First(d) + Day
    <2>1. wakeAt = Midnight(d) + RunAt
          /\ \/ unix <= wakeAt + 1
             \/ Local(unix) < First(d) + RunAt
      BY DEF WaitInv
    <2>2. /\ Local(unix) = IF change <= unix THEN unix + by ELSE unix
          /\ Midnight(d) = IF First(d) < change THEN First(d) ELSE First(d) - by
          /\ First(d) \in Int /\ by \in Int /\ change \in Int
          /\ by <= Hour
      BY LocalIs, MidnightIs, Offset DEF DayTypeOK
    <2>. QED BY <2>1, <2>2, DayBounds DEF DayTypeOK
  <1>. QED BY <1>1, DateBetween DEF DayTypeOK

LEMMA RunBelow ==
    ASSUME DayTypeOK, NEW d \in Int, RunInv(d)
    PROVE  /\ First(d) <= Local(unix) /\ Date(unix) <= d + 1
  <1>0. unix \in Int BY DEF DayTypeOK
  <1>1. First(d) <= Local(unix) BY PastMidnight DEF RunInv, DayTypeOK
  <1>2. Local(unix) < First(d + 1) + Day
    <2>1. /\ wakeAt = Midnight(d) + RunAt /\ ran <= MaxRun /\ ran \in Int
          /\ \/ unix <= wakeAt + 1 + ran
             \/ Local(unix) < First(d) + RunAt + ran
      BY DEF RunInv, DayTypeOK
    <2>2. /\ Local(unix) = IF change <= unix THEN unix + by ELSE unix
          /\ Midnight(d) = IF First(d) < change THEN First(d) ELSE First(d) - by
          /\ First(d) \in Int /\ by \in Int /\ change \in Int
          /\ by <= Hour /\ First(d + 1) = First(d) + Day
      BY <1>0, LocalIs, MidnightIs, Offset
    <2>. QED BY <1>0, <2>1, <2>2, DayBounds
  <1>. QED BY <1>0, <1>1, <1>2, DateBetween

LEMMA DayHolds == DayInv => EveryDayRuns
  <1>. SUFFICES ASSUME DayInv, day # "over", NEW e \in 1 .. MaxDays, e < Date(unix)
       PROVE  dates[e] > 0
    BY DEF EveryDayRuns
  <1>0. DayTypeOK /\ e \in Int /\ unix \in Int BY DEF DayInv, DayTypeOK
  <1>1. CASE day = "aim"
    <2>1. PICK d \in Int : AimInv(d) BY <1>1 DEF DayInv
    <2>2. Local(unix) < First(d + 1) + Day
      BY <1>0, <2>1, LocalIs, MidnightIs, Offset, DayBounds DEF AimInv
    <2>3. Date(unix) <= d + 1 /\ Date(unix) \in Int BY <1>0, <2>2, DateBetween
    <2>. QED BY <1>0, <2>1, <2>3 DEF AimInv, Called
  <1>2. CASE day = "wait"
    <2>1. PICK d \in Int : WaitInv(d) BY <1>2 DEF DayInv
    <2>2. Date(unix) <= d /\ Date(unix) \in Int BY <1>0, <2>1, WaitedDate, DateBetween
    <2>. QED BY <1>0, <2>1, <2>2 DEF WaitInv, Called
  <1>3. CASE day \in {"running", "pause"}
    <2>1. PICK d \in Int : RunInv(d) BY <1>3 DEF DayInv
    <2>2. Date(unix) <= d + 1 /\ Date(unix) \in Int BY <1>0, <2>1, RunBelow, DateBetween
    <2>. QED BY <1>0, <2>1, <2>2 DEF RunInv, Called
  <1>. QED BY <1>0, <1>1, <1>2, <1>3 DEF DayTypeOK

LEMMA DayStarts == DayInit => DayInv
  <1>. SUFFICES ASSUME DayInit PROVE DayInv OBVIOUS
  <1>1. DayTypeOK BY DayAssumption, DayBounds DEF DayAssumption, DayInit, DayTypeOK
  <1>2. First(0) = 0 /\ First(1) = Day /\ First(-1) = -Day /\ -1 + 1 = 0 /\ 0 + 1 = 1
    BY DayBounds DEF First
  <1>3. Local(unix) \in Int /\ -Hour <= Local(unix) /\ Local(unix) <= Day - 1 + Hour
    <2>1. unix \in Int /\ 0 <= unix /\ unix <= Day - 1 BY DayBounds DEF DayInit
    <2>. QED BY <1>1, <2>1, LocalIs, Offset, DayBounds
  <1>4. CASE Local(unix) < 0
    <2>1. AimInv(-1) BY <1>2, <1>3, <1>4, DayBounds DEF AimInv, Called
    <2>. QED BY <1>1, <2>1 DEF DayInit, DayInv
  <1>5. CASE ~(Local(unix) < 0)
    <2>1. AimInv(0) BY <1>2, <1>3, <1>5, DayBounds DEF AimInv, Called
    <2>. QED BY <1>1, <2>1 DEF DayInit, DayInv
  <1>. QED BY <1>4, <1>5

LEMMA AimKeeps == ASSUME DayInv, Aim PROVE DayInv'
  <1>1. PICK d \in Int : AimInv(d) BY DEF DayInv, Aim
  <1>2. DayTypeOK /\ unix \in Int BY DEF DayInv, DayTypeOK
  <1>3. PICK e \in Int : e = Date(unix) BY <1>2, DateBetween
  <1>4. /\ First(e) <= Local(unix) /\ Local(unix) < First(e) + Day
        /\ TimeOfDay(unix) = Local(unix) - First(e)
    BY <1>2, <1>3, LocalIs, DateIs DEF Date, TimeOfDay
  <1>5. d <= e /\ e <= d + 1
    <2>1. Local(unix) < First(d + 1) + Day /\ First(d) <= Local(unix)
      BY <1>1, <1>2, LocalIs, MidnightIs, Offset, DayBounds DEF AimInv
    <2>. QED BY <1>2, <1>3, <2>1, DateBetween
  <1>6. UNCHANGED <<change, by, unix, ran, dates>> /\ day' = "wait" BY DEF Aim
  <1>7. \A t \in Int : /\ Midnight(t)' = Midnight(t) /\ First(t)' = First(t)
                       /\ Called(t)' <=> Called(t)
    BY <1>6 DEF Midnight, First, Called
  <1>8. Local(unix)' = Local(unix) BY <1>6 DEF Local
  <1>9. CASE TimeOfDay(unix) >= RunAt
    <2>1. wakeAt' = Midnight(e + 1) + RunAt BY <1>3, <1>9 DEF Aim
    <2>2. e = d
      <3>1. e # d + 1 BY <1>1, <1>2, <1>4, <1>9, LocalIs, MidnightIs, Offset, DayBounds DEF AimInv
      <3>. QED BY <1>5, <3>1
    <2>3. Called(e + 1 - 1) BY <1>1, <2>2 DEF AimInv
    <2>4. unix <= wakeAt' + 1
      <3>1. First(e + 1) = First(e) + Day /\ First(e) \in Int BY FirstOfNext
      <3>2. /\ Local(unix) = IF change <= unix THEN unix + by ELSE unix
            /\ Midnight(e + 1) = IF First(e + 1) < change THEN First(e + 1) ELSE First(e + 1) - by
            /\ by \in Int /\ change \in Int /\ -Hour <= by /\ by <= Hour
        BY <1>2, LocalIs, MidnightIs, Offset
      <3>. QED BY <1>2, <1>4, <2>1, <3>1, <3>2, DayBounds
    <2>5. WaitInv(e + 1)' BY <1>6, <1>7, <2>1, <2>3, <2>4 DEF WaitInv
    <2>6. wakeAt' \in Int BY <1>2, <2>1, MidnightIs, DayBounds
    <2>7. DayTypeOK' BY <1>2, <1>6, <2>6 DEF DayTypeOK
    <2>. QED BY <1>6, <2>5, <2>7 DEF DayInv
  <1>10. CASE ~(TimeOfDay(unix) >= RunAt)
    <2>1. wakeAt' = Midnight(e) + RunAt BY <1>3, <1>10 DEF Aim
    <2>2. Called(e - 1) BY <1>1, <1>5 DEF AimInv, Called
    <2>3. Local(unix) < First(e) + RunAt
      BY <1>2, <1>4, <1>10, LocalIs, MidnightIs, Offset, DayBounds
    <2>4. \/ unix <= wakeAt' + 1
          \/ change <= unix /\ First(e) <= Local(unix) /\ Local(unix) < First(e) + RunAt
      <3>1. /\ Local(unix) = IF change <= unix THEN unix + by ELSE unix
            /\ Midnight(e) = IF First(e) < change THEN First(e) ELSE First(e) - by
            /\ by \in Int /\ change \in Int /\ First(e) \in Int
        BY <1>2, LocalIs, MidnightIs, Offset
      <3>. QED BY <1>2, <1>4, <2>1, <2>3, <3>1, DayBounds
    <2>5. WaitInv(e)' BY <1>6, <1>7, <1>8, <2>1, <2>2, <2>4 DEF WaitInv
    <2>6. wakeAt' \in Int BY <1>2, <2>1, MidnightIs, DayBounds
    <2>7. DayTypeOK' BY <1>2, <1>6, <2>6 DEF DayTypeOK
    <2>. QED BY <1>6, <2>5, <2>7 DEF DayInv
  <1>. QED BY <1>9, <1>10

LEMMA TimeDayKeeps == ASSUME DayInv, TimeDay PROVE DayInv'
  <1>1. PICK d \in Int : WaitInv(d) BY DEF DayInv, TimeDay
  <1>2. DayTypeOK /\ unix \in Int BY DEF DayInv, DayTypeOK
  <1>3. Date(unix) = d
    <2>1. Date(unix) <= d BY <1>1, <1>2, WaitedDate
    <2>2. First(d) <= Local(unix) BY <1>1, <1>2, PastMidnight DEF WaitInv, TimeDay
    <2>. QED BY <1>2, <2>1, <2>2, DateBetween
  <1>4. /\ UNCHANGED <<change, by, unix, wakeAt>> /\ day' = "running" /\ ran' = 0
        /\ dates' = [dates EXCEPT ![d] = dates[d] + 1] /\ wakeAt < unix
    BY <1>2, <1>3 DEF TimeDay, DayTypeOK
  <1>5. dates' \in [0 .. MaxDays -> Nat]
        /\ \A e \in 1 .. MaxDays : dates'[e] = IF e = d THEN dates[e] + 1 ELSE dates[e]
    <2>1. dates \in [0 .. MaxDays -> Nat] BY <1>2 DEF DayTypeOK
    <2>2. d \in 0 .. MaxDays => dates[d] + 1 \in Nat BY <2>1
    <2>3. dates' = [dates EXCEPT ![d] = dates[d] + 1] BY <1>4
    <2>4. dates' \in [0 .. MaxDays -> Nat] BY <2>1, <2>2, <2>3
    <2>5. \A e \in 0 .. MaxDays : dates'[e] = IF e = d THEN dates[e] + 1 ELSE dates[e]
      BY <2>1, <2>3
    <2>6. \A e \in 1 .. MaxDays : e \in 0 .. MaxDays OBVIOUS
    <2>. QED BY <2>4, <2>5, <2>6
  <1>6. ASSUME NEW e \in 1 .. MaxDays, e <= d PROVE dates'[e] > 0
    <2>1. e \in 0 .. MaxDays /\ dates[e] \in Nat BY <1>2 DEF DayTypeOK
    <2>2. e # d => dates[e] > 0 BY <1>1, <1>6 DEF WaitInv, Called
    <2>. QED BY <1>5, <2>1, <2>2
  <1>7. Called(d)' BY <1>6 DEF Called
  <1>8. Midnight(d)' = Midnight(d) /\ Local(unix)' = Local(unix) /\ First(d)' = First(d)
    BY <1>4 DEF Midnight, Local, First
  <1>9. RunInv(d)'
    <2>1. wakeAt = Midnight(d) + RunAt /\ wakeAt \in Int
          /\ \/ unix <= wakeAt + 1
             \/ change <= unix /\ Local(unix) < First(d) + RunAt
      BY <1>1, <1>2 DEF WaitInv, DayTypeOK
    <2>2. 0 <= MaxRun /\ First(d) \in Int /\ First(d) + RunAt \in Int
      BY <1>2, MidnightIs, DayBounds
    <2>3. \/ unix <= wakeAt + 1 + 0
          \/ change <= unix /\ Local(unix) < First(d) + RunAt + 0
      BY <2>1, <2>2
    <2>. QED BY <1>4, <1>7, <1>8, <2>1, <2>2, <2>3 DEF RunInv
  <1>10. DayTypeOK' BY <1>2, <1>4, <1>5 DEF DayTypeOK
  <1>. QED BY <1>4, <1>9, <1>10 DEF DayInv

LEMMA DaySecondKeeps == ASSUME DayInv, DaySecond PROVE DayInv'
  <1>1. DayTypeOK /\ unix \in Int /\ wakeAt \in Int /\ ran \in Int BY DEF DayInv, DayTypeOK
  <1>2. unix' = unix + 1 /\ UNCHANGED <<change, by, wakeAt, dates>> BY DEF DaySecond
  <1>3. ran' \in Int /\ day' \in {"wait", "running", "aim"} BY <1>1 DEF DaySecond
  <1>4. DayTypeOK' BY <1>1, <1>2, <1>3 DEF DayTypeOK
  <1>5. \A t \in Int : /\ Midnight(t)' = Midnight(t) /\ First(t)' = First(t)
                       /\ Called(t)' <=> Called(t)
    BY <1>2 DEF Midnight, First, Called
  <1>6. Local(unix)' = Local(unix + 1) BY <1>2 DEF Local
  <1>7. change <= unix => Local(unix + 1) = Local(unix) + 1
    BY <1>1 DEF Local, DayTypeOK
  <1>8. CASE day = "wait" /\ unix <= wakeAt /\ UNCHANGED <<day, ran>>
    <2>1. PICK d \in Int : WaitInv(d) BY <1>8 DEF DayInv
    <2>2. WaitInv(d)' BY <1>1, <1>2, <1>5, <1>8, <2>1 DEF WaitInv
    <2>. QED BY <1>4, <1>8, <2>2 DEF DayInv
  <1>9. CASE day = "running" /\ ran < MaxRun /\ ran' = ran + 1 /\ UNCHANGED day
    <2>1. PICK d \in Int : RunInv(d) BY <1>9 DEF DayInv
    <2>2. Local(unix) \in Int /\ First(d) \in Int /\ change \in Int BY <1>1, LocalIs, MidnightIs, Offset
    <2>3. RunInv(d)'
      BY <1>1, <1>2, <1>5, <1>6, <1>7, <1>9, <2>1, <2>2, DayBounds DEF RunInv
    <2>. QED BY <1>4, <1>9, <2>3 DEF DayInv
  <1>10. CASE day = "pause" /\ day' = "aim" /\ UNCHANGED ran
    <2>1. PICK d \in Int : RunInv(d) BY <1>10 DEF DayInv
    <2>2. First(d) <= Local(unix + 1)
      <3>1. Midnight(d) + RunAt < unix + 1 /\ unix + 1 \in Int
        BY <1>1, <2>1, LocalIs, MidnightIs, Offset, DayBounds DEF RunInv
      <3>. QED BY <1>1, <3>1, PastMidnight
    <2>3. Local(unix + 1) < First(d + 1) + RunAt
      <3>1. /\ Local(unix + 1) = IF change <= unix + 1 THEN unix + 1 + by ELSE unix + 1
            /\ Midnight(d) = IF First(d) < change THEN First(d) ELSE First(d) - by
            /\ First(d) \in Int /\ First(d + 1) = First(d) + Day
            /\ by \in Int /\ change \in Int /\ -Hour <= by /\ by <= Hour
        BY <1>1, LocalIs, MidnightIs, Offset
      <3>2. CASE unix <= wakeAt + 1 + ran
        BY <1>1, <2>1, <3>1, <3>2, DayBounds DEF RunInv
      <3>3. CASE change <= unix /\ Local(unix) < First(d) + RunAt + ran
        BY <1>1, <1>7, <2>1, <3>1, <3>3, LocalIs, MidnightIs, Offset, DayBounds DEF RunInv
      <3>. QED BY <2>1, <3>2, <3>3 DEF RunInv
    <2>4. AimInv(d)' BY <1>5, <1>6, <2>1, <2>2, <2>3 DEF AimInv, RunInv
    <2>. QED BY <1>4, <1>10, <2>4 DEF DayInv
  <1>. QED BY <1>8, <1>9, <1>10 DEF DaySecond

LEMMA DaySteps == DayInv /\ [DayNext]_dayVars => DayInv'
  <1>. SUFFICES ASSUME DayInv, [DayNext]_dayVars PROVE DayInv' OBVIOUS
  <1>1. ASSUME UNCHANGED <<change, by, unix, wakeAt, ran, dates>>, NEW d \in Int
        PROVE  (AimInv(d) => AimInv(d)') /\ (WaitInv(d) => WaitInv(d)') /\ (RunInv(d) => RunInv(d)')
    BY <1>1 DEF AimInv, WaitInv, RunInv, Called, Local, Midnight, First
  <1>2. CASE DayReturns
    BY <1>1, <1>2 DEF DayReturns, DayInv, DayTypeOK
  <1>3. CASE DayPanics BY <1>3 DEF DayPanics, DayInv, DayTypeOK
  <1>4. CASE UNCHANGED dayVars
    BY <1>1, <1>4 DEF dayVars, DayInv, DayTypeOK
  <1>. QED BY <1>2, <1>3, <1>4, AimKeeps, TimeDayKeeps, DaySecondKeeps DEF DayNext

\* The date the loop waits for is the one after the last it has called the
\* function on, or that one again; and the clock is never past hour:minute of
\* the one after it when the loop aims anew (dayLoop).
THEOREM DayInvariant == DaySpec => []DayInv
  BY DayStarts, DaySteps, PTL DEF DaySpec

\* No date is left out, whatever hour:minute, the length of the run within the
\* bound of DayAssumption and the change of the clock (dayLoop).
THEOREM EveryDayIsRun == DaySpec => []EveryDayRuns
  BY DayInvariant, DayHolds, PTL
=============================================================================
