-------------------------------- MODULE Log --------------------------------
(***************************************************************************)
(* The log (framework/log.go): warnings and notices go through a channel   *)
(* each to a goroutine that writes them, errors are written at once under  *)
(* a lock; each kind has a file for every hour.  Close sends a mark into   *)
(* both channels, waits a while for the writers and closes the files.      *)
(***************************************************************************)
EXTENDS Integers, Sequences, SequencesExt

CONSTANTS
    QueueLen,       \* the capacity of a channel
    MaxMsgs,        \* bound: messages of a kind
    MaxTurns,       \* turns of 100 ms Close waits (20)
    Hours           \* bound: the hours that strike

Channels == {"warn", "info"}
LogKinds == Channels \cup {"error"}

ASSUME LogAssumption == QueueLen \in Nat \ {0} /\ MaxTurns \in Nat

VARIABLES
    msg,        \* wmsg and imsg: the messages, by their number; 0 is the mark
    logged,     \* how many messages of each kind have been sent
    writer,     \* what each writer does: its message, 0 between two, Gone
    file,       \* each kind's file: its hour, Unopened, or Shut
    fileName,   \* errFileName, ...: the hour of the name last used
    hour,       \* the clock
    onFile,     \* the messages of each kind in the files
    closing,    \* where Close stands
    marked,     \* how many had been sent when the mark went in
    closeMsg,   \* messages in closeMsg
    closeLen,   \* those Close has taken
    waits       \* the turns Close has waited

logVars == <<msg, logged, writer, file, fileName, hour, onFile, closing,
             marked, closeMsg, closeLen, waits>>
closeVars == <<closing, marked, closeMsg, closeLen, waits>>
fileVars == <<file, fileName, onFile>>

Mark == 0
Gone == -1
Unopened == -2
Shut == -3

LogInit ==
    /\ msg = [k \in Channels |-> <<>>]
    /\ logged = [k \in LogKinds |-> 0]
    /\ writer = [k \in Channels |-> 0]
    /\ file = [k \in LogKinds |-> Unopened]
    /\ fileName = [k \in LogKinds |-> Unopened]
    /\ hour = 0
    /\ onFile = [k \in LogKinds |-> {}]
    /\ closing = "no" /\ marked = [k \in Channels |-> 0]
    /\ closeMsg = 0 /\ closeLen = 0 /\ waits = 0

-----------------------------------------------------------------------------
\* getFileName: the file of the hour, created if it is not there.
FileOfHour == hour

\* getLogger: the file is opened the first time and when the hour of its name
\* has passed; one that Close has shut is not noticed before.
GetLogger(k) ==
    IF file[k] = Unopened \/ fileName[k] # FileOfHour THEN FileOfHour ELSE file[k]

\* write: nothing reaches a file that is shut.
Write(k, n) ==
    /\ file' = [file EXCEPT ![k] = GetLogger(k)]
    /\ fileName' = [fileName EXCEPT ![k] = FileOfHour]
    /\ onFile' = [onFile EXCEPT ![k] =
         IF GetLogger(k) = Shut THEN @ ELSE @ \cup {[n |-> n, late |-> GetLogger(k) # hour]}]

\* A send waits while the channel is full.
Enqueue(k) ==
    /\ logged[k] < MaxMsgs
    /\ Len(msg[k]) < QueueLen
    /\ logged' = [logged EXCEPT ![k] = @ + 1]
    /\ msg' = [msg EXCEPT ![k] = Append(@, logged'[k])]
    /\ UNCHANGED <<writer, fileVars, hour, closeVars>>

Warning == Enqueue("warn")
Notice == Enqueue("info")

LogError ==
    /\ logged["error"] < MaxMsgs
    /\ logged' = [logged EXCEPT !["error"] = @ + 1]
    /\ Write("error", logged'["error"])
    /\ UNCHANGED <<msg, writer, hour, closeVars>>

\* The writers: the mark ends the writer, ...
Take(k) ==
    /\ writer[k] = 0 /\ msg[k] # <<>>
    /\ msg' = [msg EXCEPT ![k] = Tail(@)]
    /\ IF Head(msg[k]) = Mark
       THEN /\ writer' = [writer EXCEPT ![k] = Gone]
            /\ closeMsg' = closeMsg + 1
       ELSE /\ writer' = [writer EXCEPT ![k] = Head(msg[k])]
            /\ UNCHANGED closeMsg
    /\ UNCHANGED <<logged, fileVars, hour, closing, marked, closeLen, waits>>

\* ... any other message is written.
Writes(k) ==
    /\ writer[k] > 0
    /\ Write(k, writer[k])
    /\ writer' = [writer EXCEPT ![k] = 0]
    /\ UNCHANGED <<msg, logged, hour, closeVars>>

WarnRun == Take("warn") \/ Writes("warn")
InfoRun == Take("info") \/ Writes("info")

HourStrikes ==
    /\ hour < Hours
    /\ hour' = hour + 1
    /\ UNCHANGED <<msg, logged, writer, fileVars, closeVars>>

-----------------------------------------------------------------------------
(* Close.                                                                  *)

SendMark(k, from, to) ==
    /\ closing = from
    /\ Len(msg[k]) < QueueLen
    /\ msg' = [msg EXCEPT ![k] = Append(@, Mark)]
    /\ marked' = [marked EXCEPT ![k] = logged[k]]
    /\ closing' = to
    /\ UNCHANGED <<logged, writer, fileVars, hour, closeMsg, closeLen, waits>>

\* A bug: a turn that only slept is counted too.
CloseTurnCounted ==
    /\ closing = "waiting"
    /\ waits < MaxTurns /\ closeLen < 2
    /\ waits' = waits + 1
    /\ closeMsg' = IF closeMsg > 0 THEN closeMsg - 1 ELSE 0
    /\ closeLen' = closeLen + 1
    /\ UNCHANGED <<msg, logged, writer, fileVars, hour, closing, marked>>

\* A turn of the loop: a message of a writer, or a sleep.
CloseTurn ==
    /\ closing = "waiting"
    /\ waits < MaxTurns /\ closeLen < 2
    /\ waits' = waits + 1
    /\ IF closeMsg > 0
       THEN closeMsg' = closeMsg - 1 /\ closeLen' = closeLen + 1
       ELSE UNCHANGED <<closeMsg, closeLen>>
    /\ UNCHANGED <<msg, logged, writer, fileVars, hour, closing, marked>>

CloseFiles ==
    /\ closing = "waiting"
    /\ waits = MaxTurns \/ closeLen = 2
    /\ closing' = "closed"
    /\ file' = [k \in LogKinds |-> IF file[k] = Unopened THEN Unopened ELSE Shut]
    /\ UNCHANGED <<msg, logged, writer, fileName, onFile, hour, marked, closeMsg,
                   closeLen, waits>>

CloseLog ==
    \/ SendMark("info", "no", "infoMarked")
    \/ SendMark("warn", "infoMarked", "waiting")
    \/ CloseTurn \/ CloseFiles

LogNext ==
    \/ Warning \/ Notice \/ LogError
    \/ WarnRun \/ InfoRun \/ HourStrikes \/ CloseLog

LogSpec == LogInit /\ [][LogNext]_logVars

-----------------------------------------------------------------------------
\* When Close has heard of both writers, every message that was sent before
\* its mark is in a file, and in the order of the hours: none was written to
\* the file of an hour that had passed (warnRun, infoRun, getLogger, Close).
ClosedLogIsComplete ==
    closing = "closed" /\ closeLen = 2 =>
        \A k \in Channels : \A n \in 1 .. marked[k] : [n |-> n, late |-> FALSE] \in onFile[k]
=============================================================================
