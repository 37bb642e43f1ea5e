------------------------------- MODULE MCData -------------------------------
(***************************************************************************)
(* The components of a process that are only asked for safety, for TLC.    *)
(* None reads the state of another one: in a behaviour one of them is at   *)
(* work, `part`, and the others stay as they were initialised, so that the *)
(* state spaces add up and do not multiply.                                *)
(***************************************************************************)
EXTENDS ConHash, Session, Log, Observer, DayTimer, DaoStart, ComApi, RawSet,
        Config, Codec, SqlArgs, CallQps, Transaction, ComMemory, Limiting,
        Command

VARIABLE part       \* the component at work

Parts == {"ring", "session", "log", "observer", "day", "start", "api",
          "raw", "config", "codec", "args", "qps", "transaction", "memory",
          "limit", "command"}

dataVars == <<part, ringVars, sessionVars, logVars, obsVars, dayVars,
              daoStartVars, apiVars, rawVars, confVars, codecVars, argsVars,
              qpsVars, txVars, memoryVars, limitVars,
              commandVars>>

\* A part that is not at work starts in one of its initial states only.
DataInit ==
    /\ part \in Parts
    /\ part = "session" \/ process = "app"
    /\ part = "observer" \/ gObserver = NoObserver
    /\ part = "day" \/ (change = 15 /\ by = 0 /\ unix = 0)
    /\ part = "start" \/ comConf = [c \in Coms |->
         [on |-> "off", sources |-> {}, db |-> {}, telnet |-> FALSE]]
    /\ part = "api" \/ req = [kind |-> "get", params |-> 0, files |-> FALSE,
                               Body |-> "nil", query |-> 0, resp |-> FALSE, body |-> "nil"]
    /\ part = "raw" \/ container = "row"
    /\ part = "config" \/ disk = [first |-> << >>, inc |-> << >>, second |-> Missing]
    /\ part = "command" \/ foreign = {}
    /\ part = "args" \/ (args = << >> /\ formatted = FALSE)
    /\ RingInit /\ SessionInit /\ LogInit /\ ObsInit /\ DayInit
    /\ DaoStartInit /\ ApiInit /\ RawInit /\ ConfigInit /\ CodecInit
    /\ ArgsInit /\ QpsInit /\ TxInit /\ MemoryInit /\ LimitInit
    /\ CommandInit

\* Everything but the part p.
Others(p) ==
    /\ IF p = "ring" THEN TRUE ELSE UNCHANGED ringVars
    /\ IF p = "session" THEN TRUE ELSE UNCHANGED sessionVars
    /\ IF p = "log" THEN TRUE ELSE UNCHANGED logVars
    /\ IF p = "observer" THEN TRUE ELSE UNCHANGED obsVars
    /\ IF p = "day" THEN TRUE ELSE UNCHANGED dayVars
    /\ IF p = "start" THEN TRUE ELSE UNCHANGED daoStartVars
    /\ IF p = "api" THEN TRUE ELSE UNCHANGED apiVars
    /\ IF p = "raw" THEN TRUE ELSE UNCHANGED rawVars
    /\ IF p = "config" THEN TRUE ELSE UNCHANGED confVars
    /\ IF p = "codec" THEN TRUE ELSE UNCHANGED codecVars
    /\ IF p = "args" THEN TRUE ELSE UNCHANGED argsVars
    /\ IF p = "qps" THEN TRUE ELSE UNCHANGED qpsVars
    /\ IF p = "transaction" THEN TRUE ELSE UNCHANGED txVars
    /\ IF p = "memory" THEN TRUE ELSE UNCHANGED memoryVars
    /\ IF p = "limit" THEN TRUE ELSE UNCHANGED limitVars
    /\ IF p = "command" THEN TRUE ELSE UNCHANGED commandVars

DataNext ==
    /\ UNCHANGED part
    /\ \/ part = "ring" /\ RingNext
       \/ part = "session" /\ SessionNext
       \/ part = "log" /\ LogNext
       \/ part = "observer" /\ ObsNext
       \/ part = "day" /\ DayNext
       \/ part = "start" /\ DaoStartNext
       \/ part = "api" /\ ApiNext
       \/ part = "raw" /\ RawNext
       \/ part = "config" /\ ConfigNext
       \/ part = "codec" /\ CodecNext
       \/ part = "args" /\ ArgsNext
       \/ part = "qps" /\ QpsNext
       \/ part = "transaction" /\ TxNext
       \/ part = "memory" /\ MemoryNext
       \/ part = "limit" /\ LimitNext
       \/ part = "command" /\ CommandNext
    /\ Others(part)

DataSpec == DataInit /\ [][DataNext]_dataVars
=============================================================================
