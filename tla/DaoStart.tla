------------------------------ MODULE DaoStart ------------------------------
(***************************************************************************)
(* The start of a dao (dao.go): controllers and sources are registered,    *)
(* comRun picks the components com.conf switches on, a task group connects *)
(* their models and caches (com_model.go, com_cache.go, framework/model),  *)
(* the controllers of the others are cancelled, and only then the dao      *)
(* listens and tells the apps of its components, whose calls use the       *)
(* sources.  `dao telnet` connects them one after the other and ends.      *)
(***************************************************************************)
EXTENDS Integers, FiniteSets, Sequences

CONSTANTS Coms      \* components of the program

VARIABLES
    comConf,       \* com.conf, db.conf, cache.conf and the sources of the program
    main,          \* where the main goroutine is
    serviceMap,    \* names of the registered controllers
    openCom,       \* DAO.openCom
    task,          \* what a component's source does: "idle", "dialDB", ...
    told,          \* sources of a component that were told to connect
    connDBMap,     \* keys of DAO.connDBMap
    opened,        \* <<com, source>> whose open flag is set
    dataBaseCache, \* <<com, driver>>: the databases an orm finds by its alias
    dbs,           \* components with a redis client
    writing,       \* tasks that are inside the assignment to the map dbs
    announced,     \* components the heartbeats carry
    fetched        \* what the last use of a source by a controller came to

daoStartVars == <<comConf, main, serviceMap, openCom, task, told, connDBMap,
                  opened, dataBaseCache, dbs, writing, announced, fetched>>

\* The framework registers its controller Health before any other (DAO.init);
\* the name is taken for a component of the program.
Health == "Health"

ASSUME ComsAssumption == Health \notin Coms

Drivers == <<"mysql", "sqlite", "oracle", "postgres", "tidb">>    \* in ormOn's order
OrmDrivers == {"mysql", "sqlite3", "oracle", "postgres", "tidb"}  \* db.go drivers

\* com.conf switches a component on, does not name it, or gives it no number.
DaoStartInit ==
    /\ comConf \in [Coms -> [on : {"on", "off", "bad"},
                          sources : SUBSET {"model", "cache"},
                          db : {{}, {"mysql"}, {"sqlite"}, {"mysql", "postgres"}},
                          telnet : BOOLEAN]]
    /\ \A c, d \in Coms : comConf[c].telnet = comConf[d].telnet
    /\ main = "init"
    /\ serviceMap = {Health}
    /\ openCom = {} /\ announced = {}
    /\ task = [c \in Coms |-> "idle"] /\ told = [c \in Coms |-> {}]
    /\ connDBMap = {} /\ opened = {} /\ dataBaseCache = {} /\ dbs = {} /\ writing = {}
    /\ fetched = "nothing"

Telnet == \A c \in Coms : comConf[c].telnet

\* RegModel, RegCache, ...: the sources of a component.
Has(c, source) == source \in comConf[c].sources

-----------------------------------------------------------------------------
(* Registration and comRun.                                                *)

sourceVars == <<task, told, connDBMap, opened, dataBaseCache, dbs, writing>>

\* Server.register: a name that is there already is an error.
Register(c) ==
    /\ c \notin serviceMap
    /\ serviceMap' = serviceMap \cup {c}

\* RegController, from the init functions of the program's packages; an error,
\* also of a controller without a method that fits, ends the program.
RegController(c) ==
    /\ main = "init"
    /\ \/ Register(c) /\ UNCHANGED main
       \/ main' = "exit" /\ UNCHANGED serviceMap
    /\ UNCHANGED <<comConf, openCom, sourceVars, announced, fetched>>

\* comRun: a component without a number, or without a controller, is logged
\* and left out.
ComRun ==
    /\ main = "init"
    /\ openCom' = {c \in Coms : comConf[c].on = "on" /\ c \in serviceMap}
    /\ main' = "connect"
    /\ UNCHANGED <<comConf, serviceMap, sourceVars, announced, fetched>>

-----------------------------------------------------------------------------
(* The sources of the open components connect: a task for each component,  *)
(* ModelOn before CacheOn; with telnet the sources one by one in any order.*)

DaoTelnet == \A c \in Coms : task[c] = "idle"
ModelBeforeCache(c, source) == source = "cache" /\ Has(c, "model") => "model" \in told[c]

TurnOf(c, source) ==
    /\ main = "connect" /\ c \in openCom /\ task[c] = "idle"
    /\ Has(c, source) /\ source \notin told[c]
    /\ IF Telnet THEN DaoTelnet ELSE ModelBeforeCache(c, source)

Dialling(c, step) == main = "connect" /\ task[c] = step
GoesOn(c, step) == task' = [task EXCEPT ![c] = step]

\* connDB: the first to set the key connects.  Models and caches use the same key.
ConnDB(c) == <<c, "model">>

Configured(c) == {i \in DOMAIN Drivers : Drivers[i] \in comConf[c].db}
FirstDriver(c) == Drivers[CHOOSE i \in Configured(c) : \A j \in Configured(c) : i <= j]
Dialable(c) == Configured(c) # {} /\ FirstDriver(c) \in OrmDrivers

\* ormOn without a database in db.conf, or with a driver the orm has not: Exit.
OrmOnExits(c) ==
    /\ TurnOf(c, "model")
    /\ ConnDB(c) \notin connDBMap
    /\ ~Dialable(c)
    /\ main' = "exit"
    /\ UNCHANGED <<comConf, serviceMap, openCom, sourceVars, announced, fetched>>

\* open is set first; who set the key goes on to dial.
On(c, source, step) ==
    /\ opened' = opened \cup {<<c, source>>}
    /\ connDBMap' = connDBMap \cup {ConnDB(c)}
    /\ told' = [told EXCEPT ![c] = @ \cup {source}]
    /\ GoesOn(c, IF ConnDB(c) \in connDBMap THEN "idle" ELSE step)
    /\ UNCHANGED <<comConf, main, serviceMap, openCom, dataBaseCache, dbs, writing, announced, fetched>>

OrmOn(c) ==
    /\ TurnOf(c, "model")
    /\ ConnDB(c) \in connDBMap \/ Dialable(c)
    /\ On(c, "model", "dialDB")

RedisOn(c) == TurnOf(c, "cache") /\ On(c, "cache", "dialRedis")

\* dataBaseCache.add, once the database has answered; a second driver of the
\* component finds the alias taken, and ormOn returns.
AddAlias(c) == dataBaseCache' = dataBaseCache \cup {<<c, FirstDriver(c)>>}

RegisterDataBase(c) ==
    /\ Dialling(c, "dialDB")
    /\ AddAlias(c)
    /\ GoesOn(c, "idle")
    /\ UNCHANGED <<comConf, main, serviceMap, openCom, told, connDBMap, opened, dbs, writing, announced, fetched>>

\* A database or redis that cannot be reached ends the program.
DialExits(c) ==
    /\ Dialling(c, "dialDB") \/ Dialling(c, "dialRedis")
    /\ main' = "exit"
    /\ UNCHANGED <<comConf, serviceMap, openCom, sourceVars, announced, fetched>>

\* NewCache connected; AddDatabase writes to a map without a lock.
AddDatabase(c) ==
    /\ Dialling(c, "dialRedis")
    /\ writing' = writing \cup {c}
    /\ GoesOn(c, "adding")
    /\ UNCHANGED <<comConf, main, serviceMap, openCom, told, connDBMap, opened, dataBaseCache, dbs, announced, fetched>>

\* Two writes at once: the runtime may notice and throw, or one is lost.
Added(c) ==
    /\ Dialling(c, "adding")
    /\ writing' = writing \ {c}
    /\ \/ dbs' = dbs \cup {c} /\ UNCHANGED main
       \/ writing # {c} /\ UNCHANGED dbs /\ main' \in {main, "throw"}
    /\ GoesOn(c, "idle")
    /\ UNCHANGED <<comConf, serviceMap, openCom, told, connDBMap, opened, dataBaseCache, announced, fetched>>

ComTask(c) ==
    \/ OrmOnExits(c) \/ OrmOn(c) \/ RegisterDataBase(c)
    \/ RedisOn(c) \/ DialExits(c) \/ AddDatabase(c) \/ Added(c)

-----------------------------------------------------------------------------
(* After the tasks.                                                        *)

AllConnected ==
    main = "connect" /\ \A c \in openCom : task[c] = "idle" /\ told[c] = comConf[c].sources

\* telnet ends, whether the apps can be reached or not.
TelnetEnds ==
    /\ AllConnected /\ Telnet
    /\ main' = "telnetDone"
    /\ UNCHANGED <<comConf, serviceMap, openCom, sourceVars, announced, fetched>>

UnRegister(names) == serviceMap' = serviceMap \ names

\* The controllers of components that are not open are cancelled, but for
\* Health.
CancelController == UnRegister(Coms \ openCom)

\* startHealth gives the heartbeats the open components; they begin with the port.
StartHealth == openCom
HookRpcBind == announced' = IF main' = "run" THEN StartHealth ELSE {}

\* A bug: the dao listens while its tasks still connect.
ListenEarly ==
    /\ main = "connect" /\ ~Telnet
    /\ main' \in {"run", "exit"}
    /\ CancelController /\ HookRpcBind
    /\ UNCHANGED <<comConf, openCom, sourceVars, fetched>>

\* gs.Run listens, or panics when ten ports are taken.
Listen ==
    /\ AllConnected /\ ~Telnet
    /\ main' \in {"run", "exit"}
    /\ CancelController /\ HookRpcBind
    /\ UNCHANGED <<comConf, openCom, sourceVars, fetched>>

-----------------------------------------------------------------------------
(* A call uses a source of a component (com_controller.go).                *)

Serves(c) == main = "run" /\ c \in serviceMap

Fetches(outcome) ==
    /\ fetched' = outcome
    /\ main' = IF outcome \in {"foreign", "unregistered", "unopened"} THEN "exit" ELSE main
    /\ UNCHANGED <<comConf, serviceMap, openCom, sourceVars, announced>>

\* The source must be of the controller's own component, and registered, or
\* the program ends.
Located(c, d, source) ==
    IF c # d THEN "foreign" ELSE IF ~Has(c, source) THEN "unregistered" ELSE "located"

\* model.New panics without the alias; Do of a redis is an error without a client.
NewModel(c) == IF \E a \in dataBaseCache : a[1] = c THEN "conn" ELSE "panic"
DoCache(c) == IF c \in dbs THEN "conn" ELSE "error"

\* Conn of a model, Do of a cache: one that is not open ends the program.
CallModel(c, d) ==
    /\ Serves(c)
    /\ Fetches(IF Located(c, d, "model") # "located" THEN Located(c, d, "model")
               ELSE IF <<c, "model">> \notin opened THEN "unopened"
               ELSE NewModel(c))

CallCache(c, d) ==
    /\ Serves(c)
    /\ Fetches(IF Located(c, d, "cache") # "located" THEN Located(c, d, "cache")
               ELSE IF <<c, "cache">> \notin opened THEN "unopened"
               ELSE DoCache(c))

DaoStartNext ==
    \/ \E c \in Coms : RegController(c) \/ ComTask(c)
    \/ \E c, d \in Coms : CallModel(c, d) \/ CallCache(c, d)
    \/ ComRun \/ TelnetEnds \/ Listen

DaoStartSpec == DaoStartInit /\ [][DaoStartNext]_daoStartVars

-----------------------------------------------------------------------------
(* Properties.                                                             *)

\* What an app is told of is there: its controller is registered, its models
\* are open and have a database db.conf gives them; and no controller
\* is registered that com.conf did not switch on (dao.go Run).  So no call of a
\* controller ends the program, or panics, over a source of its own that was
\* not opened (com_model.go Conn, com_cache.go Do).
AnnouncedIsServed ==
    /\ fetched \notin {"unopened", "panic"}
    /\ main = "run" =>
        /\ serviceMap = announced \cup {Health}
        /\ \A c \in announced :
            /\ comConf[c].on = "on"
            /\ Has(c, "model") => \E d \in comConf[c].db : <<c, d>> \in dataBaseCache
            /\ \A s \in comConf[c].sources : <<c, s>> \in opened

\* README.md:768 of telnet: "tries to connect the database and redis"; and what
\* is true of telnet is expected of the start: every cache of an open
\* component has its redis.
CachesConnected ==
    main \in {"run", "telnetDone"} =>
        \A c \in openCom : Has(c, "cache") => c \in dbs
=============================================================================
