# Verification of gotree

gotree is a Go framework for two kinds of processes. An **app** serves a web
front end; it calls **daos**, processes that own databases, caches, memory and
third-party interfaces, over JSON-RPC. Daos announce
themselves to apps by periodic handshakes, apps keep a registry of the daos
they hear from and spread their calls over them, and both kinds of processes
stop and restart gracefully. This directory holds TLA+ models of the parts of
the framework where goroutines meet, the TLC configurations that check them,
and the theorems that TLAPS checks for every value of the constants.

File names below are relative to `src/`.

## The system

### Components, their state and their operations

| Component | State | Operations | Module |
|---|---|---|---|
| Registry: `framework/call_route.go`, `panel.go` | per service name the panels (address, id, time of the last handshake), a ring of live ids and a ring of all ids | `addCom`, `LocalAddCom`, `tick`, the addressing methods | `CallRoute` |
| Consistent hash: `framework/hash.go` | sorted list of points | `Add`, `Remove`, `Search` | `ConHash` |
| Breaker: `framework/call_break.go` | per method: calls and timeouts of the window, seconds left of window and of the break | `Breaking`, `Call`, `Run`, `Tick`, `Stop` | `CallBreak` |
| Connection pool: `framework/call_conn.go` | slots per address; per connection: state of the dial, callers on it, a timer | `fetch`, `connect`, `release`, `timeout`, `delConn`, `Close` | `ConnPool` |
| Call: `framework/call_client.go` | per call: attempt, address, what to tell the breaker | `Do` | `CallClient` |
| Limit: `framework/limiting.go` | the count of calls | `Go` | `Limiting` |
| Qps: `framework/call_qps.go` | per method the calls of a period | `Qps`, `tick`, `list`, `ComQpsBeginTime` | `CallQps` |
| RPC server: `framework/call_server.go`, `net.go` | status, count of running calls, open connections | `accept`, `ServeCodec`, `service.call`, `Close` | `RpcServer`, `GracefulStop` |
| Codec: `framework/net.go` | free lists of requests and answers, pending ids per connection | `getRequest`, `freeRequest`, `ReadRequestHeader`, `WriteResponse` | `Codec` |
| Dao: `dao.go` | its server, queues, sources | `Run` (start and stop), `comRun`, `connDB`, `telnet`, `RegQueue` | `DaoStart`, `DaoStop` |
| Queue: `dao_queue.go` | channel of jobs, number of consumers | `cast`, `mainRun`, `assistRun` | `DaoQueue` |
| App: `app.go`, `app_async.go`, `app_timer.go` | counts of calls, timers, asynchronous tasks | `Run` (start and stop), `Async`, ticks | `AppStop` |
| Goroutine storage: `framework/run_stack.go` | values by goroutine | `Set`, `Get`, `Del`, `Remove` | `Session` |
| Observer: `framework/observer.go`, `base.go` | subscriptions per event | `AddEvent`, `RemoveEvent`, `Event` | `Observer` |
| Timers: `framework/timer.go` | a goroutine each | `RunTick`, `RunDay` | `AppStop`, `DayTimer` |
| Log: `framework/log.go` | two channels, three files | `Error`, `Warning`, `Notice`, `Close` | `Log` |
| Configuration: `framework/config.go` | values by section and key | `LoadConfig`, `parseData`, `getdata` | `Config` |
| Memory source: `com_memory.go` | keys, values, deadlines | `Set`, `Setnx`, `MultiSet`, `MultiSetnx`, `Expire`, `Delete`, `Incr`, `MemoryTimeout` | `ComMemory` |
| Database source: `com_model.go`, `framework/model/gt_model.go`, `db.go` | the orm of a goroutine, open connections | `Transaction`, `Raw(...).QueryRow` and its kin, `FormatIn` | `Transaction`, `RawSet`, `SqlArgs` |
| Api source: `com_api.go`, `helper/httplib.go` | a request object | `HttpGet`, `HttpPost`, `HttpPostJson` | `ComApi` |
| Cache source: `com_cache.go`, `framework/model/redis.go` | a pool per component | `redisOn`, `Do` | `DaoStart` |
| Task group: `helper/group.go` | list of tasks, channel, workers | `Add`, `Wait` | `TaskGroup` |
| Health: `framework/call_health.go` | the app connections of a dao or gateway | `Start`, `HandShake`, `Ping`, heartbeats | `HealthClient`, and the handshake in `CallRoute` |
| Gateway: `gateway/gateway.go` | an RPC server and a health client | `Run` | its stop is `RpcServer`, its heartbeats `HealthClient` |
| Commands: `framework/command.go` | processes and the ports they listen on | `start` (daemon), `stop`, `restart` | `Command` |

### How they interact

* A dao's health client calls `HandShake` at each app of its configuration
  every two seconds. In the app this is an RPC request, whose goroutine raises
  the event `newCom`, on which `CallRoute.addCom` adds, refreshes or replaces a
  panel. The registry's own timer removes the panels it has not heard from.
* A controller of the app calls `CallClient.Do`: it asks the breaker, waits for
  the limit, asks the registry for an address, fetches a connection of that
  address from the pool, sends the request and waits for the answer, and tells
  breaker and qps how it went. It goes round again, to another node, when the
  text of the error reads like a broken connection or the node's `ShutDownIng`.
* In the dao the RPC server counts the request, refuses it if it is stopping,
  and runs the controller, which may cast a job into a queue. A dao's `Run`
  waits for its signal and then, for a bounded number of turns, for the count
  of calls and the length of the queues to be 0; then it closes the server.
* An app's `Run` does the same with three counts: calls, timers and
  asynchronous tasks. Tasks that sleep are ended by the event
  `system_shutdown`.

### What is hard here

Locks are short and many decisions are made on a value read without one: the
server's status around its count, the queue's number of consumers, the limit's
count, the sweep's list of keys, the registry's list of panels. Time ends many
waits: calls, drains, stops and limits give up. Nodes stop, crash and return
with another identity, and a connection breaks with a request under way.
`PROJECT.json` lists these hazards line by line, with the properties that are
about them, and those no property covers yet.

What makes each component correct, in a sentence: the registry answers with a
registered node, loses no living node and keeps no dead one; the ring gives every
key an owner and moves few keys; the breaker trips on recent calls and resumes in
time; the pool hands out connections that were open when they were drawn, closes
each when no counted call uses it and dials each once; a call is executed again only
if its connection broke or an answer read as if it had; an answer goes to the request it is of; the server's count is exact and its stop cuts
nothing off that it had time to wait for; the queue runs no more jobs at a time
than it is told, and no job waits for ever; a job, a task and a timer run in the
session they were started in; a dao announces what it serves; memory keys live as
long as they were told; a transaction is all or nothing and gives its connection
back; a query's result is of that query; a log that was closed in time is
complete; a group returns when its tasks have; a stop reaches every process.

## The modules

Each action names the function it stands for; `map` in `PROJECT.json` gives the
lines. A goroutine is a `pc` (or `worker`, `caster`, `timer`, ...) with a value
for each place between two steps that others can come between: a step is what
happens under one lock, one atomic operation or one channel operation. Operators
commented *Mutant* are the plausible mistakes each property is tested against;
no specification uses them.

**CallRoute** models the panels of one service (nothing relates two services).
`Panel.update` is an age, saturated one second above the oldest age that is
still told apart. `AddBegin`, `AddReplace`, `AddRefresh` and `AddNew` are
`addCom` and `addNode` with `CallRoute.lock` held across them; `AllPane`,
`TickVisit` and `TickRemove` are `tick`, which copies a list of pointers, and
judges and removes later. A panel that was replaced while `tick` holds it in its
list is `detached` and keeps its own age. The dao processes are an environment
that starts, stops and shakes hands; those in `Steady` are heard from every
`Period` seconds.

**ConHash** has `Add`, `Remove` and `Search` as operators on sequences of points,
with `half` and the sweep of `Remove` as recursive functions of the source's shape,
and a small state machine that builds and takes apart every ring. The CRCs of a node's points are
chosen when it is added for the first time and stay (`Create`); points of two
nodes may collide.

**CallBreak** is the breaker of one method, with callers that ask before and
report after a call, and the loops that `Run` starts, one more with each call of
it. `Second` does not pass before each loop that is due has ticked.

**ConnPool** is the pool of one address. `fetch` locks the pool for one draw and
dials outside of the lock; `sync` is atomic; `timeout` is one goroutine per
connection. Objects are reused when nothing refers to them any more, as memory
is; a clock counts the half-second turns a retired connection waits, and a call
lasts at most `CallTurns` of them. Between the draw (`DrawTaken`) and the count
(`Fetch`) the timer of an idle connection may retire and close it: `fetch` then
returns a closed client, whose call breaks and is made again. `ClosedOnlyOnceLeft` says
that this gap is the only way to a closed client while the pool is open, and
`DrainTakesEveryone` is about calls that are counted.

**CallClient** is `Do` and what becomes of its requests. The components it asks
(breaker, limit, registry, pool) answer in every way they can; the nodes are up,
stopping or down, refuse when stopping, and may execute later a request that Do
has left behind. `Do` knows a broken connection by the text of the error alone, and
the node sends the text of its controller's error (or panic) in the same field:
`AnswerLikeBroken` is an executed call whose error reads like a broken connection. Two
ghosts, `broke` and `misled`, tell the two apart, and `told` is the sequence of reports
to the breaker, so that a second report of the same kind is seen.

**Limiting** is `Limiting.Go`: look, sleep, pass (with room or out of looks), count, run,
then return or panic, and the deferred function, which recovers and takes the call off
the count. `excused` is a ghost: the callers the limit could not hold back.

**RpcServer** is the server of a dao or gateway: the reader of each connection,
a goroutine per request (`service.call`), and the main goroutine's stop. A reader ends
when its connection has (`ReadEnds`) or at a header it cannot decode (`ReadGarbled`), and
closes the connection under the calls that came over it. The look at the status
(`SeesOpen`) and the call of the controller (`Invoke`) are two steps: after a stop that
gave up, a call between them still starts.
**GracefulStop** is what it promises: requests that wait are executed or refused,
and those being executed are cut off only when the stop's patience is at an end.
`ImplementsGracefulStop` is the refinement, `Graceful == INSTANCE GracefulStop
WITH ...`, checked by TLC and proved.

**AppStop** extends `RpcServer` with the tick timers and asynchronous tasks of an
app, and with the three reads of its stop in place of the one. **DaoStop** composes `RpcServer`
with an instance of **DaoQueue**, whose casters are the controllers of the server's requests.

**ComMemory** is one source: the operations, each under the lock, and the sweep in
its two halves. A value is a number, as `Incr` has it, or what `Set` put there;
`counted` is a ghost that remembers who set a key in its present life.

**TaskGroup** is one group: `Wait` and its workers, with a channel that has room for
all tasks and a rendezvous per task.

**HealthClient** is the loop of `HealthClient.Start` in a dao or in a gateway, the apps
that listen on the first free port, and the ports the loop scans. `port`,
`clientMap` and `addrMap` are `AppRemote.Port`, the clients by address and the
addresses a gateway calls; `cut` says which clients' connections are broken.

**Codec** takes `RpcServer`'s requests apart once more: the objects they travel in.
A request is read into an object from the free list, its number and the client's
id are kept in `pending`, and the answer finds the id again. Requests come on two
connections, of which one is busy.

**CallQps** has the counters of the methods and the two actors that look at them, the
tick that lists and then clears, and the command that asks for the list and then for
its beginning.

**Session** is the storage of goroutines by the pointer of each, which the runtime
gives to a new goroutine when the old one has ended. Requests, remote calls, tasks,
timers and jobs of a queue start with a stack that may be somebody's leftover;
`work` says what a goroutine is really there for.

**Observer** is the event `system_shutdown`: tasks that subscribe and leave, in the
three steps each takes on the map of observers, and the shutdown that goes round.

**DayTimer** is `RunDay` over some days on one of which the local clock may be put
forward or back. Hours and days are shortened, their proportions kept.

**Log** has the two channels and their writers, the files of an hour and the turns of
`Close`. A message is its number.

**Config** is `LoadConfig` over every small set of files: a first candidate, one it may
include, a second candidate. A frame of the stack is a `parseData` at work, so that a
file that includes itself fills the stack up to its bound.

**DaoStart** is the start of a dao, or `telnet`: what the configuration and the program
say of two components, the tasks that open their models and caches at the same time,
what is announced and what the server has. Once it runs, its calls ask for models and
caches: one of another component, not registered or not open ends the program, a model
without its database panics, a cache without its redis is an error.

**ComApi** is one request to an api source and the server it meets, which may execute
a request whose attempt was given up. The body of a POST with files is a pipe without a
`ContentLength`: what an attempt left in it goes out as a complete request on the
next. `Retries` within one attempt, which only a callback could set, are left out.

**Transaction** is the map from goroutines to orms around `Transaction`, nested ones
included, with a pool of `MaxOpen` connections. A function does statements, ends
well, ends with an error or panics. **RawSet** is what a query does to the container
it is given, in the five ways there are, over two queries. **SqlArgs** is a pure
algorithm, the flattening of arguments, one value a step.

**Command** is the daemon's loop and the commands that scan the ports, over daemons
whose children start, listen, serve, drain and crash.

**MCCalls**, **MCParts**, **MCData** put components that share no state with one
another into one instance each. A behaviour chooses one of them, `part`, and only it
takes steps: the state spaces add up and do not multiply, and what is checked of a
component is what a run of its own would check. What is asked for liveness is in
`MCCalls` and `MCParts`, where the fairness of each part is stated; `MCData` is
asked for safety only. The app in `MCParts` is an instance of `AppStop`. **MCStops**
does the same with the two kinds of process that stop, an app and a dao, over the
server they share.

## The runs

| Run | Instance | What it shows |
|---|---|---|
| `CallRoute_safety` | 2 addresses, 2 ids, 2 goroutines, a steady dao, a local node; 1.6 million states | every addressing method finds a registered node at every instant; a steady dao is never dropped |
| `Calls` | registry: 2 addresses with one id; `Do`: a call of 3 attempts over 2 nodes; breaker: 2 callers, 1 loop | a dead dao leaves, a living one returns; a call is repeated only if a connection broke or an answer read so, the breaker hears once, `Do` returns; a break lasts its seconds, a failing method trips again and again |
| `ConnPool` | 2 callers, 3 connections, 2 slots; 1.6 million states | connections are dialled once, counted exactly, closed under a caller only between its draw and its count, and drained; who empties a slot has its own connection there |
| `RpcServer` | 3 requests on 2 connections | the stop, its count and its replies; refinement of `GracefulStop` |
| `Stops` | 2 requests; app: a timer and a task; dao: room for 1 job; 1.8 million states | a stop that saw nothing leaves no call, timer or job |
| `Parts` | queue: 2 casters, room for 1 job, queues of 1 and of 2 goroutines; group: 4 tasks, some without a function, on 2 workers; health: 2 apps with 2 ports each; transactions: 2 goroutines, 2 levels, 4 connections, 1 panic; app: 1 request, which can spawn the task, 1 timer | the default queue runs one job at a time, in order, and empties; `Wait` returns, and then all is done; an app gets its heartbeats wherever it listens; a gateway calls addresses where it has a client; a transaction that waits for a connection ends; a sleeping task the shutdown reaches ends |
| `Data` | sixteen components, the bounds in the next section; 0.8 million states | the property of each, below |

`Data` checks, part by part: few keys move when a node comes or goes (`FewKeysMove`,
which also says that `Search` finds the owner); a job or task carries the session it
was started in (`WorkCarriesItsGseq`); a log whose `Close` was not given up is
complete (`ClosedLogIsComplete`); the shutdown reaches every task
(`ShutdownReachesTasks`); no day is skipped (`EveryDayRuns`); what a dao announces it
serves, with its databases open, so that no call meets a model without one
(`AnnouncedIsServed`); a body with a length is posted once (`PostedOnce`); a result is of its own query (`ResultIsOwn`); a configuration is one
candidate's, and the last place of a key counts (`LastWins`); a request is answered
once, with its own id (`AnsweredOnce`); there are as many arguments as marks, where
there is no byte slice and no nil in a list (`MarksMatchArgs`); counters are of their
period (`QpsIsOfItsPeriod`); a transaction is atomic (`TransactionIsAtomic`); one
`MultiSetnx` wins (`OneSetnxWins`); the limit lets at most `Most` + 1
through at a time, apart from callers it could not hold back, and is never exhausted by
calls that are over (`LimitHolds`); a stop that succeeds reached every process (`CommandReachesAll`).

Five runs are expected to find a violation: they set something the
documentation says against what the code does.

| Run | Said | Found |
|---|---|---|
| `AppStop_uncounted` | the stop is a closed loop, tasks included (`README.md:512`) | a task counts itself, too late for a stop that has just looked |
| `DaoQueue_overcrowded` | `Goroutine` is the number of concurrent consumers (`gotree/examples/dao/controllers/feature_controller._gotree_go:35`) | casts start more before the first has counted itself |
| `ComMemory_extended` | `Expire` sets a key's lifetime (`com_memory.go:138`) | a sweep that has collected the key deletes it all the same |
| `Transaction` | a function that returns an error is rolled back (`README.md:384`) | the error of `Begin` is ignored, and what the function did stays |
| `DaoStart_caches` | `telnet` connects database and redis (`README.md:768`) | model and cache ask `connDB` with one key; the second does not connect |

Each property of a passing run is tested against a mutant, an operator that
changes one mapped definition the way a plausible mistake would.

Other disagreements were met while modelling and are visible in the modules,
without a run of their own:

* `panel.go:210` keeps the id of a node whose address shakes hands again under
  another one, while `README.md:315` says that `MasterAddr` returns the node with
  id 1 (`AddRefresh`). `HashRpcAddr` may answer "" for an id that has been announced
  and whose node is gone.
* `call_break.go:124`: each further `Run` starts one more loop, and a breaker aged
  by two loops resumes in half the seconds of `README.md:242` (`BreakerKeepsTime`
  fails with two `Loops`).
* `call_client.go:134` takes an answer for a broken connection by its text: a
  controller's error such as a database's "read: connection reset by peer" is sent again
  to the next node although it was executed, and if it comes at each attempt the breaker
  is told that no node answered (`AnswerLikeBroken`).
* `net.go:385`: a header that cannot be decoded closes the connection under the calls
  that run; their replies are lost (`ReadGarbled`).
* `call_conn.go:496`: a caller that has drawn a connection and is not counted yet may be
  given it closed (`Fetch`).
* `net.go:321`: after a stop that gave up, a call that has read the status may still start
  its controller (`Invoke`).
* `dao.go:303`: the stop looks six times and then closes over running requests;
  `README.md:770` says that it waits for them (`PollBusy`).
* `hash.go:99`: a key above the last point goes to the first point, a key between
  two points to the lower one; an arrival can move such a key between two nodes
  that stay (the last two disjuncts of `FewKeysMove`, which assumes besides that no
  two points collide).
* `call_client.go:72`: the condition around the qps report is always true, and
  calls the breaker refused are in the figures `README.md:775` describes.
* `limiting.go:37` compares with `>` and counts in a later step, so that more calls
  than `most` run at once (`gotree/examples/app/conf/dev/sys.conf:3`).
* `helper/group.go:102` drops a task without a function, and `Wait` stands before it
  for ever (`Skip`; `helper/group.go:139`).
* `call_health.go:168` dials into a variable of the inner scope: a dao that gets a
  connection goes on as if it had none, scans, and leaves the first connection
  open for ever (`Dial`).
* `call_health.go:187` stores the client a scan found under the address the app had
  before. Of two apps on one host whose ports overlap, a dao may then take one
  for the other and never shake hands with it (`AppIsFound` fails for a dao
  without its `Alone`).
* `call_server.go:388` tries ten ports, `call_health.go:182` and `217` look on nine:
  an app on the tenth is not found (`AppListens`, `Found`).
* `base.go:84`: in an app without timers two tasks that subscribe at the same time
  make an observer each, and one is lost; a task may join an observer that the last
  to leave then deletes (`AddStore`, `RemoveDelete`).
* `call_qps.go:99`: calls reported between the list and the reset are in no list;
  `app qps` may show the list of one period with the beginning of the next.
* `gt_model.go:1942`: a nested transaction registers its own orm in place of the
  outer one and removes it at the end; what the outer function does afterwards is
  outside of its transaction. A panic gives the connection back to nobody.
* `gt_model.go:901`: `rows.Err` is never read, so that a result that breaks off looks
  complete; `QueryRows` without a row leaves the former content (`NextEnds`); a
  number wider than its field is cut (`Wrap`). `gt_model.go:976` takes the underscores out
  of the result's columns and `1031` leaves them in the tag's: a field tagged with one keeps
  its former value, which the model has as a field without a column.
* `db.go:790` drops a `[]byte` and nils inside of slices, so that marks and arguments
  may differ in number; a nil pointer panics.
* `com_api.go:119`, `httplib.go`: the parameters of a GET are added to the address at
  each attempt; a cut body is returned as complete by the second one; a POST with files is
  sent a second time as a complete request with what is left of them (`Send`).
* `config.go`: a file that includes itself is read until the stack is full; the name
  of an included file is turned to lower case; a candidate with an error is passed
  over in silence for the next one.
* `timer.go:645`: the function of a day may run twice where the clock is put back;
  nobody waits for it at a stop.
* `command.go:63`: a process that crashed while its daemon slept is started after a
  stop; `AppRestart` may report the old process as the new one, since it looks for it
  while the old one still ends; `call_server.go:406` waits on a channel without room,
  and a signal that comes before the process waits is lost, or ends it at once.
* `com_locator.go:47` removes under the name of the pointer type and adds under that
  of its element: `Remove` removes nothing. Nothing in the framework calls it.

### Bounds, and why they are enough

* *Goroutines.* Two or three of a kind: each race here is between two of them
  (look and act, count and read); three where the state space allows it. The
  theorems hold for any number.
* *Time.* `Timeout`, `RangeSec`, `ResumeSec`, `DrainTurns` are two to four where
  the code has tens of seconds: the code compares and counts down, and each
  comparison is seen on both sides. `MaxScan` bounds the seconds one `tick` of
  the registry lasts; the argument for saturated ages needs only that it is
  finite. `MaxTime` ends the clock of `ComMemory`; deadlines are set only before
  it, so that each can come.
* *Turns.* `MaxPolls` is 2 for the 6 of the code (a stop that finds calls, then
  none; a stop that gives up), `MaxLooks` 3 for 100, `MaxTurns` 3 for the 20 of the
  log, `Polls` 2 for 5. `TryCount` is 3: a first, a middle and a last attempt; `MaxTry`
  is the 2 of the code.
* *Room.* `QueueLen` is 1 with more casters than room (2 in the violation), so
  that queues are full; `MaxGo` bounds the goroutines a queue is registered for,
  each number up to it being chosen in `QueueInit`; `MaxJobs` bounds the jobs ever
  cast, `MaxSum` the reports in a window.
* *Ports.* `Scanned` and `Tried` are 2 for the 9 and 10 of the code, and so are the
  `Ports` of `Command`: the port an app starts from and one to move to. A port may be
  another program's.
* *Histories.* `MaxSeq`, `MaxMsgs`, `MaxQueries`, `MaxPeriods`, `MaxDays`, `MaxStarts`
  are 2 or 3: each property is about one thing and what an earlier one left behind.
* *Data.* `Width` is 3 bits, so that numbers overflow; `Rows` of two columns hold each
  combination of a small number, one that does not fit and NULL. `MaxArgs` is 2
  arguments of each kind `getFlatParams` tells apart, slices of two included. The files
  of `Config` have up to `MaxLines` and `MaxInc` lines of each kind `parseData` tells
  apart, in every order, `MaxNest` of them open at once. `Hour` and `Day` keep the
  function's time away from midnight by more than a change of the clock
  (`DayAssumption`), as the code needs it to. The connections of `Transaction` are
  enough for its levels and panics (`PoolAssumption`): with fewer, goroutines that hold
  one each and wait for another wait for ever, as with any such pool.
* *Names.* `Assistants` and `Conns` are names for goroutines and objects; they
  are reused when free. A run that used them all up would merely delay the next
  one, and in the configurations there are more than the code can have at once,
  except where the violation run shows that it can have too many.
* *Symmetry* is declared for callers, requests, goroutines and connections that no
  property tells apart, in runs without liveness.

`CHECK_DEADLOCK FALSE` is in the runs of systems that stop (the stops, a group
that has returned, a call or a query that is over, a queue or breaker with its
bound of jobs or reports used up). In the others no state may be without a step.

### Fairness

Goroutines that can run, run: weak fairness of each goroutine's next step, and
never of the steps that are somebody's will (a call begins, a controller
returns, a signal comes, a peer drops). Strong fairness is assumed for a lock,
a channel or a pool that is freed over and over while somebody waits for it: a Go
mutex hands itself over to a waiter that has starved for a millisecond
(`CallRoute`), senders blocked on a full channel are served in the order in
which they came (`SendJob` in `DaoQueue`), and so are requests for a connection
(`BeginTx` in `Transaction`). Handshakes of a dao that stays up are
strongly fair too, as its timer sends them every two seconds and finds a free
goroutine at the app. Heartbeats go on: a dial or a
call of `HealthClient` ends. Time passes, where a property waits for it. The stops
assume nothing of controllers and timer functions, only that a sleeping task looks
for its message. In `DaoQueue`, `TaskGroup` and `Transaction` jobs, tasks and
functions do return: those who wait for them cannot otherwise.

## The proofs

TLAPS proves, for every value of the constants that satisfies the assumptions
of the module, every safety property that a passing run checks: each invariant and
each action property is a theorem that follows from an inductive invariant proved
before it.

**RouteProofs.** *The registry:* `RegistryTypeCorrect`, `RegistryUniqueIds`, `RegistryRing`,
`RegistrySelectorsAnswer` and `RegistrySteadyNodeKept`. The fourth, that each
addressing method finds a registered node, follows from the two before it: ids are
unique and the rings hold the ids of the nodes. The inductive invariant of the four,
`RegistryInv`, adds to type and uniqueness who holds the lock (`LockInv`: exactly
the goroutine in `addNode`) and what it carries (`MsgInv`: a real address and
id). Uniqueness is needed for the ring: `Remove` takes the id of one node off
it, which is right only if no other node has it. For the last theorem,
`SteadyInv` says that a steady dao's panel, its copies in the list of `tick` and its
handshake under way are all younger than what `tick` expires, the seconds of
the tick included. The assumption is `ConstantsAssumption`, above all
`Period \in 1 .. Timeout`. *The pool:* `PoolInvariant`, `PoolConsistent`,
`FetchesClosedOnlyOnceLeft` and `DrainIsComplete`. `delConn` goes by slot number, so all rests on who is in which
slot: `PoolInv` says that every connection in a slot is in the one it was made for
(`InOwnSlot`), and that one goroutine may take it out, the caller that dials it
while it has no watcher (`DialInv`), its timer afterwards (`WatchInv`). `CountInv`
ties `fetchNum` to the callers that use a connection; the callers are finitely
many (`ClientPoolAssumption`).

**StopProofs.** *The server:* `ServerTypeCorrect`, `ServerCountsCalls`,
`ServerDrainedIsIdle`, `ServerRepliesPrecedeClose` and the
refinement `ServerImplementsGracefulStop`. The heart of the inductive invariant
`ServerInv` is `StopInv`: the stop writes the status and then reads the count, a call
writes the count and then reads the status, so a call the stop has not seen will see
the stop. The assumption is that the requests are finitely many. *The stops of an app
and of a dao:* `AppLeavesNothing`, `DaoLeavesNoJob` and `StopsLeaveNothing`, on the
server's part of `ServerInv`. A stop looks at its counts one after the other and
without a lock; `AppSeen` and `QueueSeen` say what each look has settled for good:
calls first, which alone start timers' work or cast jobs, then the timers or the
queue. Timers are finitely many (`TimersAssumption`).

**CallsProofs.** `DoRepeatsOnlyIfBroken` and `DoTellsBreakerOnce` (the invariants `DoneInv`,
what a call whose connections held and whose answers were read as they are may have had
done at each place of `Do`, and `ToldInv`),
`BreakerTimes` (`TickInv`: the ticks left and the seconds gone make up the whole
time), `LimitKeeps` (for finitely many callers, `LimitAssumption`: the count is that of the
calls under way, and who passes while another is not counted yet is excused), and `QpsCountsItsPeriod` (with the lemma that a rounded mean
lies between). `BreakerTimes` assumes one loop: `RunTick` is called once in a
process (`app.go:108`, `gateway/gateway.go:63`), and with two the seconds of the
breaker would be halved. `GroupInvariant`, `GroupNeverStuck` and `GroupReturnsComplete`, for
any number of tasks and workers: the tasks between what was received and what is in
the channel are in the hands of one worker each (`HandsOfWorkers`), the channel is an
interval (`ChannelIsInterval`), so the task `Wait` stands before is held, or it is the
next to be taken and nobody holds another. This is the safety that `WaitReturns` rests on.

**DaoProofs.** `MemoryInvariant` and `MemoryLocks` of the in-memory source; `ApiInvariant`
and `ApiPostsOnce`, where the invariant counts the executions that are still on their
way (`OnItsWay`); `StartInvariant` and `StartServesAnnounced`, where `SourcesInv` says why a
component that was told a source has it, also while tasks still dial;
`TxInvariant` and `TxIsAtomic`, for any number of goroutines, connections and nested
transactions: only the innermost transaction of a goroutine holds no other, and
the orm registered for the goroutine is its own (`GorInv`); `QueueInvariant` and
`QueueIsSerial`, where the jobs that wait are the last that were cast (`OrderInv`).
`ComsAssumption` sets the controller `Health` apart from the components, as
`DAO.init` does (`dao.go:92`). `HealthInvariant` and `GatewayCallsItsClients`: what the
addresses a gateway calls, its clients and the ports of its apps have to do with one
another at each place of the loop, for apps with any ports, common ones included; an
address without a client is one of the configuration whose turn has not come
(`AddressesAreKnown`).

**WorkProofs.** `SessionInvariant` and `SessionCarriesGseq`: what is left in the storage of a
goroutine whose address is free is what the next user of the address can bear
(`PointerInv`). `ObsInvariant` and `ShutdownIsHeard`: as long as the timers are
subscribed nobody creates or deletes an observer (`TimersHold`, `SubscriberInv`).
`LogInvariant` and `LogClosesComplete`: of each channel, what waits, what the writer
holds and what is in the files make up what was sent, up to the mark of `Close`
(`Pending`, `ChannelInv`), and the open file is that of the hour (`FileInv`).
`ConfigInvariant` and `ConfigLastWins`, for files of any length: each `parseData` on the
stack has read the lines before its own, none of them broken, and its data is that of
the last places in them (`FrameInv`); the stack is the candidate and what it includes
(`StackInv`), and no file that includes itself is ever read to its end, so that what
was included had no further include; the candidates before this one fail (`AttemptInv`).

**NodeProofs.** `CommandInvariant` and `CommandsReachAll`: processes differ in ids and ports
(`ProcessInv`), a process that served when the command began is not replaced by
another under its id (`ServedInv`), and the scan has passed the ports of all that are
left but the one whose id it was just told (`ScanInv`). `CodecInvariant` and
`CodecAnswersOnce`: no Request or Response is in two hands, nor in a hand and a free
list (`HandsInv`), so the number in it is still that of its request, and pending
(`NumbersInv`). `DayInvariant` and `EveryDayIsRun`: the bounds between the local clock,
the midnight it is reckoned from and the last date called, for every length of day
and hour, every time of day and every run short enough (`DayAssumption`).

**DataProofs.** `RingInvariant` and `RingFewKeysMove`, for any nodes, points and keys:
the ring is in order, and a node is on it with all of its points or with none
(`RingInv`). Two lemmas carry the theorem. `HalfFinds`: on a list in order the halving
of `Search` ends, and finds the place below the key, whatever the length;
`RingsAgree`: where two rings have the same points around a key they give it the same
owner. `RawResultIsOwn`, for fields of any width and results
of any length: while rows are read, what is filled is what the rows read so far say, in
the way of the operation, and the container is as the caller had it (`OpenInv`).
`ArgsMarksMatch`, for lists of any length: what was flattened and what is left make up
the leaves of all arguments (`ArgsInv`), and each argument has as many leaves as marks.

**Loops** has what the last module rests on and what names no component: concatenations
over a sequence, recursive functions, sequences built by a loop. The
library's induction theorems have an operator as parameter, which the provers at hand
cannot be given; here the induction goes over a *set* of numbers, whose least element
is looked at (`Least`, `UpTo`). A definition `f[i \in S] == ...` means its equation only
if some function satisfies it, so that `Steps` and `Recursion` first prove that one does, for
every recursion that goes back to the number before.

Out of the prover's reach, and model-checked only, is liveness under fairness:
`RegistryFollows`, `DoReturns`, `FailingMethodTrips`, `SleepersEnd`,
`WaitReturns`, `AppIsFound`, `QueueSettles`, `TransactionsEnd`. The properties that some
run refutes are of course not theorems.

## What is not modelled

* *Code nothing calls.* `call_route.go`, `call_conn.go`, `call_server.go`, `timer.go`
  and others begin with copies of library code the framework does not reach.
* *Text and transport.* JSON-RPC bytes, lines of a configuration longer than the reader's
  buffer of 4096 bytes (`config.go:91`, which takes each part for a line), URLs, the wording of the log, the output of the
  commands that print a state, the SQL text of dialects.
* *Reflection.* Registering controllers and models by their types and filling the
  fields of structs (`RowsToStruct`, in which fields tagged "_" stay empty): what they
  do depends on types alone, and nothing changes afterwards. `GotreeMap`, a map under a
  lock, is used as one by `ComMemory`; the helpers copy and convert values.
* *The web framework* under an app, the redis and SQL drivers, the http transport.
* *Distribution of random choices* (`RandomAddr`, `BalanceAddr`, the slots `fetch`
  draws): any outcome is possible, and no property is about how often.
* *The template generator* (`gotree/main.go`) and the examples.

Hazards without a property are in `PROJECT.json` with the reason.

## Plan

Every safety property of a passing run has its theorem. What could come next is
breadth: the time-outs of the http transport and of the redis pools, the fields that
`RowsToStruct` fills, and invariants that the liveness of `QueueSettles` and
`RegistryFollows` rests on (a queue with a job has a goroutine that will look at it; a
panel of a dead dao never grows younger), as `GroupNeverStuck` is one for `WaitReturns`.
