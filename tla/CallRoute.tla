------------------------------ MODULE CallRoute ------------------------------
(***************************************************************************)
(* The registry of DAO nodes an app keeps for one service                  *)
(* (framework/call_route.go, framework/panel.go).  DAO processes shake     *)
(* hands with the app every two seconds (HealthController.HandShake fires  *)
(* the event "newCom", CallRoute.addCom adds or refreshes a Panel); every  *)
(* two seconds CallRoute.tick removes the Panels that were not refreshed   *)
(* for _CHECK_PANEL_TIMEOUT seconds.                                       *)
(*                                                                         *)
(* CallRoute.pmap holds one `panels` per service name, and nothing relates *)
(* two of them: the module models one.  A Panel's `update` (a Unix time)   *)
(* is modelled by its age, now - update, saturated at AgeCap; saturation   *)
(* is exact, because tick compares update with the time it began, and the  *)
(* clock does not advance more than MaxScan seconds in one tick.           *)
(***************************************************************************)
EXTENDS Integers, FiniteSets

CONSTANTS
    Addrs,      \* the "ip_port" keys DAO processes listen on
    Ids,        \* the node ids a deployment gives out (1 is the master)
    Conns,      \* the goroutines that may run addCom concurrently
    None,       \* not a connection, not an address
    LocalAddrs, \* addresses LocalAddCom registers (unit-test mode)
    MaxID,      \* the "MaxID:n" a DAO announces in Extra, 0 for none
    Timeout,    \* _CHECK_PANEL_TIMEOUT, in seconds
    MaxScan,    \* bound: the seconds one tick may last
    Steady,     \* DAOs the environment promises to hear from every Period
    Period      \* seconds between two handshakes of a steady DAO

ASSUME ConstantsAssumption ==
    /\ Ids \subseteq Nat \ {0}
    /\ None \notin Addrs \cup Conns
    /\ LocalAddrs \subseteq Addrs
    /\ Steady \subseteq Addrs
    /\ MaxID \in Nat
    /\ Timeout \in Nat \ {0}
    /\ MaxScan \in Nat
    /\ Period \in 1 .. Timeout

Down   == 0     \* dao[a] when no process listens on a
Local  == -1    \* the update = -1 of LocalAddCom
Linked == -2    \* a listed pointer that is still the one in pmap

AgeCap == Timeout + MaxScan + 1
Ages   == (0 .. AgeCap) \cup {Local}

VARIABLES
    dao,        \* the node id of the process running at an address, or Down
    nodes,      \* the keys of panels.pmap
    id,         \* Panel.id of the node at an address (0: no node)
    age,        \* now - Panel.update of the node at an address (0: no node)
    hotNode,    \* the node ids on the ring of live nodes
    hashNode,   \* the node ids on the ring of all nodes ever announced
    lock,       \* the goroutine holding CallRoute.lock across addNode, or None
    pc,         \* where each connection goroutine stands
    msg,        \* the Panel each connection goroutine is adding
    tick,       \* where the tick goroutine stands
    elapsed,    \* seconds since tick computed tu
    listed,     \* the items of tick's list it has not visited yet
    detached,   \* the age of a listed Panel no longer in pmap, else Linked
    doomed      \* the address of the item tick found expired, or None

panelVars == <<nodes, id, age, hotNode, hashNode>>
connVars  == <<lock, pc, msg>>
tickVars  == <<tick, elapsed, listed, detached, doomed>>
vars == <<dao, panelVars, connVars, tickVars>>

NoMsg == [addr |-> None, id |-> 0, age |-> 0]

Init ==
    /\ dao = [a \in Addrs |-> Down]
    /\ nodes = {} /\ hotNode = {} /\ hashNode = {}
    /\ id = [a \in Addrs |-> 0]
    /\ age = [a \in Addrs |-> 0]
    /\ lock = None
    /\ pc = [c \in Conns |-> "idle"]
    /\ msg = [c \in Conns |-> NoMsg]
    /\ tick = "idle" /\ elapsed = 0
    /\ listed = {} /\ doomed = None
    /\ detached = [a \in Addrs |-> Linked]

-----------------------------------------------------------------------------
(* The DAO processes and the clock.                                        *)

DaoStart(a, i) ==
    /\ dao[a] = Down
    /\ dao' = [dao EXCEPT ![a] = i]
    /\ UNCHANGED <<panelVars, connVars, tickVars>>

DaoStop(a) ==
    /\ dao[a] # Down
    /\ a \notin Steady
    /\ dao' = [dao EXCEPT ![a] = Down]
    /\ UNCHANGED <<panelVars, connVars, tickVars>>

Older(x) == IF x < 0 THEN x ELSE IF x < AgeCap THEN x + 1 ELSE AgeCap

\* What the environment promises: a steady DAO is heard of every Period, and
\* its handshakes do not wait for the lock longer than that.
SteadyPromise ==
    /\ \A a \in Steady \cap nodes : age[a] < Period
    /\ \A c \in Conns : msg[c].addr \in Steady => msg[c].age < Period

Second ==
    /\ SteadyPromise
    /\ tick # "idle" => elapsed < MaxScan
    /\ elapsed' = IF tick = "idle" THEN 0 ELSE elapsed + 1
    /\ age' = [a \in Addrs |-> IF a \in nodes THEN Older(age[a]) ELSE 0]
    /\ detached' = [a \in Addrs |-> Older(detached[a])]
    /\ msg' = [c \in Conns |-> IF msg[c] = NoMsg THEN NoMsg
                               ELSE [msg[c] EXCEPT !.age = Older(@)]]
    /\ UNCHANGED <<dao, nodes, id, hotNode, hashNode, lock, pc, tick, listed, doomed>>

-----------------------------------------------------------------------------
(* addCom: the Panel is built with the time of the request, then the       *)
(* goroutine waits for CallRoute.lock and keeps it through addNode.        *)

HandShake(c, a) ==
    /\ pc[c] = "idle"
    /\ dao[a] # Down
    /\ msg' = [msg EXCEPT ![c] = [addr |-> a, id |-> dao[a], age |-> 0]]
    /\ pc' = [pc EXCEPT ![c] = "arrived"]
    /\ UNCHANGED <<dao, panelVars, lock, tickVars>>

LocalAddCom(c, a, i) ==
    /\ pc[c] = "idle"
    /\ a \in LocalAddrs
    /\ msg' = [msg EXCEPT ![c] = [addr |-> a, id |-> i, age |-> Local]]
    /\ pc' = [pc EXCEPT ![c] = "arrived"]
    /\ UNCHANGED <<dao, panelVars, lock, tickVars>>

AddBegin(c) ==
    /\ pc[c] = "arrived"
    /\ lock = None
    /\ lock' = c
    /\ pc' = [pc EXCEPT ![c] = "adding"]
    /\ UNCHANGED <<dao, panelVars, msg, tickVars>>

\* Mutant: addNode does not look for a node with the same id.
ReplacesNothing(m) == {}

\* The nodes addNode removes first: the id of the new node, another address.
Replaced(m) == {a \in nodes : id[a] = m.id /\ a # m.addr}

\* Mutant: remove leaves the virtual nodes on the ring.
RemoveFromMapOnly(a) ==
    /\ nodes' = nodes \ {a}
    /\ id' = [id EXCEPT ![a] = 0]
    /\ age' = [age EXCEPT ![a] = 0]
    /\ UNCHANGED <<hotNode, detached>>

\* panels.remove.  A Panel tick still lists keeps the update it had.
Remove(a) ==
    /\ nodes' = nodes \ {a}
    /\ hotNode' = hotNode \ {id[a]}
    /\ id' = [id EXCEPT ![a] = 0]
    /\ age' = [age EXCEPT ![a] = 0]
    /\ detached' = [detached EXCEPT ![a] = IF a \in listed /\ a \in nodes /\ @ = Linked
                                           THEN age[a] ELSE @]

AddReplace(c) ==
    /\ pc[c] = "adding"
    /\ \E a \in Replaced(msg[c]) : Remove(a)
    /\ UNCHANGED <<dao, hashNode, connVars, tick, elapsed, listed, doomed>>

\* A node already at the address is only refreshed: its id stays.
AddRefresh(m) ==
    /\ m.addr \in nodes
    /\ age' = [age EXCEPT ![m.addr] = m.age]
    /\ UNCHANGED <<nodes, id, hotNode, hashNode>>

AddNew(m) ==
    /\ m.addr \notin nodes
    /\ nodes' = nodes \cup {m.addr}
    /\ id' = [id EXCEPT ![m.addr] = m.id]
    /\ age' = [age EXCEPT ![m.addr] = m.age]
    /\ hotNode' = hotNode \cup {m.id}
    /\ hashNode' = hashNode \cup (1 .. MaxID)

AddNode(c) ==
    /\ pc[c] = "adding"
    /\ Replaced(msg[c]) = {}
    /\ AddRefresh(msg[c]) \/ AddNew(msg[c])
    /\ lock' = None
    /\ pc' = [pc EXCEPT ![c] = "idle"]
    /\ msg' = [msg EXCEPT ![c] = NoMsg]
    /\ UNCHANGED <<dao, tickVars>>

-----------------------------------------------------------------------------
(* tick: tu is computed, then the list is copied under the lock; each item *)
(* is read through its pointer without a lock, and removed by address.     *)

TickBegin ==
    /\ tick = "idle"
    /\ tick' = "begun"
    /\ elapsed' = 0
    /\ UNCHANGED <<dao, panelVars, connVars, listed, detached, doomed>>

AllPane ==
    /\ tick = "begun"
    /\ lock = None
    /\ tick' = "scan"
    /\ listed' = nodes
    /\ UNCHANGED <<dao, panelVars, connVars, elapsed, detached, doomed>>

ItemAge(a) == IF detached[a] = Linked THEN age[a] ELSE detached[a]

\* Mutant: update <= tu.
ExpiredAtTimeout(a) == ItemAge(a) # Local /\ ItemAge(a) - elapsed >= Timeout

\* Mutant: the operands of the subtraction are swapped.
ExpiredSwapped(a) == ItemAge(a) # Local /\ elapsed - ItemAge(a) > Timeout

\* item.update < tu, where tu = (time tick began) - Timeout.
Expired(a) == ItemAge(a) # Local /\ ItemAge(a) - elapsed > Timeout

TickVisit(a) ==
    /\ tick = "scan"
    /\ doomed = None
    /\ a \in listed
    /\ listed' = listed \ {a}
    /\ detached' = [detached EXCEPT ![a] = Linked]
    /\ doomed' = IF Expired(a) THEN a ELSE None
    /\ UNCHANGED <<dao, panelVars, connVars, tick, elapsed>>

\* Mutant: removeNode returns without unlocking.
TickRemoveKeepsLock ==
    /\ doomed # None
    /\ lock = None
    /\ IF doomed \in nodes THEN Remove(doomed)
       ELSE UNCHANGED <<nodes, id, age, hotNode, detached>>
    /\ lock' = doomed
    /\ doomed' = None
    /\ UNCHANGED <<dao, hashNode, pc, msg, tick, elapsed, listed>>

\* removeNode: whatever Panel is at the address by now goes.
TickRemove ==
    /\ doomed # None
    /\ lock = None
    /\ IF doomed \in nodes THEN Remove(doomed)
       ELSE UNCHANGED <<nodes, id, age, hotNode, detached>>
    /\ doomed' = None
    /\ UNCHANGED <<dao, hashNode, connVars, tick, elapsed, listed>>

TickEnd ==
    /\ tick = "scan"
    /\ listed = {} /\ doomed = None
    /\ tick' = "idle"
    /\ elapsed' = 0
    /\ UNCHANGED <<dao, panelVars, connVars, listed, detached, doomed>>

-----------------------------------------------------------------------------
(* What a request asks the registry for (ComAddr of a CallCmd): a selector *)
(* reads the panels under their lock and draws one node, so it is the set  *)
(* of the addresses it may answer.  {} is the empty string; only SlaveAddr *)
(* draws from a list it has not looked at, and panics if that is empty.    *)

RandomAddr  == nodes
BalanceAddr == nodes

\* A hashed value falls on any id of a ring, and on none of an empty one.
HotHashRpcId == IF hotNode = {} THEN {0} ELSE hotNode
HashRpcId    == IF hashNode = {} THEN {0} ELSE hashNode

WithId(i) == {a \in nodes : id[a] = i}

HostHashRpcAddr == {WithId(i) : i \in HotHashRpcId}
HashRpcAddr     == {WithId(i) : i \in HashRpcId}

MasterAddr == WithId(1)
SlaveAddr  == IF Cardinality(nodes) <= 1 THEN nodes ELSE nodes \ MasterAddr

\* The answers of any selector but HashRpcAddr and MasterAddr, which may well
\* find no node: an announced id need not run, nor a master.
Answers == {RandomAddr, BalanceAddr, SlaveAddr} \cup HostHashRpcAddr

\* RemoteAddr refuses a service without nodes with ErrNetwork.
RemoteAddr(answers) == IF nodes = {} THEN {None} ELSE answers

-----------------------------------------------------------------------------
Adder(c) == AddBegin(c) \/ AddReplace(c) \/ AddNode(c)
Ticker   == TickBegin \/ AllPane \/ (\E a \in Addrs : TickVisit(a)) \/ TickRemove \/ TickEnd

Next ==
    \/ \E a \in Addrs : DaoStop(a) \/ \E i \in Ids : DaoStart(a, i)
    \/ \E c \in Conns, a \in Addrs : HandShake(c, a)
    \/ \E c \in Conns, a \in Addrs, i \in Ids : LocalAddCom(c, a, i)
    \/ \E c \in Conns : Adder(c)
    \/ Ticker
    \/ Second

Spec == Init /\ [][Next]_vars

(* DAOs keep shaking hands, goroutines keep running and time passes.  A    *)
(* sync.Mutex hands itself over to a waiter that starves, so a goroutine   *)
(* that waits for CallRoute.lock gets it: strong fairness.                 *)
Fairness ==
    /\ \A a \in Addrs : SF_vars(\E c \in Conns : HandShake(c, a))
    /\ \A c \in Conns : /\ SF_vars(AddBegin(c))
                         /\ WF_vars(AddReplace(c) \/ AddNode(c))
    /\ WF_vars(TickBegin) /\ SF_vars(AllPane) /\ SF_vars(TickRemove) /\ WF_vars(TickEnd)
    /\ \A a \in Addrs : WF_vars(TickVisit(a))
    /\ WF_vars(Second)

FairSpec == Spec /\ Fairness

-----------------------------------------------------------------------------
MsgType ==
    [addr : Addrs \cup {None}, id : Ids \cup {0}, age : Ages]

\* id 0 stands for "no node", and exactly for that.
TypeOK ==
    /\ dao \in [Addrs -> Ids \cup {Down}]
    /\ nodes \subseteq Addrs
    /\ id \in [Addrs -> Ids \cup {0}]
    /\ age \in [Addrs -> Ages]
    /\ hotNode \subseteq Ids
    /\ hashNode \subseteq 1 .. MaxID
    /\ lock \in Conns \cup {None}
    /\ pc \in [Conns -> {"idle", "arrived", "adding"}]
    /\ msg \in [Conns -> MsgType]
    /\ tick \in {"idle", "begun", "scan"}
    /\ elapsed \in 0 .. MaxScan
    /\ listed \subseteq Addrs
    /\ detached \in [Addrs -> Ages \cup {Linked}]
    /\ doomed \in Addrs \cup {None}
    /\ \A a \in Addrs : a \in nodes <=> id[a] # 0

\* No two nodes of a service have one id, at any instant a selector may read
\* the registry.
UniqueIds == \A a, b \in nodes : id[a] = id[b] => a = b

\* The ring of live nodes carries the ids of the registered nodes and no
\* other, whatever replacements and expiries interleave: a hashed id always
\* resolves to an address, and HostHashRpcAddr answers "" only for an empty
\* registry.
RingMatchesNodes == hotNode = {id[a] : a \in nodes}

\* A request of a service with nodes gets one of them: a hashed id resolves to
\* exactly one address (an id on the ring that no node carries would send the
\* request nowhere, two nodes of one id would split its keys), every node has
\* its share of the hashed ids, there is one master at most, and SlaveAddr never
\* draws from an empty list, which rand.Intn would answer with a panic in the
\* caller.
SelectorsAnswer ==
    /\ \A answers \in Answers : RemoteAddr(answers) # {}
    /\ \A answers \in HostHashRpcAddr \cup HashRpcAddr :
          \A a, b \in answers : a = b
    /\ \A a \in nodes : {a} \in HostHashRpcAddr

\* tick never drops a DAO that keeps shaking hands every Period <= Timeout
\* seconds, not even through a pointer to a Panel replaced meanwhile: such a
\* node leaves only when another address registers its id.
SteadyNodeKept ==
    [][\A a \in Steady : (a \in nodes /\ a \notin nodes') =>
          \E c \in Conns : pc[c] = "adding" /\ msg[c].id = id[a] /\ msg[c].addr # a]_vars

\* The registry follows the DAOs: a node whose DAO is gone for good is dropped
\* and stays dropped, unless LocalAddCom registered it, and a DAO that stays up
\* under an id nobody else announces is registered again and again, although
\* tick may drop it by address after it was refreshed.
RegistryFollows ==
    \A a \in Addrs :
        /\ (a \notin LocalAddrs /\ <>[](dao[a] = Down)) => <>[](a \notin nodes)
        /\ (<>[](dao[a] # Down /\ \A b \in Addrs \ {a} : dao[b] # dao[a])) => []<>(a \in nodes)
=============================================================================
