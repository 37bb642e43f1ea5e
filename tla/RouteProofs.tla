----------------------------- MODULE RouteProofs -----------------------------
(***************************************************************************)
(* What holds of the way to the daos: of the registry that knows them      *)
(* (CallRoute) for every set of addresses, ids and goroutines, every       *)
(* Timeout and every Period up to it, and of the connections to one        *)
(* (ConnPool) for every finite set of callers, every number of slots and   *)
(* every limit of turns.                                                   *)
(***************************************************************************)
EXTENDS CallRoute, ConnPool, FiniteSetTheorems, TLAPS

-----------------------------------------------------------------------------
(* The registry is consistent because addNode keeps CallRoute.lock from    *)
(* the moment it looks for nodes of the same id until the new node is in:  *)
(* LockInv and MsgInv say who may change the registry and with what,       *)
(* UniqueIds is what makes one Remove take one id off the ring.            *)

\* The goroutine in addNode, and no other, holds the lock.
LockInv == \A c \in Conns : pc[c] = "adding" <=> lock = c

\* A goroutine on its way to addNode carries a real address and id.
MsgInv == \A c \in Conns : pc[c] # "idle" => msg[c].addr \in Addrs /\ msg[c].id \in Ids

RegistryInv ==
    /\ TypeOK
    /\ LockInv
    /\ MsgInv
    /\ UniqueIds
    /\ RingMatchesNodes

LEMMA AgeFacts ==
    /\ AgeCap \in Nat /\ AgeCap > 0 /\ AgeCap > Timeout + MaxScan
    /\ 0 \in Ages /\ Local \in Ages
    /\ \A x \in Ages : Older(x) \in Ages
    /\ \A x \in Ages \cup {Linked} : Older(x) \in Ages \cup {Linked}
  BY ConstantsAssumption DEF AgeCap, Ages, Older, Local, Linked

LEMMA InitRegistry == Init => RegistryInv
  BY AgeFacts, ConstantsAssumption
  DEF Init, RegistryInv, TypeOK, MsgType, NoMsg, LockInv, MsgInv, UniqueIds,
      RingMatchesNodes, Down

\* Taking one node off the registry, under the lock, keeps it consistent.
LEMMA RemoveKeepsRegistry ==
  ASSUME RegistryInv, NEW a \in nodes, Remove(a),
         UNCHANGED <<dao, hashNode, lock, pc, msg, tick, elapsed, listed>>,
         doomed' \in Addrs \cup {None}
  PROVE  RegistryInv'
<1> USE DEF RegistryInv
<1>1. TypeOK'
  BY AgeFacts, ConstantsAssumption DEF TypeOK, Remove
<1>2. LockInv' /\ MsgInv'
  BY DEF LockInv, MsgInv
<1>3. UniqueIds'
  BY DEF UniqueIds, Remove, TypeOK
<1>4. RingMatchesNodes'
  BY DEF RingMatchesNodes, UniqueIds, Remove, TypeOK
<1> QED BY <1>1, <1>2, <1>3, <1>4

LEMMA AddNodeKeepsRegistry ==
  ASSUME RegistryInv, NEW c \in Conns, AddNode(c)
  PROVE  RegistryInv'
<1> USE DEF RegistryInv
<1> DEFINE m == msg[c]
<1>1. m.addr \in Addrs /\ m.id \in Ids /\ m.age \in Ages /\ m.id # 0
  BY ConstantsAssumption DEF AddNode, MsgInv, TypeOK, MsgType
<1>2. TypeOK'
  <2>1. NoMsg \in MsgType
    BY AgeFacts DEF NoMsg, MsgType
  <2>2. CASE AddRefresh(m)
    BY <1>1, <2>1, <2>2 DEF TypeOK, AddNode, AddRefresh, tickVars
  <2>3. CASE AddNew(m)
    BY <1>1, <2>1, <2>3, ConstantsAssumption DEF TypeOK, AddNode, AddNew, tickVars
  <2> QED BY <2>2, <2>3 DEF AddNode
<1>3. LockInv' /\ MsgInv'
  BY ConstantsAssumption DEF LockInv, MsgInv, AddNode, TypeOK
<1>4. UniqueIds'
  BY <1>1 DEF UniqueIds, AddNode, AddRefresh, AddNew, Replaced, TypeOK
<1>5. RingMatchesNodes'
  BY <1>1 DEF RingMatchesNodes, AddNode, AddRefresh, AddNew, TypeOK
<1> QED BY <1>2, <1>3, <1>4, <1>5

LEMMA NextRegistry == RegistryInv /\ [Next]_vars => RegistryInv'
<1> SUFFICES ASSUME RegistryInv, [Next]_vars PROVE RegistryInv'
  OBVIOUS
<1> USE DEF RegistryInv
<1>1. ASSUME NEW a \in Addrs, NEW i \in Ids, DaoStart(a, i) PROVE RegistryInv'
  BY <1>1 DEF DaoStart, panelVars, connVars, tickVars, TypeOK, LockInv, MsgInv,
              UniqueIds, RingMatchesNodes
<1>2. ASSUME NEW a \in Addrs, DaoStop(a) PROVE RegistryInv'
  BY <1>2 DEF DaoStop, panelVars, connVars, tickVars, TypeOK, LockInv, MsgInv,
              UniqueIds, RingMatchesNodes, Down
<1>3. ASSUME Second PROVE RegistryInv'
  <2>1. elapsed' \in 0 .. MaxScan
    BY <1>3, ConstantsAssumption DEF Second, TypeOK
  <2>2. msg' \in [Conns -> MsgType]
    <3>1. msg \in [Conns -> MsgType] /\ NoMsg \in MsgType
      BY AgeFacts DEF TypeOK, MsgType, NoMsg
    <3>2. \A c \in Conns : [msg[c] EXCEPT !.age = Older(@)] \in MsgType
      BY <3>1, AgeFacts DEF MsgType
    <3>3. msg' = [c \in Conns |-> IF msg[c] = NoMsg THEN NoMsg
                                 ELSE [msg[c] EXCEPT !.age = Older(@)]]
      BY <1>3 DEF Second
    <3> QED BY <3>1, <3>2, <3>3
  <2>3. \A c \in Conns : msg'[c].addr = msg[c].addr /\ msg'[c].id = msg[c].id
    BY <1>3 DEF Second, TypeOK, MsgType, NoMsg
  <2>4. TypeOK'
    BY <1>3, <2>1, <2>2, AgeFacts DEF Second, TypeOK
  <2> QED
    BY <1>3, <2>3, <2>4 DEF Second, LockInv, MsgInv, UniqueIds, RingMatchesNodes
<1>4. ASSUME NEW c \in Conns, NEW a \in Addrs, HandShake(c, a) PROVE RegistryInv'
  <2>1. dao[a] \in Ids
    BY <1>4 DEF HandShake, TypeOK
  <2> QED
    BY <1>4, <2>1, AgeFacts
    DEF HandShake, panelVars, tickVars, TypeOK, MsgType, LockInv, MsgInv, UniqueIds,
        RingMatchesNodes
<1>5. ASSUME NEW c \in Conns, NEW a \in Addrs, NEW i \in Ids, LocalAddCom(c, a, i)
      PROVE RegistryInv'
  BY <1>5, AgeFacts
  DEF LocalAddCom, panelVars, tickVars, TypeOK, MsgType, LockInv, MsgInv, UniqueIds,
      RingMatchesNodes
<1>6. ASSUME NEW c \in Conns, AddBegin(c) PROVE RegistryInv'
  BY <1>6, ConstantsAssumption
  DEF AddBegin, panelVars, tickVars, TypeOK, LockInv, MsgInv, UniqueIds, RingMatchesNodes
<1>7. ASSUME NEW c \in Conns, AddReplace(c) PROVE RegistryInv'
  BY <1>7, RemoveKeepsRegistry DEF AddReplace, Replaced, connVars, TypeOK
<1>8. ASSUME NEW c \in Conns, AddNode(c) PROVE RegistryInv'
  BY <1>8, AddNodeKeepsRegistry
<1>9. ASSUME TickBegin PROVE RegistryInv'
  BY <1>9, ConstantsAssumption
  DEF TickBegin, panelVars, connVars, TypeOK, LockInv, MsgInv, UniqueIds, RingMatchesNodes
<1>10. ASSUME AllPane PROVE RegistryInv'
  BY <1>10
  DEF AllPane, panelVars, connVars, TypeOK, LockInv, MsgInv, UniqueIds, RingMatchesNodes
<1>11. ASSUME NEW a \in Addrs, TickVisit(a) PROVE RegistryInv'
  BY <1>11
  DEF TickVisit, panelVars, connVars, TypeOK, LockInv, MsgInv, UniqueIds, RingMatchesNodes
<1>12. ASSUME TickRemove PROVE RegistryInv'
  <2>1. CASE doomed \in nodes
    BY <1>12, <2>1, RemoveKeepsRegistry DEF TickRemove, connVars
  <2>2. CASE doomed \notin nodes
    BY <1>12, <2>2
    DEF TickRemove, connVars, TypeOK, LockInv, MsgInv, UniqueIds, RingMatchesNodes
  <2> QED BY <2>1, <2>2
<1>13. ASSUME TickEnd PROVE RegistryInv'
  BY <1>13, ConstantsAssumption
  DEF TickEnd, panelVars, connVars, TypeOK, LockInv, MsgInv, UniqueIds, RingMatchesNodes
<1>14. CASE UNCHANGED vars
  BY <1>14
  DEF vars, panelVars, connVars, tickVars, TypeOK, LockInv, MsgInv, UniqueIds,
      RingMatchesNodes
<1> QED
  BY <1>1, <1>2, <1>3, <1>4, <1>5, <1>6, <1>7, <1>8, <1>9, <1>10, <1>11, <1>12, <1>13,
     <1>14 DEF Next, Adder, Ticker

\* The registry is well formed in every reachable state.
THEOREM RegistryTypeCorrect == Spec => []TypeOK
<1>1. RegistryInv => TypeOK BY DEF RegistryInv
<1> QED BY <1>1, InitRegistry, NextRegistry, PTL DEF Spec

\* MasterAddr is unambiguous and SlaveAddr never draws from an empty list.
THEOREM RegistryUniqueIds == Spec => []UniqueIds
<1>1. RegistryInv => UniqueIds BY DEF RegistryInv
<1> QED BY <1>1, InitRegistry, NextRegistry, PTL DEF Spec

\* A hashed id always belongs to a registered node.
THEOREM RegistryRing == Spec => []RingMatchesNodes
<1>1. RegistryInv => RingMatchesNodes BY DEF RegistryInv
<1> QED BY <1>1, InitRegistry, NextRegistry, PTL DEF Spec

\* With one node per id and every id of the ring at a node, each selector finds
\* what it must: two nodes cannot both be the master SlaveAddr leaves out.
LEMMA ConsistentAnswers == RegistryInv => SelectorsAnswer
<1> SUFFICES ASSUME RegistryInv PROVE SelectorsAnswer
  OBVIOUS
<1> USE DEF RegistryInv
<1>1. \A i : \A a, b \in WithId(i) : a = b
  BY DEF WithId, UniqueIds
<1>2. \A answers \in HostHashRpcAddr \cup HashRpcAddr : \A a, b \in answers : a = b
  BY <1>1 DEF HostHashRpcAddr, HashRpcAddr
<1>3. ASSUME nodes # {} PROVE \A answers \in HostHashRpcAddr : answers # {}
  <2>1. hotNode # {}
    BY <1>3 DEF RingMatchesNodes
  <2>2. \A i \in hotNode : WithId(i) # {}
    BY DEF RingMatchesNodes, WithId
  <2> QED BY <2>1, <2>2 DEF HostHashRpcAddr, HotHashRpcId
<1>4. ASSUME nodes # {}, SlaveAddr = {} PROVE FALSE
  <2>1. ~(Cardinality(nodes) <= 1) /\ nodes \subseteq WithId(1)
    BY <1>4 DEF SlaveAddr, MasterAddr
  <2>2. PICK a \in nodes : TRUE
    BY <1>4
  <2>3. nodes = {a}
    BY <1>1, <2>1, <2>2
  <2>4. Cardinality(nodes) = 1
    BY <2>3, FS_Singleton
  <2> QED BY <2>1, <2>4
<1>5. \A answers \in Answers : RemoteAddr(answers) # {}
  BY <1>3, <1>4 DEF Answers, RemoteAddr, RandomAddr, BalanceAddr
<1>6. ASSUME NEW a \in nodes PROVE {a} \in HostHashRpcAddr
  <2>1. id[a] \in HotHashRpcId
    BY DEF RingMatchesNodes, HotHashRpcId
  <2>2. WithId(id[a]) = {a}
    BY <1>1 DEF WithId
  <2> QED BY <2>1, <2>2 DEF HostHashRpcAddr
<1> QED BY <1>2, <1>5, <1>6 DEF SelectorsAnswer

\* For every set of addresses and ids, whatever handshakes and expiries
\* interleave, no selector fails on a registry that has a node.
THEOREM RegistrySelectorsAnswer == Spec => []SelectorsAnswer
<1>1. Init => RegistryInv
  BY InitRegistry
<1>2. RegistryInv /\ [Next]_vars => RegistryInv'
  BY NextRegistry
<1> QED BY <1>1, <1>2, ConsistentAnswers, PTL DEF Spec

-----------------------------------------------------------------------------
(* Why tick spares a DAO that keeps shaking hands.  Its node, and every    *)
(* handshake of its that still waits for the lock, is at most Period old;  *)
(* a Panel tick still points to after it left pmap was at most Period old  *)
(* when it left, and ages no faster than the tick does.                    *)

SteadyInv ==
    /\ \A a \in Steady \cap nodes : age[a] <= Period
    /\ \A a \in Addrs \ nodes : age[a] = 0
    /\ \A c \in Conns : msg[c].addr \in Steady => msg[c].age <= Period
    /\ \A a \in Steady : detached[a] # Linked => detached[a] - elapsed <= Period
    /\ \A a \in Addrs \ listed : detached[a] = Linked
    /\ tick # "scan" => listed = {}
    /\ doomed \notin Steady

LEMMA ConstantFacts ==
    /\ Period \in Nat /\ 0 < Period /\ Period <= Timeout
    /\ Timeout \in Nat /\ MaxScan \in Nat
    /\ Steady \subseteq Addrs /\ None \notin Steady /\ None \notin Addrs
    /\ \A x \in Ages : x \in Int
  BY ConstantsAssumption DEF Ages, AgeCap, Local

\* One second makes nothing older than what the environment promises.
LEMMA OlderFacts ==
    /\ \A x \in Ages : x < Period => Older(x) <= Period
    /\ \A x \in Ages : Older(x) <= x + 1
    /\ Older(Linked) = Linked
    /\ \A x \in Ages : x # Linked /\ Older(x) # Linked
  BY ConstantFacts DEF Ages, AgeCap, Older, Local, Linked

LEMMA InitSteady == Init => SteadyInv
  BY ConstantFacts DEF Init, SteadyInv, NoMsg, Linked

LEMMA RemoveKeepsSteady ==
  ASSUME RegistryInv, SteadyInv, NEW a \in nodes, Remove(a),
         UNCHANGED <<msg, tick, elapsed, listed>>, doomed' \in {doomed, None}
  PROVE  SteadyInv'
<1> USE DEF SteadyInv
<1>1. a \in Addrs /\ TypeOK
  BY DEF RegistryInv, TypeOK
<1>2. \A b \in Steady : detached'[b] # Linked => detached'[b] - elapsed' <= Period
  <2> SUFFICES ASSUME NEW b \in Steady, detached'[b] # Linked
               PROVE  detached'[b] - elapsed <= Period
    OBVIOUS
  <2>1. b \in Addrs BY ConstantFacts
  <2>2. CASE detached'[b] = detached[b]
    BY <2>2
  <2>3. CASE detached'[b] # detached[b]
    <3>1. b = a /\ detached'[b] = age[a]
      BY <1>1, <2>1, <2>3 DEF Remove, TypeOK
    <3>2. age[a] \in Ages /\ elapsed \in Nat
      BY <1>1, ConstantFacts DEF TypeOK
    <3>3. age[a] <= Period
      BY <3>1
    <3>4. age[a] \in Int /\ Period \in Int
      BY <3>2, ConstantFacts
    <3>5. age[a] - elapsed <= Period
      BY <3>2, <3>3, <3>4
    <3> QED BY <3>1, <3>5
  <2> QED BY <2>2, <2>3
<1>3. \A b \in Addrs \ listed' : detached'[b] = Linked
  BY <1>1 DEF Remove, TypeOK
<1>4. /\ \A b \in Steady \cap nodes' : age'[b] <= Period
      /\ \A b \in Addrs \ nodes' : age'[b] = 0
  BY <1>1, ConstantFacts DEF Remove, TypeOK
<1> QED BY <1>2, <1>3, <1>4, ConstantFacts

LEMMA NextSteady == RegistryInv /\ SteadyInv /\ [Next]_vars => SteadyInv'
<1> SUFFICES ASSUME RegistryInv, SteadyInv, [Next]_vars PROVE SteadyInv'
  OBVIOUS
<1> USE ConstantFacts DEF SteadyInv
<1>0. TypeOK BY DEF RegistryInv
<1>1. ASSUME NEW a \in Addrs, NEW i \in Ids, DaoStart(a, i) PROVE SteadyInv'
  BY <1>1 DEF DaoStart, panelVars, connVars, tickVars
<1>2. ASSUME NEW a \in Addrs, DaoStop(a) PROVE SteadyInv'
  BY <1>2 DEF DaoStop, panelVars, connVars, tickVars
<1>3. ASSUME Second PROVE SteadyInv'
  <2>1. \A a \in Steady \cap nodes' : age'[a] <= Period
    BY <1>0, <1>3, OlderFacts DEF Second, SteadyPromise, TypeOK
  <2>2. \A c \in Conns : msg'[c].addr \in Steady => msg'[c].age <= Period
    BY <1>0, <1>3, OlderFacts DEF Second, SteadyPromise, TypeOK, MsgType, NoMsg
  <2>3. \A a \in Steady : detached'[a] # Linked => detached'[a] - elapsed' <= Period
    <3> SUFFICES ASSUME NEW a \in Steady, detached'[a] # Linked
                 PROVE  detached'[a] - elapsed' <= Period
      OBVIOUS
    <3>1. detached'[a] = Older(detached[a])
      BY <1>3 DEF Second
    <3>2. detached[a] # Linked /\ detached[a] \in Ages
      BY <1>0, <3>1, OlderFacts DEF TypeOK
    <3>3. a \in listed /\ tick = "scan"
      BY <3>2
    <3>4. elapsed' = elapsed + 1 /\ elapsed \in Int
      BY <1>0, <1>3, <3>3 DEF Second, TypeOK
    <3>5. detached[a] \in Int /\ Older(detached[a]) \in Int
      BY <3>2, AgeFacts
    <3>6. Older(detached[a]) <= detached[a] + 1
      BY <3>2, OlderFacts
    <3>7. detached[a] - elapsed <= Period
      BY <3>2
    <3> QED BY <3>1, <3>4, <3>5, <3>6, <3>7
  <2>4. \A a \in Addrs \ listed' : detached'[a] = Linked
    BY <1>3, OlderFacts DEF Second
  <2> QED BY <1>3, <2>1, <2>2, <2>3, <2>4 DEF Second
<1>4. ASSUME NEW c \in Conns, NEW a \in Addrs, HandShake(c, a) PROVE SteadyInv'
  BY <1>0, <1>4 DEF HandShake, panelVars, tickVars, TypeOK
<1>5. ASSUME NEW c \in Conns, NEW a \in Addrs, NEW i \in Ids, LocalAddCom(c, a, i)
      PROVE SteadyInv'
  BY <1>0, <1>5 DEF LocalAddCom, panelVars, tickVars, TypeOK, Local
<1>6. ASSUME NEW c \in Conns, AddBegin(c) PROVE SteadyInv'
  BY <1>6 DEF AddBegin, panelVars, tickVars
<1>7. ASSUME NEW c \in Conns, AddReplace(c) PROVE SteadyInv'
  BY <1>7, RemoveKeepsSteady DEF AddReplace, Replaced, connVars
<1>8. ASSUME NEW c \in Conns, AddNode(c) PROVE SteadyInv'
  BY <1>0, <1>8
  DEF AddNode, AddRefresh, AddNew, tickVars, TypeOK, NoMsg, RegistryInv, MsgInv
<1>9. ASSUME TickBegin PROVE SteadyInv'
  BY <1>0, <1>9 DEF TickBegin, panelVars, connVars, TypeOK
<1>10. ASSUME AllPane PROVE SteadyInv'
  BY <1>0, <1>10 DEF AllPane, panelVars, connVars, TypeOK
<1>11. ASSUME NEW a \in Addrs, TickVisit(a) PROVE SteadyInv'
  <2>1. a \in Steady => ~Expired(a)
    <3>1. elapsed \in Nat /\ age[a] \in Ages /\ detached[a] \in Ages \cup {Linked}
      BY <1>0 DEF TypeOK
    <3>2. age[a] \in Int /\ (detached[a] # Linked => detached[a] \in Int)
      BY <3>1
    <3>3. a \in Steady => age[a] <= Period
      BY <1>0
    <3>4. a \in Steady /\ detached[a] # Linked => detached[a] - elapsed <= Period
      OBVIOUS
    <3>5. a \in Steady => ItemAge(a) \in Int /\ ItemAge(a) - elapsed <= Timeout
      BY <3>1, <3>2, <3>3, <3>4 DEF ItemAge
    <3> QED BY <3>1, <3>5 DEF Expired
  <2> QED
    BY <1>0, <1>11, <2>1 DEF TickVisit, panelVars, connVars, TypeOK
<1>12. ASSUME TickRemove PROVE SteadyInv'
  <2>1. CASE doomed \in nodes
    BY <1>12, <2>1, RemoveKeepsSteady DEF TickRemove, connVars
  <2>2. CASE doomed \notin nodes
    BY <1>12, <2>2 DEF TickRemove, connVars
  <2> QED BY <2>1, <2>2
<1>13. ASSUME TickEnd PROVE SteadyInv'
  BY <1>0, <1>13 DEF TickEnd, panelVars, connVars, TypeOK
<1>14. CASE UNCHANGED vars
  BY <1>14 DEF vars, panelVars, connVars, tickVars
<1> QED
  BY <1>1, <1>2, <1>3, <1>4, <1>5, <1>6, <1>7, <1>8, <1>9, <1>10, <1>11, <1>12, <1>13,
     <1>14 DEF Next, Adder, Ticker

\* tick never expires a DAO heard of every Period <= Timeout seconds.
THEOREM RegistrySteadyNodeKept == Spec => SteadyNodeKept
<1> DEFINE Replacer(a) == \E c \in Conns : pc[c] = "adding" /\ msg[c].id = id[a]
                                         /\ msg[c].addr # a
           Kept == \A a \in Steady : (a \in nodes /\ a \notin nodes') => Replacer(a)
<1>1. RegistryInv /\ SteadyInv /\ [Next]_vars => [Kept]_vars
  <2> SUFFICES ASSUME SteadyInv, Next, NEW a \in Steady, a \in nodes, a \notin nodes'
               PROVE  Replacer(a)
    BY DEF vars
  <2>1. ASSUME NEW c \in Conns, AddReplace(c) PROVE Replacer(a)
    BY <2>1 DEF AddReplace, Replaced, Remove
  <2>2. ASSUME TickRemove PROVE FALSE
    BY <2>2, ConstantFacts DEF TickRemove, Remove, SteadyInv
  <2>3. ASSUME NEW c \in Conns, AddNode(c) PROVE FALSE
    BY <2>3 DEF AddNode, AddRefresh, AddNew
  <2> QED
    BY <2>1, <2>2, <2>3
    DEF Next, Adder, Ticker, DaoStart, DaoStop, HandShake, LocalAddCom, AddBegin, TickBegin,
        AllPane, TickVisit, TickEnd, Second, panelVars
<1>2. RegistryInv /\ SteadyInv /\ [][Next]_vars => SteadyNodeKept
  <2>1. RegistryInv /\ SteadyInv /\ [Next]_vars => (RegistryInv /\ SteadyInv)'
    BY NextRegistry, NextSteady
  <2>2. [][Kept]_vars => SteadyNodeKept
    BY DEF SteadyNodeKept
  <2> QED BY <1>1, <2>1, <2>2, PTL
<1> QED BY <1>2, InitRegistry, InitSteady, PTL DEF Spec

-----------------------------------------------------------------------------
(* The connections to a dao.  delConn goes by slot, so everything rests on *)
(* who is in which slot: a connection is in the slot it was made for       *)
(* (InOwnSlot) until the one goroutine that may take it out does so: the   *)
(* caller that dials it while it has no watcher (DialInv), its watcher     *)
(* afterwards (WatchInv).                                                  *)

Held == {"picked", "dialing", "failed", "ready", "using"}

PoolTypeOK ==
    /\ slot \in [Slots -> ClientPools \cup {Nothing}]
    /\ slotOf \in [ClientPools -> Slots \cup {Nothing}]
    /\ sync \in [ClientPools -> 0 .. 2]
    /\ link \in [ClientPools -> {"none", "up", "down", "closed"}]
    /\ fetchNum \in [ClientPools -> Int]
    /\ exit \in [ClientPools -> BOOLEAN]
    /\ timer \in [ClientPools -> {"none", "watch", "delete", "retire", "drain", "close"}]
    /\ turns \in [ClientPools -> 0 .. DrainTurns]
    /\ step \in [Callers -> {"idle", "locked", "drawing"} \cup Held]
    /\ ref \in [Callers -> ClientPools \cup {Nothing}]
    /\ drawn \in [Callers -> Slots \cup {Nothing}]
    /\ waited \in [Callers -> 0 .. CallTurns]
    /\ poolLock \in Callers \cup {Nothing}
    /\ closed \in BOOLEAN

\* A caller that holds the lock has drawn a slot, one past it has a connection.
CallerInv ==
    \A p \in Callers :
        /\ step[p] = "locked" <=> poolLock = p
        /\ step[p] = "locked" => drawn[p] \in Slots
        /\ step[p] \in Held <=> ref[p] # Nothing

InOwnSlot == \A i \in Slots : slot[i] # Nothing => slotOf[slot[i]] = i

Pooled(c) == slotOf[c] \in Slots /\ slot[slotOf[c]] = c

\* The caller that made a connection, until it has been dialled or given up.
Dials(p, c) ==
    /\ ref[p] = c
    /\ \/ step[p] = "picked" /\ sync[c] = 0
       \/ step[p] = "dialing" /\ sync[c] = 0
       \/ step[p] = "failed" /\ sync[c] = 2

DialInv ==
    /\ \A p \in Callers : step[p] \in {"dialing", "failed"} => Dials(p, ref[p])
    /\ \A p \in Callers, c \in ClientPools : Dials(p, c) => timer[c] = "none" /\ Pooled(c)

\* Two callers never dial the same connection.
OneDialler ==
    \A p, q \in Callers, c \in ClientPools : Dials(p, c) /\ Dials(q, c) => p = q

WatchInv ==
    \A c \in ClientPools :
        /\ timer[c] \in {"watch", "delete", "retire"} => Pooled(c)
        /\ timer[c] \in {"drain", "close"} => \A i \in Slots : slot[i] # c

Using(c) == {p \in Callers : ref[p] = c /\ step[p] = "using"}

CountInv == \A c \in ClientPools : fetchNum[c] = Cardinality(Using(c))

\* While the pool is open, a connection that could be handed out is open.
OpenInv ==
    /\ ~closed => \A c \in ClientPools : ~exit[c]
    /\ ~closed => \A i \in Slots :
          (slot[i] # Nothing /\ sync[slot[i]] = 1) => link[slot[i]] # "closed"

\* Turns are counted in the second loop only, and against every call.
TurnInv ==
    \A c \in ClientPools :
        /\ timer[c] # "drain" => turns[c] = 0
        /\ \A p \in Callers : ref[p] = c => turns[c] <= waited[p]

PoolInv ==
    /\ PoolTypeOK /\ CallerInv /\ InOwnSlot /\ DialInv /\ OneDialler
    /\ WatchInv /\ CountInv /\ OpenInv /\ TurnInv


LEMMA UsingIsFinite ==
    \A c \in ClientPools : IsFiniteSet(Using(c)) /\ IsFiniteSet(Using(c)')
<1> SUFFICES ASSUME NEW c \in ClientPools PROVE IsFiniteSet(Using(c)) /\ IsFiniteSet(Using(c)')
  OBVIOUS
<1>1. Using(c) \in SUBSET Callers /\ Using(c)' \in SUBSET Callers
  BY DEF Using
<1> QED BY <1>1, FS_Subset, ClientPoolAssumption

LEMMA InitPool == PoolInit => PoolInv
<1> SUFFICES ASSUME PoolInit PROVE PoolInv
  OBVIOUS
<1>1. PoolTypeOK
  <2>1. 0 \in 0 .. DrainTurns /\ 0 \in 0 .. CallTurns
    BY ClientPoolAssumption
  <2>2. /\ slot \in [Slots -> ClientPools \cup {Nothing}]
        /\ slotOf \in [ClientPools -> Slots \cup {Nothing}]
        /\ ref \in [Callers -> ClientPools \cup {Nothing}]
        /\ drawn \in [Callers -> Slots \cup {Nothing}]
    BY DEF PoolInit
  <2>3. /\ sync \in [ClientPools -> 0 .. 2] /\ fetchNum \in [ClientPools -> Int]
        /\ waited \in [Callers -> 0 .. CallTurns] /\ turns \in [ClientPools -> 0 .. DrainTurns]
    BY <2>1 DEF PoolInit
  <2>4. /\ step \in [Callers -> {"idle", "locked", "drawing"} \cup Held]
        /\ exit \in [ClientPools -> BOOLEAN]
    BY DEF PoolInit, Held
  <2> QED BY <2>2, <2>3, <2>4 DEF PoolInit, PoolTypeOK
<1>2. CallerInv /\ InOwnSlot
  BY ClientPoolAssumption DEF PoolInit, CallerInv, Held, InOwnSlot
<1>3. DialInv /\ OneDialler /\ WatchInv /\ OpenInv /\ TurnInv
  BY DEF PoolInit, DialInv, OneDialler, Dials, WatchInv, OpenInv, TurnInv
<1>4. \A c \in ClientPools : Using(c) = {}
  BY DEF PoolInit, Using
<1>5. CountInv
  BY <1>4, FS_EmptySet DEF PoolInit, CountInv
<1> QED BY <1>1, <1>2, <1>3, <1>5 DEF PoolInv

-----------------------------------------------------------------------------
(* The steps of the pool keep the invariant.                               *)

LEMMA DrawKeeps == ASSUME PoolInv, NEW p \in Callers, NEW i \in Slots, Draw(p, i) PROVE PoolInv'
<1> USE DEF PoolInv, Draw, clientPoolVars
<1>1. PoolTypeOK' /\ CallerInv'
  BY ClientPoolAssumption DEF PoolTypeOK, CallerInv, Held
<1>2. InOwnSlot' /\ WatchInv' /\ OpenInv'
  BY DEF InOwnSlot, WatchInv, Pooled, OpenInv
<1>3. DialInv' /\ OneDialler'
  BY DEF PoolTypeOK, DialInv, OneDialler, Dials, Pooled
<1>4. CountInv'
  <2>1. \A d \in ClientPools : Using(d)' = Using(d)
    BY DEF PoolTypeOK, Using
  <2> QED BY <2>1 DEF CountInv
<1>5. TurnInv'
  BY DEF TurnInv
<1> QED BY <1>1, <1>2, <1>3, <1>4, <1>5

\* Steps of the callers of the pool.
LEMMA CallerSteps == ASSUME PoolInv, NEW p \in Callers, Caller(p) PROVE PoolInv'
<1> USE DEF PoolInv
<1>1. CASE DrawEmpty(p)
  <2>1. PoolTypeOK' /\ CallerInv'
    BY <1>1, ClientPoolAssumption DEF PoolTypeOK, CallerInv, Held, DrawEmpty, Leave, Unused
  <2>2. InOwnSlot' /\ WatchInv' /\ OpenInv'
    BY <1>1, ClientPoolAssumption
    DEF PoolTypeOK, CallerInv, InOwnSlot, DialInv, Dials, WatchInv, Pooled, OpenInv,
        DrawEmpty, Leave, Unused
  <2>3. DialInv' /\ OneDialler'
    <3>1. \A q \in Callers : step'[q] \in {"dialing", "failed"} => Dials(q, ref[q])'
      BY <1>1, ClientPoolAssumption
      DEF PoolTypeOK, CallerInv, Held, DialInv, OneDialler, Dials, DrawEmpty, Leave, Unused
    <3>2. \A q \in Callers, d \in ClientPools :
             Dials(q, d)' => timer'[d] = "none" /\ Pooled(d)'
      BY <1>1, ClientPoolAssumption
      DEF PoolTypeOK, CallerInv, InOwnSlot, DialInv, OneDialler, WatchInv, Dials, Pooled,
          DrawEmpty, Leave, Unused
    <3>3. OneDialler'
      BY <1>1, ClientPoolAssumption
      DEF PoolTypeOK, CallerInv, DialInv, OneDialler, Dials, DrawEmpty, Leave, Unused
    <3> QED BY <3>1, <3>2, <3>3 DEF DialInv
  <2>4. CountInv'
    <3>1. \A d \in ClientPools : Using(d)' = IF d = ref'[p] THEN {} ELSE Using(d)
      BY <1>1 DEF PoolTypeOK, CallerInv, Using, DrawEmpty, Leave, Unused
    <3>2. /\ ref'[p] \in ClientPools
          /\ fetchNum' = [fetchNum EXCEPT ![ref'[p]] = 0]
      BY <1>1 DEF PoolTypeOK, DrawEmpty, Leave
    <3> QED BY <3>1, <3>2, FS_EmptySet DEF PoolTypeOK, CountInv
  <2>5. TurnInv'
    BY <1>1, ClientPoolAssumption
    DEF PoolTypeOK, CallerInv, InOwnSlot, DialInv, Dials, WatchInv, TurnInv, DrawEmpty, Leave, Unused
  <2> QED BY <2>1, <2>2, <2>3, <2>4, <2>5
<1>2. CASE DrawTaken(p)
  <2>1. PoolTypeOK' /\ CallerInv'
    BY <1>2, ClientPoolAssumption DEF PoolTypeOK, CallerInv, Held, DrawTaken, Leave, clientPoolVars
  <2>2. InOwnSlot' /\ WatchInv' /\ OpenInv'
    BY <1>2, ClientPoolAssumption
    DEF PoolTypeOK, CallerInv, InOwnSlot, DialInv, Dials, WatchInv, Pooled, OpenInv,
        DrawTaken, Leave, clientPoolVars
  <2>3. DialInv' /\ OneDialler'
    <3>1. \A q \in Callers : step'[q] \in {"dialing", "failed"} => Dials(q, ref[q])'
      BY <1>2, ClientPoolAssumption
      DEF PoolTypeOK, CallerInv, Held, DialInv, OneDialler, Dials, DrawTaken, Leave, clientPoolVars
    <3>2. \A q \in Callers, d \in ClientPools :
             Dials(q, d)' => timer'[d] = "none" /\ Pooled(d)'
      BY <1>2, ClientPoolAssumption
      DEF PoolTypeOK, CallerInv, InOwnSlot, DialInv, OneDialler, WatchInv, Dials, Pooled,
          DrawTaken, Leave, clientPoolVars
    <3>3. OneDialler'
      BY <1>2, ClientPoolAssumption
      DEF PoolTypeOK, CallerInv, DialInv, OneDialler, Dials, DrawTaken, Leave, clientPoolVars
    <3> QED BY <3>1, <3>2, <3>3 DEF DialInv
  <2>4. CountInv'
    <3>1. \A d \in ClientPools : Using(d)' = Using(d)
      BY <1>2 DEF PoolTypeOK, CallerInv, Using, DrawTaken, clientPoolVars, callerVars, Leave
    <3> QED BY <1>2, <3>1 DEF CountInv, DrawTaken, clientPoolVars, callerVars
  <2>5. TurnInv'
    BY <1>2, ClientPoolAssumption
    DEF PoolTypeOK, CallerInv, InOwnSlot, DialInv, Dials, WatchInv, TurnInv, DrawTaken, Leave, clientPoolVars
  <2> QED BY <2>1, <2>2, <2>3, <2>4, <2>5
<1>3. CASE Picked(p)
  <2>1. PoolTypeOK' /\ CallerInv'
    BY <1>3, ClientPoolAssumption DEF PoolTypeOK, CallerInv, Held, Picked, clientPoolVars
  <2>2. InOwnSlot' /\ WatchInv' /\ OpenInv'
    BY <1>3, ClientPoolAssumption
    DEF PoolTypeOK, CallerInv, InOwnSlot, DialInv, Dials, WatchInv, Pooled, OpenInv,
        Picked, clientPoolVars
  <2>3. DialInv' /\ OneDialler'
    <3>1. \A q \in Callers : step'[q] \in {"dialing", "failed"} => Dials(q, ref[q])'
      BY <1>3, ClientPoolAssumption
      DEF PoolTypeOK, CallerInv, Held, DialInv, OneDialler, Dials, Picked, clientPoolVars
    <3>2. \A q \in Callers, d \in ClientPools :
             Dials(q, d)' => timer'[d] = "none" /\ Pooled(d)'
      BY <1>3, ClientPoolAssumption
      DEF PoolTypeOK, CallerInv, InOwnSlot, DialInv, OneDialler, WatchInv, Dials, Pooled,
          Picked, clientPoolVars
    <3>3. OneDialler'
      BY <1>3, ClientPoolAssumption
      DEF PoolTypeOK, CallerInv, DialInv, OneDialler, Dials, Picked, clientPoolVars
    <3> QED BY <3>1, <3>2, <3>3 DEF DialInv
  <2>4. CountInv'
    <3>1. \A d \in ClientPools : Using(d)' = Using(d)
      BY <1>3 DEF PoolTypeOK, CallerInv, Using, Picked, clientPoolVars, callerVars, Leave
    <3> QED BY <1>3, <3>1 DEF CountInv, Picked, clientPoolVars, callerVars
  <2>5. TurnInv'
    BY <1>3, ClientPoolAssumption
    DEF PoolTypeOK, CallerInv, InOwnSlot, DialInv, Dials, WatchInv, TurnInv, Picked, clientPoolVars
  <2> QED BY <2>1, <2>2, <2>3, <2>4, <2>5
<1>4. CASE Connected(p)
  <2>1. PoolTypeOK' /\ CallerInv'
    BY <1>4, ClientPoolAssumption DEF PoolTypeOK, CallerInv, Held, Connected
  <2>2. InOwnSlot' /\ WatchInv' /\ OpenInv'
    BY <1>4, ClientPoolAssumption
    DEF PoolTypeOK, CallerInv, InOwnSlot, DialInv, Dials, WatchInv, Pooled, OpenInv,
        Connected
  <2>3. DialInv' /\ OneDialler'
    <3>1. \A q \in Callers : step'[q] \in {"dialing", "failed"} => Dials(q, ref[q])'
      BY <1>4, ClientPoolAssumption
      DEF PoolTypeOK, CallerInv, Held, DialInv, OneDialler, Dials, Connected
    <3>2. \A q \in Callers, d \in ClientPools :
             Dials(q, d)' => timer'[d] = "none" /\ Pooled(d)'
      BY <1>4, ClientPoolAssumption
      DEF PoolTypeOK, CallerInv, InOwnSlot, DialInv, OneDialler, WatchInv, Dials, Pooled,
          Connected
    <3>3. OneDialler'
      BY <1>4, ClientPoolAssumption
      DEF PoolTypeOK, CallerInv, DialInv, OneDialler, Dials, Connected
    <3> QED BY <3>1, <3>2, <3>3 DEF DialInv
  <2>4. CountInv'
    <3>1. \A d \in ClientPools : Using(d)' = Using(d)
      BY <1>4 DEF PoolTypeOK, CallerInv, Using, Connected, clientPoolVars, callerVars, Leave
    <3> QED BY <1>4, <3>1 DEF CountInv, Connected, clientPoolVars, callerVars
  <2>5. TurnInv'
    BY <1>4, ClientPoolAssumption
    DEF PoolTypeOK, CallerInv, InOwnSlot, DialInv, Dials, WatchInv, TurnInv, Connected
  <2> QED BY <2>1, <2>2, <2>3, <2>4, <2>5
<1>5. CASE DialFails(p)
  <2>1. PoolTypeOK' /\ CallerInv'
    BY <1>5, ClientPoolAssumption DEF PoolTypeOK, CallerInv, Held, DialFails
  <2>2. InOwnSlot' /\ WatchInv' /\ OpenInv'
    BY <1>5, ClientPoolAssumption
    DEF PoolTypeOK, CallerInv, InOwnSlot, DialInv, Dials, WatchInv, Pooled, OpenInv,
        DialFails
  <2>3. DialInv' /\ OneDialler'
    <3>1. \A q \in Callers : step'[q] \in {"dialing", "failed"} => Dials(q, ref[q])'
      BY <1>5, ClientPoolAssumption
      DEF PoolTypeOK, CallerInv, Held, DialInv, OneDialler, Dials, DialFails
    <3>2. \A q \in Callers, d \in ClientPools :
             Dials(q, d)' => timer'[d] = "none" /\ Pooled(d)'
      BY <1>5, ClientPoolAssumption
      DEF PoolTypeOK, CallerInv, InOwnSlot, DialInv, OneDialler, WatchInv, Dials, Pooled,
          DialFails
    <3>3. OneDialler'
      BY <1>5, ClientPoolAssumption
      DEF PoolTypeOK, CallerInv, DialInv, OneDialler, Dials, DialFails
    <3> QED BY <3>1, <3>2, <3>3 DEF DialInv
  <2>4. CountInv'
    <3>1. \A d \in ClientPools : Using(d)' = Using(d)
      BY <1>5 DEF PoolTypeOK, CallerInv, Using, DialFails, clientPoolVars, callerVars, Leave
    <3> QED BY <1>5, <3>1 DEF CountInv, DialFails, clientPoolVars, callerVars
  <2>5. TurnInv'
    BY <1>5, ClientPoolAssumption
    DEF PoolTypeOK, CallerInv, InOwnSlot, DialInv, Dials, WatchInv, TurnInv, DialFails
  <2> QED BY <2>1, <2>2, <2>3, <2>4, <2>5
<1>6. CASE Failed(p)
  <2>1. PoolTypeOK' /\ CallerInv'
    BY <1>6, ClientPoolAssumption DEF PoolTypeOK, CallerInv, Held, Failed, DelConn, clientPoolVars
  <2>2. InOwnSlot' /\ WatchInv' /\ OpenInv'
    BY <1>6, ClientPoolAssumption
    DEF PoolTypeOK, CallerInv, InOwnSlot, DialInv, Dials, WatchInv, Pooled, OpenInv,
        Failed, DelConn, clientPoolVars
  <2>3. DialInv' /\ OneDialler'
    <3>1. \A q \in Callers : step'[q] \in {"dialing", "failed"} => Dials(q, ref[q])'
      BY <1>6, ClientPoolAssumption
      DEF PoolTypeOK, CallerInv, Held, DialInv, OneDialler, Dials, Failed, DelConn, clientPoolVars
    <3>2. \A q \in Callers, d \in ClientPools :
             Dials(q, d)' => timer'[d] = "none" /\ Pooled(d)'
      BY <1>6, ClientPoolAssumption
      DEF PoolTypeOK, CallerInv, InOwnSlot, DialInv, OneDialler, WatchInv, Dials, Pooled,
          Failed, DelConn, clientPoolVars
    <3>3. OneDialler'
      BY <1>6, ClientPoolAssumption
      DEF PoolTypeOK, CallerInv, DialInv, OneDialler, Dials, Failed, DelConn, clientPoolVars
    <3> QED BY <3>1, <3>2, <3>3 DEF DialInv
  <2>4. CountInv'
    <3>1. \A d \in ClientPools : Using(d)' = Using(d)
      BY <1>6 DEF PoolTypeOK, CallerInv, Using, Failed, clientPoolVars, callerVars, Leave
    <3> QED BY <1>6, <3>1 DEF CountInv, Failed, clientPoolVars, callerVars
  <2>5. TurnInv'
    BY <1>6, ClientPoolAssumption
    DEF PoolTypeOK, CallerInv, InOwnSlot, DialInv, Dials, WatchInv, TurnInv, Failed, DelConn, clientPoolVars
  <2> QED BY <2>1, <2>2, <2>3, <2>4, <2>5
<1>7. CASE Fetch(p)
  <2>1. PoolTypeOK' /\ CallerInv'
    BY <1>7, ClientPoolAssumption DEF PoolTypeOK, CallerInv, Held, Fetch
  <2>2. InOwnSlot' /\ WatchInv' /\ OpenInv'
    BY <1>7, ClientPoolAssumption
    DEF PoolTypeOK, CallerInv, InOwnSlot, DialInv, Dials, WatchInv, Pooled, OpenInv,
        Fetch
  <2>3. DialInv' /\ OneDialler'
    <3>1. \A q \in Callers : step'[q] \in {"dialing", "failed"} => Dials(q, ref[q])'
      BY <1>7, ClientPoolAssumption
      DEF PoolTypeOK, CallerInv, Held, DialInv, OneDialler, Dials, Fetch
    <3>2. \A q \in Callers, d \in ClientPools :
             Dials(q, d)' => timer'[d] = "none" /\ Pooled(d)'
      BY <1>7, ClientPoolAssumption
      DEF PoolTypeOK, CallerInv, InOwnSlot, DialInv, OneDialler, WatchInv, Dials, Pooled,
          Fetch
    <3>3. OneDialler'
      BY <1>7, ClientPoolAssumption
      DEF PoolTypeOK, CallerInv, DialInv, OneDialler, Dials, Fetch
    <3> QED BY <3>1, <3>2, <3>3 DEF DialInv
  <2>4. CountInv'
    <3>1. /\ ref[p] \in ClientPools /\ p \notin Using(ref[p])
          /\ Using(ref[p])' = Using(ref[p]) \cup {p}
          /\ \A d \in ClientPools \ {ref[p]} : Using(d)' = Using(d)
      BY <1>7 DEF PoolTypeOK, CallerInv, Held, Using, Fetch
    <3> QED BY <1>7, <3>1, UsingIsFinite, FS_AddElement DEF PoolTypeOK, CountInv, Fetch
  <2>5. TurnInv'
    BY <1>7, ClientPoolAssumption
    DEF PoolTypeOK, CallerInv, InOwnSlot, DialInv, Dials, WatchInv, TurnInv, Fetch
  <2> QED BY <2>1, <2>2, <2>3, <2>4, <2>5
<1>8. CASE Release(p)
  <2>1. PoolTypeOK' /\ CallerInv'
    BY <1>8, ClientPoolAssumption DEF PoolTypeOK, CallerInv, Held, Release
  <2>2. InOwnSlot' /\ WatchInv' /\ OpenInv'
    BY <1>8, ClientPoolAssumption
    DEF PoolTypeOK, CallerInv, InOwnSlot, DialInv, Dials, WatchInv, Pooled, OpenInv,
        Release
  <2>3. DialInv' /\ OneDialler'
    <3>1. \A q \in Callers : step'[q] \in {"dialing", "failed"} => Dials(q, ref[q])'
      BY <1>8, ClientPoolAssumption
      DEF PoolTypeOK, CallerInv, Held, DialInv, OneDialler, Dials, Release
    <3>2. \A q \in Callers, d \in ClientPools :
             Dials(q, d)' => timer'[d] = "none" /\ Pooled(d)'
      BY <1>8, ClientPoolAssumption
      DEF PoolTypeOK, CallerInv, InOwnSlot, DialInv, OneDialler, WatchInv, Dials, Pooled,
          Release
    <3>3. OneDialler'
      BY <1>8, ClientPoolAssumption
      DEF PoolTypeOK, CallerInv, DialInv, OneDialler, Dials, Release
    <3> QED BY <3>1, <3>2, <3>3 DEF DialInv
  <2>4. CountInv'
    <3>1. /\ ref[p] \in ClientPools /\ p \in Using(ref[p])
          /\ fetchNum' = [fetchNum EXCEPT ![ref[p]] = fetchNum[ref[p]] - 1]
      BY <1>8 DEF PoolTypeOK, CallerInv, Held, Using, Release
    <3>2. \A d \in ClientPools : Using(d)' = Using(d) \ {p}
      BY <1>8, ClientPoolAssumption DEF PoolTypeOK, Using, Release
    <3>3. Cardinality(Using(ref[p]) \ {p}) = Cardinality(Using(ref[p])) - 1
      BY <3>1, UsingIsFinite, FS_RemoveElement
    <3>4. \A d \in ClientPools \ {ref[p]} : Using(d) \ {p} = Using(d)
      BY DEF Using
    <3>5. ASSUME NEW d \in ClientPools PROVE fetchNum'[d] = Cardinality(Using(d)')
      <4>1. CASE d = ref[p]
        BY <3>1, <3>2, <3>3, <4>1 DEF PoolTypeOK, CountInv
      <4>2. CASE d # ref[p]
        BY <3>1, <3>2, <3>4, <4>2 DEF PoolTypeOK, CountInv
      <4> QED BY <4>1, <4>2
    <3> QED BY <3>5 DEF CountInv
  <2>5. TurnInv'
    BY <1>8, ClientPoolAssumption
    DEF PoolTypeOK, CallerInv, InOwnSlot, DialInv, Dials, WatchInv, TurnInv, Release
  <2> QED BY <2>1, <2>2, <2>3, <2>4, <2>5
<1> QED BY <1>1, <1>2, <1>3, <1>4, <1>5, <1>6, <1>7, <1>8 DEF Caller

\* Steps of the goroutine that watches a connection.
LEMMA TimerSteps == ASSUME PoolInv, NEW c \in ClientPools, Timer(c) PROVE PoolInv'
<1> USE DEF PoolInv
<1>1. CASE WatchBroken(c)
  <2>1. PoolTypeOK' /\ CallerInv'
    BY <1>1, ClientPoolAssumption DEF PoolTypeOK, CallerInv, Held, WatchBroken, CloseLink, callerVars
  <2>2. InOwnSlot' /\ WatchInv' /\ OpenInv'
    BY <1>1, ClientPoolAssumption
    DEF PoolTypeOK, CallerInv, InOwnSlot, DialInv, Dials, WatchInv, Pooled, OpenInv,
        WatchBroken, CloseLink, callerVars
  <2>3. DialInv' /\ OneDialler'
    <3>1. \A q \in Callers : step'[q] \in {"dialing", "failed"} => Dials(q, ref[q])'
      BY <1>1, ClientPoolAssumption
      DEF PoolTypeOK, CallerInv, Held, DialInv, OneDialler, Dials, WatchBroken, CloseLink, callerVars
    <3>2. \A q \in Callers, d \in ClientPools :
             Dials(q, d)' => timer'[d] = "none" /\ Pooled(d)'
      BY <1>1, ClientPoolAssumption
      DEF PoolTypeOK, CallerInv, InOwnSlot, DialInv, OneDialler, WatchInv, Dials, Pooled,
          WatchBroken, CloseLink, callerVars
    <3>3. OneDialler'
      BY <1>1, ClientPoolAssumption
      DEF PoolTypeOK, CallerInv, DialInv, OneDialler, Dials, WatchBroken, CloseLink, callerVars
    <3> QED BY <3>1, <3>2, <3>3 DEF DialInv
  <2>4. CountInv'
    <3>1. \A d \in ClientPools : Using(d)' = Using(d)
      BY <1>1 DEF PoolTypeOK, CallerInv, Using, WatchBroken, clientPoolVars, callerVars, Leave
    <3> QED BY <1>1, <3>1 DEF CountInv, WatchBroken, clientPoolVars, callerVars
  <2>5. TurnInv'
    BY <1>1, ClientPoolAssumption
    DEF PoolTypeOK, CallerInv, InOwnSlot, DialInv, Dials, WatchInv, TurnInv, WatchBroken, CloseLink, callerVars
  <2> QED BY <2>1, <2>2, <2>3, <2>4, <2>5
<1>2. CASE WatchExit(c)
  <2>1. PoolTypeOK' /\ CallerInv'
    BY <1>2, ClientPoolAssumption DEF PoolTypeOK, CallerInv, Held, WatchExit, CloseLink, callerVars
  <2>2. InOwnSlot' /\ WatchInv' /\ OpenInv'
    BY <1>2, ClientPoolAssumption
    DEF PoolTypeOK, CallerInv, InOwnSlot, DialInv, Dials, WatchInv, Pooled, OpenInv,
        WatchExit, CloseLink, callerVars
  <2>3. DialInv' /\ OneDialler'
    <3>1. \A q \in Callers : step'[q] \in {"dialing", "failed"} => Dials(q, ref[q])'
      BY <1>2, ClientPoolAssumption
      DEF PoolTypeOK, CallerInv, Held, DialInv, OneDialler, Dials, WatchExit, CloseLink, callerVars
    <3>2. \A q \in Callers, d \in ClientPools :
             Dials(q, d)' => timer'[d] = "none" /\ Pooled(d)'
      BY <1>2, ClientPoolAssumption
      DEF PoolTypeOK, CallerInv, InOwnSlot, DialInv, OneDialler, WatchInv, Dials, Pooled,
          WatchExit, CloseLink, callerVars
    <3>3. OneDialler'
      BY <1>2, ClientPoolAssumption
      DEF PoolTypeOK, CallerInv, DialInv, OneDialler, Dials, WatchExit, CloseLink, callerVars
    <3> QED BY <3>1, <3>2, <3>3 DEF DialInv
  <2>4. CountInv'
    <3>1. \A d \in ClientPools : Using(d)' = Using(d)
      BY <1>2 DEF PoolTypeOK, CallerInv, Using, WatchExit, clientPoolVars, callerVars, Leave
    <3> QED BY <1>2, <3>1 DEF CountInv, WatchExit, clientPoolVars, callerVars
  <2>5. TurnInv'
    BY <1>2, ClientPoolAssumption
    DEF PoolTypeOK, CallerInv, InOwnSlot, DialInv, Dials, WatchInv, TurnInv, WatchExit, CloseLink, callerVars
  <2> QED BY <2>1, <2>2, <2>3, <2>4, <2>5
<1>3. CASE WatchExpires(c)
  <2>1. PoolTypeOK' /\ CallerInv'
    BY <1>3, ClientPoolAssumption DEF PoolTypeOK, CallerInv, Held, WatchExpires, callerVars
  <2>2. InOwnSlot' /\ WatchInv' /\ OpenInv'
    BY <1>3, ClientPoolAssumption
    DEF PoolTypeOK, CallerInv, InOwnSlot, DialInv, Dials, WatchInv, Pooled, OpenInv,
        WatchExpires, callerVars
  <2>3. DialInv' /\ OneDialler'
    <3>1. \A q \in Callers : step'[q] \in {"dialing", "failed"} => Dials(q, ref[q])'
      BY <1>3, ClientPoolAssumption
      DEF PoolTypeOK, CallerInv, Held, DialInv, OneDialler, Dials, WatchExpires, callerVars
    <3>2. \A q \in Callers, d \in ClientPools :
             Dials(q, d)' => timer'[d] = "none" /\ Pooled(d)'
      BY <1>3, ClientPoolAssumption
      DEF PoolTypeOK, CallerInv, InOwnSlot, DialInv, OneDialler, WatchInv, Dials, Pooled,
          WatchExpires, callerVars
    <3>3. OneDialler'
      BY <1>3, ClientPoolAssumption
      DEF PoolTypeOK, CallerInv, DialInv, OneDialler, Dials, WatchExpires, callerVars
    <3> QED BY <3>1, <3>2, <3>3 DEF DialInv
  <2>4. CountInv'
    <3>1. \A d \in ClientPools : Using(d)' = Using(d)
      BY <1>3 DEF PoolTypeOK, CallerInv, Using, WatchExpires, clientPoolVars, callerVars, Leave
    <3> QED BY <1>3, <3>1 DEF CountInv, WatchExpires, clientPoolVars, callerVars
  <2>5. TurnInv'
    BY <1>3, ClientPoolAssumption
    DEF PoolTypeOK, CallerInv, InOwnSlot, DialInv, Dials, WatchInv, TurnInv, WatchExpires, callerVars
  <2> QED BY <2>1, <2>2, <2>3, <2>4, <2>5
<1>4. CASE Delete(c)
  <2>1. PoolTypeOK' /\ CallerInv'
    BY <1>4, ClientPoolAssumption DEF PoolTypeOK, CallerInv, Held, Delete, DelConn, callerVars
  <2>2. InOwnSlot' /\ WatchInv' /\ OpenInv'
    BY <1>4, ClientPoolAssumption
    DEF PoolTypeOK, CallerInv, InOwnSlot, DialInv, Dials, WatchInv, Pooled, OpenInv,
        Delete, DelConn, callerVars
  <2>3. DialInv' /\ OneDialler'
    <3>1. \A q \in Callers : step'[q] \in {"dialing", "failed"} => Dials(q, ref[q])'
      BY <1>4, ClientPoolAssumption
      DEF PoolTypeOK, CallerInv, Held, DialInv, OneDialler, Dials, Delete, DelConn, callerVars
    <3>2. \A q \in Callers, d \in ClientPools :
             Dials(q, d)' => timer'[d] = "none" /\ Pooled(d)'
      BY <1>4, ClientPoolAssumption
      DEF PoolTypeOK, CallerInv, InOwnSlot, DialInv, OneDialler, WatchInv, Dials, Pooled,
          Delete, DelConn, callerVars
    <3>3. OneDialler'
      BY <1>4, ClientPoolAssumption
      DEF PoolTypeOK, CallerInv, DialInv, OneDialler, Dials, Delete, DelConn, callerVars
    <3> QED BY <3>1, <3>2, <3>3 DEF DialInv
  <2>4. CountInv'
    <3>1. \A d \in ClientPools : Using(d)' = Using(d)
      BY <1>4 DEF PoolTypeOK, CallerInv, Using, Delete, clientPoolVars, callerVars, Leave
    <3> QED BY <1>4, <3>1 DEF CountInv, Delete, clientPoolVars, callerVars
  <2>5. TurnInv'
    BY <1>4, ClientPoolAssumption
    DEF PoolTypeOK, CallerInv, InOwnSlot, DialInv, Dials, WatchInv, TurnInv, Delete, DelConn, callerVars
  <2> QED BY <2>1, <2>2, <2>3, <2>4, <2>5
<1>5. CASE Retire(c)
  <2>1. PoolTypeOK' /\ CallerInv'
    BY <1>5, ClientPoolAssumption DEF PoolTypeOK, CallerInv, Held, Retire, DelConn, callerVars
  <2>2. InOwnSlot' /\ WatchInv' /\ OpenInv'
    BY <1>5, ClientPoolAssumption
    DEF PoolTypeOK, CallerInv, InOwnSlot, DialInv, Dials, WatchInv, Pooled, OpenInv,
        Retire, DelConn, callerVars
  <2>3. DialInv' /\ OneDialler'
    <3>1. \A q \in Callers : step'[q] \in {"dialing", "failed"} => Dials(q, ref[q])'
      BY <1>5, ClientPoolAssumption
      DEF PoolTypeOK, CallerInv, Held, DialInv, OneDialler, Dials, Retire, DelConn, callerVars
    <3>2. \A q \in Callers, d \in ClientPools :
             Dials(q, d)' => timer'[d] = "none" /\ Pooled(d)'
      BY <1>5, ClientPoolAssumption
      DEF PoolTypeOK, CallerInv, InOwnSlot, DialInv, OneDialler, WatchInv, Dials, Pooled,
          Retire, DelConn, callerVars
    <3>3. OneDialler'
      BY <1>5, ClientPoolAssumption
      DEF PoolTypeOK, CallerInv, DialInv, OneDialler, Dials, Retire, DelConn, callerVars
    <3> QED BY <3>1, <3>2, <3>3 DEF DialInv
  <2>4. CountInv'
    <3>1. \A d \in ClientPools : Using(d)' = Using(d)
      BY <1>5 DEF PoolTypeOK, CallerInv, Using, Retire, clientPoolVars, callerVars, Leave
    <3> QED BY <1>5, <3>1 DEF CountInv, Retire, clientPoolVars, callerVars
  <2>5. TurnInv'
    BY <1>5, ClientPoolAssumption
    DEF PoolTypeOK, CallerInv, InOwnSlot, DialInv, Dials, WatchInv, TurnInv, Retire, DelConn, callerVars
  <2> QED BY <2>1, <2>2, <2>3, <2>4, <2>5
<1>6. CASE Turn(c)
  <2>1. PoolTypeOK' /\ CallerInv'
    BY <1>6, ClientPoolAssumption DEF PoolTypeOK, CallerInv, Held, Turn
  <2>2. InOwnSlot' /\ WatchInv' /\ OpenInv'
    BY <1>6, ClientPoolAssumption
    DEF PoolTypeOK, CallerInv, InOwnSlot, DialInv, Dials, WatchInv, Pooled, OpenInv,
        Turn
  <2>3. DialInv' /\ OneDialler'
    <3>1. \A q \in Callers : step'[q] \in {"dialing", "failed"} => Dials(q, ref[q])'
      BY <1>6, ClientPoolAssumption
      DEF PoolTypeOK, CallerInv, Held, DialInv, OneDialler, Dials, Turn
    <3>2. \A q \in Callers, d \in ClientPools :
             Dials(q, d)' => timer'[d] = "none" /\ Pooled(d)'
      BY <1>6, ClientPoolAssumption
      DEF PoolTypeOK, CallerInv, InOwnSlot, DialInv, OneDialler, WatchInv, Dials, Pooled,
          Turn
    <3>3. OneDialler'
      BY <1>6, ClientPoolAssumption
      DEF PoolTypeOK, CallerInv, DialInv, OneDialler, Dials, Turn
    <3> QED BY <3>1, <3>2, <3>3 DEF DialInv
  <2>4. CountInv'
    <3>1. \A d \in ClientPools : Using(d)' = Using(d)
      BY <1>6 DEF PoolTypeOK, CallerInv, Using, Turn, clientPoolVars, callerVars, Leave
    <3> QED BY <1>6, <3>1 DEF CountInv, Turn, clientPoolVars, callerVars
  <2>5. TurnInv'
    BY <1>6, ClientPoolAssumption
    DEF PoolTypeOK, CallerInv, InOwnSlot, DialInv, Dials, WatchInv, TurnInv, Turn
  <2> QED BY <2>1, <2>2, <2>3, <2>4, <2>5
<1>7. CASE Drain(c)
  <2>1. PoolTypeOK' /\ CallerInv'
    BY <1>7, ClientPoolAssumption DEF PoolTypeOK, CallerInv, Held, Drain, callerVars
  <2>2. InOwnSlot' /\ WatchInv' /\ OpenInv'
    BY <1>7, ClientPoolAssumption
    DEF PoolTypeOK, CallerInv, InOwnSlot, DialInv, Dials, WatchInv, Pooled, OpenInv,
        Drain, callerVars
  <2>3. DialInv' /\ OneDialler'
    <3>1. \A q \in Callers : step'[q] \in {"dialing", "failed"} => Dials(q, ref[q])'
      BY <1>7, ClientPoolAssumption
      DEF PoolTypeOK, CallerInv, Held, DialInv, OneDialler, Dials, Drain, callerVars
    <3>2. \A q \in Callers, d \in ClientPools :
             Dials(q, d)' => timer'[d] = "none" /\ Pooled(d)'
      BY <1>7, ClientPoolAssumption
      DEF PoolTypeOK, CallerInv, InOwnSlot, DialInv, OneDialler, WatchInv, Dials, Pooled,
          Drain, callerVars
    <3>3. OneDialler'
      BY <1>7, ClientPoolAssumption
      DEF PoolTypeOK, CallerInv, DialInv, OneDialler, Dials, Drain, callerVars
    <3> QED BY <3>1, <3>2, <3>3 DEF DialInv
  <2>4. CountInv'
    <3>1. \A d \in ClientPools : Using(d)' = Using(d)
      BY <1>7 DEF PoolTypeOK, CallerInv, Using, Drain, clientPoolVars, callerVars, Leave
    <3> QED BY <1>7, <3>1 DEF CountInv, Drain, clientPoolVars, callerVars
  <2>5. TurnInv'
    BY <1>7, ClientPoolAssumption
    DEF PoolTypeOK, CallerInv, InOwnSlot, DialInv, Dials, WatchInv, TurnInv, Drain, callerVars
  <2> QED BY <2>1, <2>2, <2>3, <2>4, <2>5
<1>8. CASE CloseRetired(c)
  <2>1. PoolTypeOK' /\ CallerInv'
    BY <1>8, ClientPoolAssumption DEF PoolTypeOK, CallerInv, Held, CloseRetired, CloseLink, callerVars
  <2>2. InOwnSlot' /\ WatchInv' /\ OpenInv'
    BY <1>8, ClientPoolAssumption
    DEF PoolTypeOK, CallerInv, InOwnSlot, DialInv, Dials, WatchInv, Pooled, OpenInv,
        CloseRetired, CloseLink, callerVars
  <2>3. DialInv' /\ OneDialler'
    <3>1. \A q \in Callers : step'[q] \in {"dialing", "failed"} => Dials(q, ref[q])'
      BY <1>8, ClientPoolAssumption
      DEF PoolTypeOK, CallerInv, Held, DialInv, OneDialler, Dials, CloseRetired, CloseLink, callerVars
    <3>2. \A q \in Callers, d \in ClientPools :
             Dials(q, d)' => timer'[d] = "none" /\ Pooled(d)'
      BY <1>8, ClientPoolAssumption
      DEF PoolTypeOK, CallerInv, InOwnSlot, DialInv, OneDialler, WatchInv, Dials, Pooled,
          CloseRetired, CloseLink, callerVars
    <3>3. OneDialler'
      BY <1>8, ClientPoolAssumption
      DEF PoolTypeOK, CallerInv, DialInv, OneDialler, Dials, CloseRetired, CloseLink, callerVars
    <3> QED BY <3>1, <3>2, <3>3 DEF DialInv
  <2>4. CountInv'
    <3>1. \A d \in ClientPools : Using(d)' = Using(d)
      BY <1>8 DEF PoolTypeOK, CallerInv, Using, CloseRetired, clientPoolVars, callerVars, Leave
    <3> QED BY <1>8, <3>1 DEF CountInv, CloseRetired, clientPoolVars, callerVars
  <2>5. TurnInv'
    BY <1>8, ClientPoolAssumption
    DEF PoolTypeOK, CallerInv, InOwnSlot, DialInv, Dials, WatchInv, TurnInv, CloseRetired, CloseLink, callerVars
  <2> QED BY <2>1, <2>2, <2>3, <2>4, <2>5
<1> QED BY <1>1, <1>2, <1>3, <1>4, <1>5, <1>6, <1>7, <1>8 DEF Timer

\* Steps outside both: a peer goes away, the pool is closed.
LEMMA OtherSteps ==
  ASSUME PoolInv, (\E c \in ClientPools : PeerDrops(c)) \/ Close
  PROVE  PoolInv'
<1> USE DEF PoolInv
<1>1. PoolTypeOK' /\ CallerInv'
  <2>1. CASE \E c \in ClientPools : PeerDrops(c)
    BY <2>1 DEF PoolTypeOK, CallerInv, PeerDrops, callerVars
  <2>2. CASE Close
    <3>1. exit' \in [ClientPools -> BOOLEAN] /\ closed' \in BOOLEAN
      BY <2>2, Zenon DEF Close
    <3> QED BY <2>2, <3>1 DEF PoolTypeOK, CallerInv, Close, callerVars
  <2> QED BY <2>1, <2>2
<1>2. InOwnSlot' /\ WatchInv' /\ OpenInv'
  BY DEF PoolTypeOK, InOwnSlot, WatchInv, Pooled, OpenInv, PeerDrops, Close
<1>3. DialInv' /\ OneDialler'
  BY DEF DialInv, OneDialler, Dials, Pooled, PeerDrops, Close, callerVars
<1>4. CountInv'
  BY DEF CountInv, Using, PeerDrops, Close, callerVars
<1>5. TurnInv'
  BY DEF TurnInv, PeerDrops, Close, callerVars
<1> QED BY <1>1, <1>2, <1>3, <1>4, <1>5

LEMMA PoolStepKeeps == ASSUME PoolInv, [PoolNext]_poolVars PROVE PoolInv'
<1>1. ASSUME NEW p \in Callers, NEW i \in Slots, Draw(p, i) PROVE PoolInv'
  BY <1>1, DrawKeeps
<1>2. CASE UNCHANGED poolVars
  BY <1>2 DEF PoolInv, PoolTypeOK, CallerInv, InOwnSlot, DialInv, OneDialler, Dials,
       Pooled, WatchInv, CountInv, Using, OpenInv, TurnInv, poolVars, clientPoolVars,
       callerVars
<1> QED BY <1>1, <1>2, CallerSteps, TimerSteps, OtherSteps DEF PoolNext

\* The inductive invariant: every connection in a slot is in its own, and the
\* one goroutine that may take it out is the caller that dials it or its timer.
THEOREM PoolInvariant == PoolSpec => []PoolInv
<1>1. PoolInit => PoolInv
  BY InitPool
<1>2. PoolInv /\ [PoolNext]_poolVars => PoolInv'
  BY PoolStepKeeps
<1> QED BY <1>1, <1>2, PTL DEF PoolSpec

-----------------------------------------------------------------------------
(* What the runs check.                                                    *)

LEMMA InvIsConsistent == PoolInv => PoolIsConsistent
<1> SUFFICES ASSUME PoolInv PROVE PoolIsConsistent
  OBVIOUS
<1>1. DeletesOwn
  BY DEF PoolInv, PoolTypeOK, CallerInv, Held, DialInv, Dials, WatchInv, Pooled, DeletesOwn
<1>2. DialledOnce
  <2> SUFFICES ASSUME NEW c \in ClientPools
               PROVE  LET dialers == {p \in Callers : ref[p] = c /\ (step[p] = "dialing" \/
                                            (step[p] = "picked" /\ sync[c] = 0))}
                      IN  Cardinality(dialers) <= 1 /\ (dialers # {} => timer[c] = "none")
    BY DEF DialledOnce
  <2> DEFINE dialers == {p \in Callers : ref[p] = c /\ (step[p] = "dialing" \/
                                            (step[p] = "picked" /\ sync[c] = 0))}
  <2>1. \A p \in dialers : Dials(p, c)
    BY DEF PoolInv, DialInv, Dials
  <2>2. dialers # {} => timer[c] = "none"
    BY <2>1 DEF PoolInv, DialInv
  <2>3. Cardinality(dialers) <= 1
    <3>1. CASE dialers = {}
      BY <3>1, FS_EmptySet
    <3>2. CASE dialers # {}
      <4>1. PICK p \in dialers : TRUE
        BY <3>2
      <4>2. dialers = {p}
        BY <2>1, <4>1 DEF PoolInv, OneDialler
      <4>3. Cardinality(dialers) = 1
        BY <4>2, FS_Singleton
      <4> QED BY <4>3
    <3> QED BY <3>1, <3>2
  <2> QED BY <2>2, <2>3
<1>3. FetchNumMatches
  BY DEF PoolInv, CountInv, Using, FetchNumMatches
<1> QED BY <1>1, <1>2, <1>3 DEF PoolIsConsistent

\* fetch and the timer take connections out by slot number, so this is what
\* keeps a connection from being forgotten open: whoever calls delConn finds its
\* own connection there; a connection is dialled by one caller; fetchNum is
\* the number of calls on it.
THEOREM PoolConsistent == PoolSpec => []PoolIsConsistent
BY PoolInvariant, InvIsConsistent, PTL

\* A client that fetch returns is closed only if the pool is closing or the
\* connection was marked broken or left the pool since the caller drew it.
THEOREM FetchesClosedOnlyOnceLeft == PoolSpec => ClosedOnlyOnceLeft
<1>1. PoolInv => \A p \in Callers : LET c == ref[p] IN
        (step[p] = "ready" /\ link[c] = "closed")
            => closed \/ sync[c] # 1 \/ \A i \in Slots : slot[i] # c
  <2> SUFFICES ASSUME PoolInv, NEW p \in Callers, step[p] = "ready", link[ref[p]] = "closed",
                      ~closed, sync[ref[p]] = 1, NEW i \in Slots, slot[i] = ref[p]
               PROVE  FALSE
    OBVIOUS
  <2>1. slot[i] # Nothing
    BY ClientPoolAssumption DEF PoolInv, PoolTypeOK, CallerInv, Held
  <2> QED BY <2>1 DEF PoolInv, OpenInv
<1>2. PoolInv /\ [PoolNext]_poolVars =>
        \A p \in Callers : LET c == ref[p] IN
          (step[p] = "ready" /\ step'[p] = "using" /\ link[c] = "closed")
            => closed \/ sync[c] # 1 \/ \A i \in Slots : slot[i] # c
  BY <1>1
<1> QED BY <1>2, PoolInvariant, PTL DEF PoolSpec, ClosedOnlyOnceLeft

\* If a call cannot last as long as the turns the timer waits, every call that
\* is counted on a retired connection has ended when it is closed.  A caller
\* that has drawn it and is not counted yet is outside of the statement.
THEOREM DrainIsComplete == PoolSpec => DrainTakesEveryone
<1>1. ASSUME PoolInv, [PoolNext]_poolVars, NEW c \in ClientPools,
             timer[c] = "drain", timer'[c] = "close", CallTurns < DrainTurns
      PROVE  fetchNum[c] = 0
  <2>1. Drain(c)
    BY <1>1, ClientPoolAssumption
    DEF PoolInv, PoolTypeOK, PoolNext, poolVars, clientPoolVars, callerVars, Caller, Timer,
        Draw, DrawEmpty, DrawTaken, Picked, Connected, DialFails, Failed, Fetch, Release,
        WatchBroken, WatchExit, WatchExpires, Delete, Retire, Turn, Drain, CloseRetired,
        CloseLink, PeerDrops, Close
  <2>2. fetchNum[c] = Cardinality(Using(c)) /\ Cardinality(Using(c)) \in Nat
    BY <1>1, UsingIsFinite, FS_CardinalityType DEF PoolInv, CountInv
  <2>3. CASE turns[c] = DrainTurns
    <3>1. \A p \in Callers : ref[p] # c
      BY <1>1, <2>3, ClientPoolAssumption DEF PoolInv, PoolTypeOK, TurnInv
    <3>2. Using(c) = {}
      BY <3>1 DEF Using
    <3> QED BY <2>2, <3>2, FS_EmptySet
  <2> QED BY <2>1, <2>2, <2>3 DEF Drain
<1>2. PoolInv /\ [PoolNext]_poolVars =>
        \A c \in ClientPools :
          (timer[c] = "drain" /\ timer'[c] = "close" /\ CallTurns < DrainTurns)
            => fetchNum[c] = 0
  BY <1>1
<1> QED BY <1>2, PoolInvariant, PTL DEF PoolSpec, DrainTakesEveryone
=============================================================================
