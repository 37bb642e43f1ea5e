---------------------------- MODULE HealthClient ----------------------------
(***************************************************************************)
(* The heartbeats a dao or a gateway sends to the apps of its              *)
(* configuration (framework/call_health.go).  An app that restarts hot     *)
(* listens on the next free port, so an app that does not answer on its    *)
(* last port is looked for on the ports from its first one on.  The apps   *)
(* share one range of ports: on one host theirs may overlap, and apps of   *)
(* different hosts have ports that do not meet.                            *)
(***************************************************************************)
EXTENDS Integers, FiniteSets

CONSTANTS
    Remotes,    \* HealthClient.AppRemote: each app by its StartPort
    Scanned,    \* the ports a heartbeat looks on (9)
    Tried       \* the ports GotreeService.Run tries to listen on (10)

ASSUME HealthAssumption ==
    /\ IsFiniteSet(Remotes) /\ Remotes \subseteq Nat \ {0}
    /\ Scanned \in Nat \ {0} /\ Tried \in Nat \ {0}

VARIABLES
    gateway,    \* HealthClient.gateway: Ping, or HandShake
    up,         \* the ports apps listen on
    port,       \* AppRemote.Port of each app
    clientMap,  \* Start's clientMap: where the client of an address leads, 0 for none
    cut,        \* addresses whose client's connection is broken
    addrMap,    \* CallRoute.addrMap: the ports a gateway calls
    pending,    \* apps that have yet to get their heartbeat in this turn
    beat,       \* where the loop stands
    looked,      \* how many ports it has looked on
    closeMsg    \* HealthClient.closeMsg

healthClientVars == <<port, clientMap, cut, addrMap>>
loopVars == <<pending, beat, looked, closeMsg>>
healthVars == <<gateway, up, healthClientVars, loopVars>>

Window(r) == r .. r + Scanned - 1
Ports == UNION {r .. r + (IF Tried > Scanned THEN Tried ELSE Scanned) - 1 : r \in Remotes}

HealthInit ==
    /\ gateway \in BOOLEAN
    /\ up = {}
    /\ port = [r \in Remotes |-> r]
    /\ clientMap = [p \in Ports |-> 0]
    /\ cut = {}
    /\ addrMap = IF gateway THEN Remotes ELSE {}
    /\ pending = {} /\ beat = "sleeping" /\ looked = 0
    /\ closeMsg = FALSE

-----------------------------------------------------------------------------
(* The apps.                                                               *)

\* GotreeService.Run listens on the first port it gets.
AppListens(r) ==
    /\ \E p \in (r .. r + Tried - 1) \ up :
        /\ r .. p - 1 \subseteq up
        /\ up' = up \cup {p}
    /\ UNCHANGED <<gateway, healthClientVars, loopVars>>

\* The process ends, and the connections to it break.
AppEnds(p) ==
    /\ p \in up
    /\ up' = up \ {p}
    /\ cut' = cut \cup {k \in Ports : clientMap[k] = p}
    /\ UNCHANGED <<gateway, port, clientMap, addrMap, loopVars>>

-----------------------------------------------------------------------------
(* Start: the loop, and what it does for one app.                          *)

\* Look for a close message, between two halves of a second asleep.
Check ==
    /\ beat = "checking"
    /\ beat' = IF closeMsg THEN "left" ELSE "sleeping"
    /\ closeMsg' = FALSE
    /\ UNCHANGED <<gateway, up, healthClientVars, pending, looked>>

Beat ==
    /\ beat = "sleeping"
    /\ beat' = "beating"
    /\ pending' = Remotes
    /\ UNCHANGED <<gateway, up, healthClientVars, looked, closeMsg>>

\* The app at hand: the list is gone through in order.
Current(r) == r \in pending /\ \A s \in pending : r <= s

AllBeaten ==
    /\ beat = "beating"
    /\ pending = {}
    /\ beat' = "checking"
    /\ UNCHANGED <<gateway, up, healthClientVars, pending, looked, closeMsg>>

Scans ==
    /\ beat' = "scanning"
    /\ looked' = 0
    /\ UNCHANGED <<gateway, up, port, pending, closeMsg>>

\* The address has no client.  A new one is stored; but daoHeartbeat declares
\* it in an inner scope, and goes on as if it had none.
Dial(r) ==
    /\ beat = "beating" /\ Current(r)
    /\ clientMap[port[r]] = 0
    /\ clientMap' = [clientMap EXCEPT ![port[r]] = IF port[r] \in up THEN port[r] ELSE 0]
    /\ cut' = cut \ {port[r]}
    /\ IF gateway /\ port[r] \in up
       THEN beat' = "calling" /\ UNCHANGED <<gateway, up, port, addrMap, pending, looked, closeMsg>>
       ELSE Scans /\ addrMap' = addrMap \ (IF gateway THEN {port[r]} ELSE {})

Reuse(r) ==
    /\ beat = "beating" /\ Current(r)
    /\ clientMap[port[r]] # 0
    /\ beat' = "calling"
    /\ UNCHANGED <<gateway, up, healthClientVars, pending, looked, closeMsg>>

\* Done with the app: the loop goes on to the next.
Done(r) ==
    /\ pending' = pending \ {r}
    /\ beat' = "beating"
    /\ looked' = 0
    /\ UNCHANGED <<gateway, up, closeMsg>>

\* HandShake or Ping is answered.
BeatAnswered(r) ==
    /\ beat = "calling" /\ Current(r)
    /\ port[r] \notin cut
    /\ addrMap' = addrMap \cup (IF gateway THEN {port[r]} ELSE {})
    /\ Done(r)
    /\ UNCHANGED <<port, clientMap, cut>>

\* Mutant: the client whose call failed stays in the map.
FailedKept(r) ==
    /\ beat = "calling" /\ Current(r)
    /\ port[r] \in cut
    /\ Done(r)
    /\ UNCHANGED healthClientVars

\* Mutant: the address whose call failed is not taken off the route.
FailedStillCalled(r) ==
    /\ beat = "calling" /\ Current(r)
    /\ port[r] \in cut
    /\ clientMap' = [clientMap EXCEPT ![port[r]] = 0]
    /\ cut' = cut \ {port[r]}
    /\ UNCHANGED addrMap
    /\ Scans

Failed(r) ==
    /\ beat = "calling" /\ Current(r)
    /\ port[r] \in cut
    /\ clientMap' = [clientMap EXCEPT ![port[r]] = 0]
    /\ cut' = cut \ {port[r]}
    /\ addrMap' = addrMap \ (IF gateway THEN {port[r]} ELSE {})
    /\ Scans

\* The app answers on the next port, and stays the one called for the client
\* stored here.  daoHeartbeat stores it under the address it had before.
Found(r) ==
    /\ beat = "scanning" /\ Current(r)
    /\ looked < Scanned
    /\ LET p   == r + looked
           key == IF gateway THEN p ELSE port[r] IN
        /\ p \in up
        /\ port' = [port EXCEPT ![r] = p]
        /\ clientMap' = [clientMap EXCEPT ![key] = p]
        /\ cut' = cut \ {key}
        /\ addrMap' = addrMap \cup (IF gateway THEN {p} ELSE {})
    /\ Done(r)

NotThere(r) ==
    /\ beat = "scanning" /\ Current(r)
    /\ looked < Scanned
    /\ r + looked \notin up
    /\ looked' = looked + 1
    /\ UNCHANGED <<gateway, up, healthClientVars, pending, beat, closeMsg>>

NotFound(r) ==
    /\ beat = "scanning" /\ Current(r)
    /\ looked = Scanned
    /\ Done(r)
    /\ UNCHANGED healthClientVars

\* HealthClient.Close, which the stop of a dao calls.
CloseHealth ==
    /\ ~closeMsg /\ beat # "left"
    /\ ~gateway
    /\ closeMsg' = TRUE
    /\ UNCHANGED <<gateway, up, healthClientVars, pending, beat, looked>>

HeartBeat ==
    \/ Check \/ Beat \/ AllBeaten
    \/ \E r \in Remotes :
        Dial(r) \/ Reuse(r) \/ BeatAnswered(r) \/ Failed(r) \/ Found(r) \/ NotThere(r) \/ NotFound(r)

HealthNext ==
    \/ HeartBeat
    \/ CloseHealth
    \/ \E r \in Remotes : AppListens(r)
    \/ \E p \in Ports : AppEnds(p)

HealthSpec == HealthInit /\ [][HealthNext]_healthVars

-----------------------------------------------------------------------------
\* The addresses a gateway calls are those of its apps, each where the app was
\* last seen; and when a turn is over the gateway has a client at each of them,
\* which leads to an app that listens, or to one that has ended since and whose
\* connection broke, so that the next turn takes the address off.
GatewayCallsClients ==
    gateway =>
        /\ addrMap \subseteq {port[r] : r \in Remotes}
        /\ beat = "checking" => \A p \in addrMap : clientMap[p] = p /\ p \in up \cup cut

\* The app or apps on the ports r is looked for on.
Listening(r) == up \cap Window(r)

\* The app hears the client: by the heartbeat's first call, or by the scan.
Heard(r) ==
    \/ BeatAnswered(r) /\ Listening(r) = {clientMap[port[r]]}
    \/ Found(r) /\ Listening(r) = {port'[r]}

\* No other app of the configuration can be on a port this one is looked for on.
Alone(r) == \A s \in Remotes \ {r} : Window(s) \cap Window(r) = {}

\* An app that, from some time on, is the only one on the ports it is looked
\* for on gets its heartbeats for ever, whatever ports it had before, however
\* often it failed and under whichever address its client is stored; and a
\* gateway has its address for ever.  (Of two apps with ports in common, a dao
\* may take one for the other: it stores clients under old addresses.  Apps
\* come and go one at a time: while there is one, it is the same.)
AppIsFound ==
    \A r \in Remotes :
        <>[](Cardinality(Listening(r)) = 1 /\ beat # "left" /\ (gateway \/ Alone(r)))
            => /\ []<><<Heard(r)>>_healthVars
               /\ gateway => <>[](Listening(r) \subseteq addrMap)
=============================================================================
