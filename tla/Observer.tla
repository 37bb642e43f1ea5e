------------------------------ MODULE Observer ------------------------------
(***************************************************************************)
(* Events (framework/base.go, framework/observer.go): a global map holds   *)
(* an observer for each event, the observer the handlers of those that     *)
(* subscribed.  Subscribing loads the observer, or creates one and stores  *)
(* it; who unsubscribes last deletes the observer.  Only the steps inside  *)
(* an observer are locked.  The model is of one event, system_shutdown,    *)
(* to which each asynchronous task subscribes for the time it runs, and    *)
(* the timers of the application, if it has some, for good.                *)
(***************************************************************************)
EXTENDS Integers, FiniteSets

CONSTANTS
    Subscribers,    \* asynchronous tasks
    TimerObserver,  \* the observer the first timer created
    NoObserver

\* Each task may create one observer, which bears its name.
ObServers == Subscribers \cup {TimerObserver}

ASSUME ObserverAssumption ==
    TimerObserver \notin Subscribers /\ NoObserver \notin ObServers

VARIABLES
    gObserver,  \* _gObserver: the observer of the event, or NoObserver
    serMap,     \* ObServer.serMap: who is subscribed at each observer
    sub,        \* where each subscriber stands
    held,       \* the observer it has loaded or created
    emit,       \* where GotreeBase.Event stands
    emitted,    \* the observer it has loaded
    owed        \* who was subscribed when it began and has not left since

obsVars == <<gObserver, serMap, sub, held, emit, emitted, owed>>
emitVars == <<emit, emitted>>

\* An application with timers has subscribed them before anything runs.
ObsInit ==
    /\ gObserver \in {NoObserver, TimerObserver}
    /\ serMap = [o \in ObServers |->
         IF o = gObserver THEN {TimerObserver} ELSE {}]
    /\ sub = [s \in Subscribers |-> "new"]
    /\ held = [s \in Subscribers |-> NoObserver]
    /\ emit = "no" /\ emitted = NoObserver /\ owed = {}

-----------------------------------------------------------------------------
(* GotreeBase.AddEvent.                                                    *)

\* Load: an observer is there, or a new one is made.
AddLoad(s) ==
    /\ sub[s] = "new"
    /\ sub' = [sub EXCEPT ![s] = IF gObserver = NoObserver THEN "create" ELSE "join"]
    /\ held' = [held EXCEPT ![s] = IF gObserver = NoObserver THEN s ELSE gObserver]
    /\ UNCHANGED <<gObserver, serMap, emitVars, owed>>

\* ObServer.AddEvent.
AddJoin(s) ==
    /\ sub[s] \in {"join", "create"}
    /\ serMap' = [serMap EXCEPT ![held[s]] = @ \cup {s}]
    /\ sub' = [sub EXCEPT ![s] = IF @ = "join" THEN "in" ELSE "store"]
    /\ UNCHANGED <<gObserver, held, emitVars, owed>>

AddStore(s) ==
    /\ sub[s] = "store"
    /\ gObserver' = held[s]
    /\ sub' = [sub EXCEPT ![s] = "in"]
    /\ UNCHANGED <<serMap, held, emitVars, owed>>

-----------------------------------------------------------------------------
(* GotreeBase.RemoveEvent.                                                 *)

RemoveLoad(s) ==
    /\ sub[s] = "in"
    /\ sub' = [sub EXCEPT ![s] = IF gObserver = NoObserver THEN "out" ELSE "leave"]
    /\ held' = [held EXCEPT ![s] = gObserver]
    /\ owed' = owed \ {s}
    /\ UNCHANGED <<gObserver, serMap, emitVars>>

\* ObServer.RemoveEvent.
RemoveLeave(s) ==
    /\ sub[s] = "leave"
    /\ serMap' = [serMap EXCEPT ![held[s]] = @ \ {s}]
    /\ sub' = [sub EXCEPT ![s] = "count"]
    /\ UNCHANGED <<gObserver, held, emitVars, owed>>

\* A bug: the one subscriber that is left is taken for this one.
RemoveCountLast(s) ==
    /\ sub[s] = "count"
    /\ sub' = [sub EXCEPT ![s] =
         IF Cardinality(serMap[held[s]]) <= 1 THEN "delete" ELSE "out"]
    /\ UNCHANGED <<gObserver, serMap, held, emitVars, owed>>

\* SubscribeLen.
RemoveCount(s) ==
    /\ sub[s] = "count"
    /\ sub' = [sub EXCEPT ![s] = IF serMap[held[s]] = {} THEN "delete" ELSE "out"]
    /\ UNCHANGED <<gObserver, serMap, held, emitVars, owed>>

\* Delete takes whatever observer the event has by now.
RemoveDelete(s) ==
    /\ sub[s] = "delete"
    /\ gObserver' = NoObserver
    /\ sub' = [sub EXCEPT ![s] = "out"]
    /\ UNCHANGED <<serMap, held, emitVars, owed>>

-----------------------------------------------------------------------------
(* GotreeBase.Event, called once when the application stops.               *)

EventLoad ==
    /\ emit = "no"
    /\ emitted' = gObserver
    /\ emit' = IF gObserver = NoObserver THEN "done" ELSE "loaded"
    /\ owed' = {s \in Subscribers : sub[s] = "in"}
    /\ UNCHANGED <<gObserver, serMap, sub, held>>

\* ObServer.Event: the handlers of those subscribed are called.
EventCalls ==
    /\ emit = "loaded"
    /\ emit' = "done"
    /\ owed' = owed \ serMap[emitted]
    /\ UNCHANGED <<gObserver, serMap, sub, held, emitted>>

ObsNext ==
    \/ \E s \in Subscribers :
        \/ AddLoad(s) \/ AddJoin(s) \/ AddStore(s)
        \/ RemoveLoad(s) \/ RemoveLeave(s) \/ RemoveCount(s) \/ RemoveDelete(s)
    \/ EventLoad \/ EventCalls

ObsSpec == ObsInit /\ [][ObsNext]_obsVars

-----------------------------------------------------------------------------
\* In an application with timers the shutdown reaches every task whose
\* AddEvent has returned and that does not leave meanwhile: an observer that
\* has a subscriber for good is never replaced or deleted (AddEvent,
\* RemoveEvent, Event).  Without timers the first two tasks may create an
\* observer each, and the last to leave may delete the one just joined.
ShutdownReachesTasks ==
    emit = "done" /\ TimerObserver \in serMap[TimerObserver] => owed = {}
=============================================================================
