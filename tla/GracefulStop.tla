---------------------------- MODULE GracefulStop ----------------------------
(***************************************************************************)
(* What a gotree process promises when it is told to stop: the requests it *)
(* admitted are waited for, as long as its patience lasts, and a request   *)
(* it turns away has not been executed, so that the caller may repeat it.  *)
(***************************************************************************)
EXTENDS Naturals

CONSTANTS
    Requests,   \* the requests that ever reach the process
    Patience    \* how often the process looks for running requests

VARIABLES
    service,    \* "up", "stopping" or "down"
    waits,      \* how often it has found running requests since told to stop
    fate        \* what has become of each request

vars == <<service, waits, fate>>

Init ==
    /\ service = "up"
    /\ waits = 0
    /\ fate = [r \in Requests |-> "waiting"]

Becomes(r, from, to) ==
    /\ fate[r] = from
    /\ fate' = [fate EXCEPT ![r] = to]
    /\ UNCHANGED <<service, waits>>

Admit(r) == service # "down" /\ Becomes(r, "waiting", "executing")

Finish(r) == Becomes(r, "executing", "finished")

\* Turned away before it was executed.
Refuse(r) == service # "up" /\ Becomes(r, "waiting", "refused")

\* Malformed, or meant for a method the process does not have.
Reject(r) == Becomes(r, "waiting", "rejected")

Stop ==
    /\ service = "up"
    /\ service' = "stopping"
    /\ UNCHANGED <<waits, fate>>

Wait ==
    /\ service = "stopping"
    /\ waits < Patience
    /\ waits' = waits + 1
    /\ UNCHANGED <<service, fate>>

GoDown ==
    /\ service = "stopping"
    /\ waits = Patience \/ \A r \in Requests : fate[r] # "executing"
    /\ service' = "down"
    /\ UNCHANGED <<waits, fate>>

Next ==
    \/ \E r \in Requests : Admit(r) \/ Finish(r) \/ Refuse(r) \/ Reject(r)
    \/ Stop \/ Wait \/ GoDown

Spec == Init /\ [][Next]_vars
=============================================================================
