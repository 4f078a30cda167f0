-------------------------- MODULE ControllerContract --------------------------
(***************************************************************************)
(* What the initializer may rely on of a controller: it requests services  *)
(* while it is alive, and it ends successfully only when none of them runs *)
(* or is about to, unless a call of its own has failed.  TestExecutor lets *)
(* its controller do whatever these actions allow.                         *)
(***************************************************************************)

CONSTANT Services

VARIABLES
    alive,
    succeeded,     \* it has exited with code 0
    service,       \* none, requested, running, stopped
    faulted        \* a call about a service has failed, or was left by a panic

vars == <<alive, succeeded, service, faulted>>

Init ==
    /\ alive = TRUE /\ succeeded = FALSE
    /\ service = [s \in Services |-> "none"]
    /\ faulted = FALSE

Become(s, from, to) ==
    /\ service[s] = from
    /\ service' = [service EXCEPT ![s] = to]
    /\ UNCHANGED <<alive, succeeded, faulted>>

RequestService(s) == alive /\ Become(s, "none", "requested")

\* A request outlives the controller that made it.
LandService(s) == Become(s, "requested", "running") \/ Become(s, "requested", "stopped")

StopService(s) == Become(s, "running", "stopped")

Fault == faulted' = TRUE /\ UNCHANGED <<alive, succeeded, service>>

Exit(success) ==
    /\ alive
    /\ success => faulted \/ \A s \in Services : service[s] \notin {"requested", "running"}
    /\ alive' = FALSE
    /\ succeeded' = success
    /\ UNCHANGED <<service, faulted>>

Next ==
    \/ \E s \in Services : RequestService(s) \/ LandService(s) \/ StopService(s)
    \/ Fault
    \/ \E success \in BOOLEAN : Exit(success)

Spec == Init /\ [][Next]_vars
=============================================================================
