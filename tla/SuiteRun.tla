------------------------------- MODULE SuiteRun -------------------------------
(***************************************************************************)
(* What running a suite in parallel promises, without queue, workers,      *)
(* output manager or signals: every test is started once and reported once,*)
(* a test started after the suite was cancelled is reported as an error,   *)
(* and the verdict is given after the last report, from all of them.       *)
(***************************************************************************)
EXTENDS TestOutcome

CONSTANT Tests

VARIABLES
    phase,       \* pending, running, doomed (started too late) or a status
    cancelled,
    verdict      \* none, passed or failed

vars == <<phase, cancelled, verdict>>

Phases == {"pending", "running", "doomed"} \cup Statuses

Init ==
    /\ phase = [t \in Tests |-> "pending"]
    /\ cancelled = FALSE
    /\ verdict = "none"

\* By an exit signal, or when the run ends.
Cancel == cancelled' = TRUE /\ UNCHANGED <<phase, verdict>>

Start(t) ==
    /\ phase[t] = "pending"
    /\ phase' = [phase EXCEPT ![t] = IF cancelled THEN "doomed" ELSE "running"]
    /\ UNCHANGED <<cancelled, verdict>>

Report(t, status) ==
    /\ \/ phase[t] = "running"
       \/ phase[t] = "doomed" /\ status = "ERRORED"
    /\ phase' = [phase EXCEPT ![t] = status]
    /\ UNCHANGED <<cancelled, verdict>>

Conclude ==
    /\ verdict = "none"
    /\ \A t \in Tests : phase[t] \in Statuses
    /\ verdict' = IF \A t \in Tests : phase[t] = "PASSED" THEN "passed" ELSE "failed"
    /\ UNCHANGED <<phase, cancelled>>

Next ==
    \/ Cancel
    \/ Conclude
    \/ \E t \in Tests : Start(t) \/ \E status \in Statuses : Report(t, status)

Spec == Init /\ [][Next]_vars

TypeOK ==
    /\ phase \in [Tests -> Phases]
    /\ cancelled \in BOOLEAN
    /\ verdict \in {"none", "passed", "failed"}

\* The run goes on to its verdict.
Fairness ==
    /\ WF_vars(Conclude)
    /\ \A t \in Tests : WF_vars(Start(t) \/ \E status \in Statuses : Report(t, status))

FairSpec == Spec /\ Fairness
=============================================================================
