----------------------------- MODULE TestOutcome -----------------------------
(***************************************************************************)
(* The (testPassed, executionErr) pair that runTest hands to the worker    *)
(* that called it, and the status printed for it.                          *)
(***************************************************************************)

\* testResult / parallelTestOutput.  An error is abstracted to its presence.
Outcome == [passed : BOOLEAN, err : BOOLEAN]

Passed  == [passed |-> TRUE,  err |-> FALSE]
Failed  == [passed |-> FALSE, err |-> FALSE]
Errored == [passed |-> FALSE, err |-> TRUE]

Statuses == {"PASSED", "FAILED", "ERRORED"}

\* getTestStatusFromResult: an error takes precedence over the verdict.
TestStatus(o) == IF o.err THEN "ERRORED" ELSE IF o.passed THEN "PASSED" ELSE "FAILED"

\* What a call of runTest may return, given whether the context it was called
\* with had already been cancelled.  Every error path returns FALSE with the
\* error.  TestExecutor models the function itself and checks this contract.
RunTestOutcomes(cancelledAtStart) ==
    IF cancelledAtStart THEN {Errored} ELSE {Passed, Failed, Errored}
=============================================================================
