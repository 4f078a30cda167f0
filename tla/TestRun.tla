-------------------------------- MODULE TestRun --------------------------------
(***************************************************************************)
(* One test with both of its processes: the initializer's TestExecutor and *)
(* the TestController it starts in a container.  They share the engine and *)
(* the exit code, nothing else.                                            *)
(*                                                                         *)
(* In place of the free controller of TestExecutor there is the real one:  *)
(* each process takes its own steps, and what TestExecutor sees of         *)
(* containers and exit code (box, exitCode) has to agree with what the     *)
(* controller does (svc, mainPc).                                          *)
(***************************************************************************)
EXTENDS TestExecutor, Integers

CONSTANTS ServiceIDs, Configurations, Capacity, NoNode, NoService

\* What ServiceNetwork assumes is assumed again: an instance does not bring it along.
ASSUME RunAssumption ==
    /\ Capacity \in Nat /\ Services = 1..Capacity
    /\ NoNode \notin Nat /\ NoService \notin ServiceIDs

VARIABLES
    builderConfigurations, configurations, serviceNodes, handedOut, frame, toRemove,
    svc, forgotten,
    mainPc, outcome, awaiting, polling, probing, expired, testPc, panic, timedOut,
    crashed

ctlVars == <<builderConfigurations, configurations, serviceNodes, handedOut, frame,
             toRemove, svc, forgotten, mainPc, outcome, awaiting, polling, probing,
             expired, testPc, panic, timedOut, crashed>>

Ctl == INSTANCE TestController WITH box <- svc

\* One engine, seen from two processes.  A container created is not yet started.
OneEngine ==
    /\ \A s \in Services : box[s] = (IF svc[s] = "created" THEN "none" ELSE svc[s])
    /\ mainPc # "setup" => box[Controller] \in {"running", "stopped"}
    /\ box[Controller] = "stopped" <=> mainPc = "exited"
    /\ box[Controller] = "stopped" => (exitCode = 0 <=> Ctl!ExitZero)

RunInit == Init /\ Ctl!Init

RunNext ==
    /\ Next \/ UNCHANGED vars
    /\ Ctl!Next \/ UNCHANGED ctlVars
    /\ OneEngine'

RunSpec == RunInit /\ [][RunNext]_<<vars, ctlVars>>

-----------------------------------------------------------------------------
(* Properties *)

\* What the suite reports as passed is a test whose Run came to an end in time, before both
\* timeouts, after all the services it waits for came up, and not by a panic with an error:
\* this reaches the suite through goroutine, exit code and two selects.  A panic with nil
\* goes unnoticed: Fatal(nil) stops the test half-way, and it is reported as passed.
PassedTestEndedWithoutError ==
    runner = "returned" /\ result = Passed =>
        /\ testPc = "done" /\ panic \in {"none", "nil"}
        /\ awaiting = {}
        /\ ~timedOut /\ ~overdue /\ ~crashed

\* A test goroutine that reports a verdict, passed or failed, leaves neither network nor
\* service behind, unless a call of its own failed, the controller forgot a container (see
\* ServiceNetwork), timed out or died: no service that was requested starts after the
\* initializer has listed those to stop.
VerdictLeavesNothing ==
    g \in {"send", "finished"} /\ gResult \in {Passed, Failed}
      /\ ~faulted /\ forgotten = {} /\ ~timedOut /\ ~crashed =>
        network = "removed" /\ Running = {} /\ Ctl!Up = {}
=============================================================================
