----------------------------- MODULE TestExecutor -----------------------------
(***************************************************************************)
(* runTest for one test: the runner that waits with two timeouts, the      *)
(* goroutine that creates the network, runs the controller container and   *)
(* removes the network, and, outside the process, the Docker engine and    *)
(* the controller that starts and stops service containers.                *)
(*                                                                         *)
(* Time is abstracted: a timer may fire whenever it is running.  A request *)
(* bound to the test's context is refused once the context is cancelled;   *)
(* one that was already sent is abandoned, and the engine may still carry  *)
(* it out.  Requests of the removal are bound to context.Background().     *)
(***************************************************************************)
EXTENDS TestOutcome, FiniteSets

CONSTANTS
    Services,       \* service containers the controller may start
    Controller,     \* the controller container
    Interruptible   \* whether the suite may be cancelled while the test runs

ASSUME ExecutorAssumption ==
    /\ IsFiniteSet(Services) /\ Controller \notin Services
    /\ Interruptible \in BOOLEAN

Containers == Services \cup {Controller}

VARIABLES
    runner, result,       \* runTest: waiting, grace, returned; what it returned
    overdue,              \* history: its hard timeout has fired
    cancelled,            \* the context the test goroutine was given
    bornCancelled,        \* ... was cancelled before runTest was called
    g, gResult,           \* the goroutine: its position, its result
    asked,                \* it has a context-bound request in flight
    netKnown,             \* it holds the network ID: the removal is deferred
    toStop, removal,      \* RemoveNetwork: containers left to stop, its outcome
    missed,               \* history: containers started after NetworkInspect
    ctlLog,               \* the tempfile mounted for the controller's log
    network, box,         \* the engine: the network, each container
    exitCode,             \* of the controller
    stray,                \* abandoned requests the engine may still carry out
    faulted               \* history: a call of this test has failed

runnerVars    == <<runner, result, overdue>>
goroutineVars == <<g, gResult, asked, netKnown, toStop, removal, ctlLog>>
engineVars    == <<network, box, exitCode, missed>>
vars == <<runnerVars, cancelled, bornCancelled, goroutineVars, engineVars, stray, faulted>>

Init ==
    /\ runner = "waiting" /\ result = Errored /\ overdue = FALSE
    /\ cancelled \in {FALSE, Interruptible} /\ bornCancelled = cancelled
    /\ g = "checkName" /\ gResult = Errored
    /\ asked = FALSE /\ netKnown = FALSE
    /\ toStop = {} /\ removal = "none" /\ missed = {}
    /\ ctlLog = "none"
    /\ network = "none"
    /\ box = [c \in Containers |-> "none"]
    /\ exitCode = 0
    /\ stray = {}
    /\ faulted = FALSE

Running == {c \in Containers : box[c] = "running"}

-----------------------------------------------------------------------------
(* runTest *)

Return(o) == /\ runner' = "returned"
             /\ result' = o
             /\ cancelled' = TRUE        \* defer cancelFunc()
             /\ UNCHANGED overdue

\* Mutation variant: a result that arrives in the grace period is returned.
ReceiveLateResult ==
    /\ runner \in {"waiting", "grace"}
    /\ g = "send"
    /\ g' = "finished"
    /\ Return(gResult)
    /\ UNCHANGED <<bornCancelled, gResult, asked, netKnown, toStop, removal,
                   ctlLog, engineVars, stray, faulted>>

\* The channel is unbuffered: the goroutine finishes when its result is taken.
\* A result that arrives in the grace period is dropped for the timeout error.
ReceiveResult ==
    /\ runner \in {"waiting", "grace"}
    /\ g = "send"
    /\ g' = "finished"
    /\ Return(IF runner = "waiting" THEN gResult ELSE Errored)
    /\ UNCHANGED <<bornCancelled, gResult, asked, netKnown, toStop, removal,
                   ctlLog, engineVars, stray, faulted>>

\* Mutation variant: the context is not cancelled on the timeout.
HardTimeoutWithoutCancel ==
    /\ runner = "waiting"
    /\ runner' = "grace" /\ overdue' = TRUE
    /\ UNCHANGED <<cancelled, result, bornCancelled, goroutineVars, engineVars, stray,
                   faulted>>

HardTimeout ==
    /\ runner = "waiting"
    /\ runner' = "grace" /\ overdue' = TRUE
    /\ cancelled' = TRUE
    /\ UNCHANGED <<result, bornCancelled, goroutineVars, engineVars, stray, faulted>>

\* Mutation variant: without a grace timer runTest waits for the goroutine.
GraceNeverExpires ==
    /\ runner = "grace" /\ g = "send"
    /\ Return(Errored)
    /\ UNCHANGED <<bornCancelled, goroutineVars, engineVars, stray, faulted>>

\* The goroutine is called lost; it goes on without anybody to report to.
GraceExpires ==
    /\ runner = "grace"
    /\ Return(Errored)
    /\ UNCHANGED <<bornCancelled, goroutineVars, engineVars, stray, faulted>>

Runner == ReceiveResult \/ HardTimeout \/ GraceExpires

-----------------------------------------------------------------------------
(* runTestGoroutine: calls of the Docker client *)

\* Mutation variant: an error return that skips the deferred removal.
AbortWithoutDefer == /\ g' = "send"
                     /\ gResult' = Errored
                     /\ UNCHANGED <<netKnown, toStop, removal, ctlLog>>

\* The error returns: the deferred removal runs if it was registered.
Abort == /\ g' = IF netKnown THEN "inspect" ELSE "send"
         /\ gResult' = Errored
         /\ UNCHANGED <<netKnown, toStop, removal, ctlLog>>

Advance(next) == /\ g' = next
                 /\ UNCHANGED <<gResult, toStop, removal>>

UnboundCalls == {"checkName", "tempfile", "listImages", "checkNetwork", "connect", "readLog"}
BoundCalls   == {"createNetwork", "createVolume", "pull", "createContainer",
                 "startContainer", "waitExit"}

\* Requests that leave something behind if carried out late.  A volume is one too,
\* but Kurtosis never removes volumes and nothing depends on them.
LastingRequests == {"createNetwork", "createContainer", "startContainer"}

\* A call that ignores the context.
UnboundCall(at, success) ==
    /\ g = at
    /\ success
    /\ UNCHANGED <<runnerVars, cancelled, bornCancelled, asked, stray, faulted>>

\* Mutation variant: the request is sent whatever the state of the context.
SendRegardless ==
          /\ ~asked
          /\ asked' = TRUE
          /\ UNCHANGED <<g, gResult, netKnown, toStop, removal, ctlLog, engineVars, stray>>

\* A call bound to the context is refused or sent, then answered or abandoned.
Refuse == /\ ~asked /\ cancelled
          /\ Abort
          /\ UNCHANGED <<asked, engineVars, stray>>
Send   == /\ ~asked /\ ~cancelled
          /\ asked' = TRUE
          /\ UNCHANGED <<g, gResult, netKnown, toStop, removal, ctlLog, engineVars, stray>>
Abandon(at) ==
          /\ asked /\ asked' = FALSE /\ cancelled
          /\ Abort
          /\ stray' = stray \cup ({at} \cap LastingRequests)
          /\ UNCHANGED engineVars

BoundCall(at, success) ==
    /\ g = at
    /\ \/ Refuse \/ Send \/ Abandon(at)
       \/ asked /\ asked' = FALSE /\ success /\ UNCHANGED stray
    /\ UNCHANGED <<runnerVars, cancelled, bornCancelled, faulted>>

\* The engine or the file system answers a call with an error, or the answer is
\* lost.
CallFails ==
    /\ g \in UnboundCalls \/ (g \in BoundCalls /\ asked)
    /\ asked' = FALSE
    /\ Abort
    /\ faulted' = TRUE
    /\ \E lost \in SUBSET ({g} \cap LastingRequests) : stray' = stray \cup lost
    /\ UNCHANGED <<runnerVars, cancelled, bornCancelled, engineVars>>

Starts(c) == /\ box' = [box EXCEPT ![c] = "running"]
             /\ missed' = IF g \in {"stopping", "send", "finished", "killed"}
                          THEN missed \cup {c} ELSE missed
             /\ UNCHANGED <<network, exitCode>>

-----------------------------------------------------------------------------
(* runTestGoroutine and runControllerContainer, in program order *)

\* networkExists filters by ID with what is a name, so it finds nothing.
CheckNetworkName ==
    UnboundCall("checkName",
        Advance("createNetwork") /\ UNCHANGED <<netKnown, ctlLog, engineVars>>)

\* Mutation variants: the removal is not deferred until a later call has succeeded;
\* NetworkCreate is called with context.Background().
CreateNetworkDeferLater ==
    BoundCall("createNetwork",
        /\ Advance("controllerIp")
        /\ network' = "exists"
        /\ UNCHANGED <<netKnown, ctlLog, box, exitCode, missed>>)

CreateNetworkUnbound ==
    UnboundCall("createNetwork",
        /\ Advance("controllerIp")
        /\ network' = "exists"
        /\ netKnown' = TRUE
        /\ UNCHANGED <<ctlLog, box, exitCode, missed>>)

CreateNetwork ==
    BoundCall("createNetwork",
        /\ Advance("controllerIp")
        /\ network' = "exists"
        /\ netKnown' = TRUE
        /\ UNCHANGED <<ctlLog, box, exitCode, missed>>)

\* The second address of the test's subnet; a subnet may have only one.
GetControllerIp ==
    /\ g = "controllerIp"
    /\ \/ Advance("createVolume") /\ UNCHANGED <<netKnown, ctlLog>>
       \/ Abort
    /\ UNCHANGED <<runnerVars, cancelled, bornCancelled, asked, engineVars, stray,
                   faulted>>

CreateVolume ==
    BoundCall("createVolume",
        Advance("tempfile") /\ UNCHANGED <<netKnown, ctlLog, engineVars>>)

CreateLogTempfile ==
    UnboundCall("tempfile",
        Advance("env") /\ ctlLog' = "exists" /\ UNCHANGED <<netKnown, engineVars>>)

\* A custom environment variable of the user may clash with a standard one.
GenerateEnvVariables ==
    /\ g = "env"
    /\ \/ Advance("listImages") /\ UNCHANGED <<netKnown, ctlLog>>
       \/ Abort
    /\ UNCHANGED <<runnerVars, cancelled, bornCancelled, asked, engineVars, stray,
                   faulted>>

ListImages ==
    UnboundCall("listImages",
        /\ \E next \in {"pull", "checkNetwork"} : Advance(next)
        /\ UNCHANGED <<netKnown, ctlLog, engineVars>>)

\* A pull that breaks off half-way still counts as done: the error of io.Copy is
\* ignored.
PullImage ==
    BoundCall("pull",
        Advance("checkNetwork") /\ UNCHANGED <<netKnown, ctlLog, engineVars>>)

CheckNetworkId ==
    UnboundCall("checkNetwork",
        /\ IF network = "exists" THEN Advance("createContainer") ELSE Abort
        /\ UNCHANGED <<netKnown, ctlLog, engineVars>>)

CreateContainer ==
    BoundCall("createContainer",
        /\ Advance("connect")
        /\ box' = [box EXCEPT ![Controller] = "created"]
        /\ UNCHANGED <<netKnown, ctlLog, network, exitCode, missed>>)

ConnectToNetwork ==
    UnboundCall("connect",
        Advance("startContainer") /\ UNCHANGED <<netKnown, ctlLog, engineVars>>)

StartContainer ==
    BoundCall("startContainer",
        Advance("waitExit") /\ Starts(Controller) /\ UNCHANGED <<netKnown, ctlLog>>)

\* Mutation variant: the wait is not bound to the context.
WaitForExitUnbound ==
    UnboundCall("waitExit",
        /\ box[Controller] = "stopped"
        /\ g' = "readLog"
        /\ gResult' = IF exitCode = 0 THEN Passed ELSE Failed
        /\ UNCHANGED <<toStop, removal, netKnown, ctlLog, engineVars>>)

WaitForExit ==
    BoundCall("waitExit",
        /\ box[Controller] = "stopped"
        /\ g' = "readLog"
        /\ gResult' = IF exitCode = 0 THEN Passed ELSE Failed
        /\ UNCHANGED <<toStop, removal, netKnown, ctlLog, engineVars>>)

\* Mutation variants: the tempfile is left open; it is left behind.
ReadControllerLogUnclosed ==
    UnboundCall("readLog",
        Advance("inspect") /\ ctlLog' = "open" /\ UNCHANGED <<netKnown, engineVars>>)

ReadControllerLogOnly ==
    UnboundCall("readLog",
        Advance("inspect") /\ UNCHANGED <<ctlLog, netKnown, engineVars>>)

\* Copies the controller's log and removes the tempfile.
ReadControllerLog ==
    UnboundCall("readLog",
        Advance("inspect") /\ ctlLog' = "removed" /\ UNCHANGED <<netKnown, engineVars>>)

-----------------------------------------------------------------------------
(* RemoveNetwork, deferred.  Its error is only logged. *)

Removing(next, outcome) ==
    /\ g' = next
    /\ removal' = outcome
    /\ UNCHANGED <<runnerVars, cancelled, bornCancelled, gResult, asked,
                   netKnown, ctlLog, stray>>

\* Mutation variant: the controller is taken to have exited already.
InspectServicesOnly ==
    /\ g = "inspect"
    /\ toStop' = Running \ {Controller}
    /\ missed' = {}
    /\ Removing("stopping", removal)
    /\ UNCHANGED <<network, box, exitCode, faulted>>

\* Lists the containers that are running in the network now.
InspectNetwork ==
    /\ g = "inspect"
    /\ toStop' = Running
    /\ missed' = {}
    /\ Removing("stopping", removal)
    /\ UNCHANGED <<network, box, exitCode, faulted>>

\* One that has ended since the list was read keeps its exit code.
StopContainer ==
    /\ g = "stopping"
    /\ \E c \in toStop :
          /\ toStop' = toStop \ {c}
          /\ box' = [box EXCEPT ![c] = "stopped"]
          /\ exitCode' = IF c = Controller /\ box[c] = "running" THEN 1 ELSE exitCode
    /\ Removing("stopping", removal)
    /\ UNCHANGED <<network, missed, faulted>>

\* The engine refuses to remove a network with a running container.
RemoveNetwork ==
    /\ g = "stopping" /\ toStop = {}
    /\ IF Running = {}
       THEN network' = "removed" /\ Removing("send", "removed")
       ELSE UNCHANGED network /\ Removing("send", "failed")
    /\ UNCHANGED <<toStop, box, exitCode, missed, faulted>>

RemovalFails ==
    /\ g \in {"inspect", "stopping"}
    /\ Removing("send", "failed")
    /\ faulted' = TRUE
    /\ UNCHANGED <<toStop, network, box, exitCode, missed>>

Goroutine ==
    \/ CheckNetworkName \/ CreateNetwork \/ GetControllerIp \/ CreateVolume
    \/ CreateLogTempfile \/ GenerateEnvVariables \/ ListImages \/ PullImage \/ CheckNetworkId
    \/ CreateContainer \/ ConnectToNetwork \/ StartContainer \/ WaitForExit
    \/ ReadControllerLog \/ InspectNetwork \/ StopContainer \/ RemoveNetwork

-----------------------------------------------------------------------------
(* Outside the goroutine: the engine, the controller, the rest of the suite *)

outside == <<runnerVars, bornCancelled, gResult, asked, netKnown, toStop,
             removal, ctlLog>>

\* A request whose client went away may still be carried out.
LandStray ==
    /\ \E op \in stray :
          /\ stray' = stray \ {op}
          /\ CASE op = "createNetwork" ->
                     network' = "exists" /\ UNCHANGED <<box, exitCode, missed>>
               [] op = "createContainer" ->
                     /\ box' = [box EXCEPT ![Controller] = "created"]
                     /\ UNCHANGED <<network, exitCode, missed>>
               [] op = "startContainer" /\ network = "exists" -> Starts(Controller)
               [] OTHER -> UNCHANGED engineVars
    /\ UNCHANGED <<outside, g, cancelled, faulted>>

\* The controller does what ControllerContract allows.  A start or a stop that was
\* requested is carried out even if the controller is gone by then.
RequestService(s) ==
    /\ box[Controller] = "running" /\ box[s] = "none"
    /\ box' = [box EXCEPT ![s] = "requested"]
    /\ UNCHANGED <<outside, g, cancelled, network, exitCode, missed, stray, faulted>>

LandService(s) ==
    /\ box[s] = "requested"
    /\ IF network = "exists"
       THEN Starts(s)
       ELSE box' = [box EXCEPT ![s] = "stopped"] /\ UNCHANGED <<network, exitCode, missed>>
    /\ UNCHANGED <<outside, g, cancelled, stray, faulted>>

StopService(s) ==
    /\ box[s] = "running"
    /\ box' = [box EXCEPT ![s] = "stopped"]
    /\ UNCHANGED <<outside, g, cancelled, network, exitCode, missed, stray, faulted>>

\* A controller that exits with 0 has nothing running or starting unless a call of
\* its own has failed.
ControllerExit(code) ==
    /\ box[Controller] = "running"
    /\ LET left == \E s \in Services : box[s] \in {"requested", "running"}
       IN  faulted' = (faulted \/ (code = 0 /\ left))
    /\ box' = [box EXCEPT ![Controller] = "stopped"]
    /\ exitCode' = code
    /\ UNCHANGED <<outside, g, cancelled, network, missed, stray>>

\* An exit signal reaches the suite, or the process ends after the last test.
CancelSuite ==
    /\ Interruptible /\ ~cancelled
    /\ cancelled' = TRUE
    /\ UNCHANGED <<outside, g, engineVars, stray, faulted>>

ProcessEnds ==
    /\ runner = "returned"
    /\ g \notin {"finished", "killed"}
    /\ g' = "killed"
    /\ UNCHANGED <<outside, cancelled, engineVars, stray, faulted>>

Outside ==
    \/ LandStray \/ CancelSuite \/ ProcessEnds
    \/ \E s \in Services : RequestService(s) \/ LandService(s) \/ StopService(s)
    \/ \E code \in {0, 1} : ControllerExit(code)

\* runTest has returned; what is left outside may stay as it is.
Returned == runner = "returned" /\ UNCHANGED vars

Faults == CallFails \/ RemovalFails

Next == Runner \/ Goroutine \/ Faults \/ Outside \/ Returned

Spec == Init /\ [][Next]_vars

\* Timers fire and a ready select proceeds.  The scheduler runs the goroutine and
\* the engine answers it.  Nothing is assumed of failures, of the controller, of
\* abandoned requests or of signals: they may never come.
RunnerFairness == WF_vars(Runner)
GoroutineFairness == WF_vars(Goroutine)

-----------------------------------------------------------------------------
(* Properties *)

GoroutinePcs ==
    {"checkName", "createNetwork", "controllerIp", "createVolume", "tempfile",
     "env", "listImages", "pull", "checkNetwork", "createContainer", "connect",
     "startContainer", "waitExit", "readLog", "inspect", "stopping", "send",
     "finished", "killed"}

\* The types of the variables.
TypeOK ==
    /\ runner \in {"waiting", "grace", "returned"}
    /\ result \in Outcome /\ gResult \in Outcome
    /\ {overdue, cancelled, bornCancelled, asked, netKnown, faulted} \subseteq BOOLEAN
    /\ g \in GoroutinePcs
    /\ toStop \subseteq Containers /\ missed \subseteq Containers
    /\ removal \in {"none", "removed", "failed"}
    /\ ctlLog \in {"none", "exists", "removed"}
    /\ network \in {"none", "exists", "removed"}
    /\ box \in [Containers -> {"none", "created", "requested", "running", "stopped"}]
    /\ exitCode \in {0, 1}
    /\ stray \subseteq LastingRequests

\* runTest keeps the contract the workers of the parallelizer rely on: called
\* with a cancelled context it returns an error, never a verdict.
ReturnsAllowedOutcome ==
    runner = "returned" => result \in RunTestOutcomes(bornCancelled)

\* A test is reported passed only if the hard timeout had not fired when its result was
\* taken: a pass that arrives in the grace period is not reported.  Its controller ran to
\* the end by itself with exit code 0, and the removal of its network was attempted.
\* The suite may have been cancelled meanwhile, and the removal may have failed.
PassedMeansControllerSucceeded ==
    runner = "returned" /\ result = Passed =>
        /\ ~overdue
        /\ box[Controller] = "stopped" /\ exitCode = 0
        /\ removal # "none"

\* Unless a call failed, a passed test leaves no network, no running or starting
\* container, no request in the air and no tempfile.
PassedTestLeavesNothing ==
    ~faulted /\ runner = "returned" /\ result = Passed =>
        /\ network = "removed"
        /\ \A c \in Containers : box[c] \notin {"requested", "running"}
        /\ stray = {}
        /\ ctlLog = "removed"

\* Whichever call fails, a goroutine that got a network ID does not end without
\* having attempted the removal, and it attempts none that it has no ID for.
RemovalAttemptedIffNetworkKnown ==
    g \in {"send", "finished"} => (netKnown <=> removal # "none")

\* A suite cancelled before the test was reached creates nothing in Docker.
CancelledTestTouchesNothing ==
    bornCancelled => network = "none" /\ (\A c \in Containers : box[c] = "none")

\* A network that nobody has the ID of is one whose creation was abandoned by a
\* cancellation or whose answer was lost: there is no other way to leak one.
NetworkKnownUnlessAbandoned ==
    network = "exists" /\ ~netKnown => cancelled \/ faulted

-----------------------------------------------------------------------------
(* The inductive invariant *)

BeforeNetwork == {"checkName", "createNetwork"}
BeforeVerdict == {"controllerIp", "createVolume", "tempfile", "env", "listImages", "pull",
                  "checkNetwork", "createContainer", "connect", "startContainer", "waitExit"}
Cleanup       == {"inspect", "stopping"}
Ended         == {"send", "finished", "killed"}

\* How far the goroutine is, what it knows and what it has asked for.
GoroutineFits ==
    /\ g \in BeforeNetwork => ~netKnown
    /\ g \in BeforeVerdict \cup Cleanup \cup {"readLog"} => netKnown
    /\ g \in BeforeNetwork \cup BeforeVerdict => gResult = Errored /\ stray = {}
    /\ g \notin Cleanup \cup Ended => toStop = {}
    /\ removal # "none" => g \in Ended

RunnerFits ==
    /\ gResult \in {Passed, Failed, Errored}
    /\ runner # "waiting" => cancelled
    /\ runner = "waiting" => ~overdue
    /\ runner = "grace" => overdue
    /\ result # Errored =>
          runner = "returned" /\ ~overdue /\ g = "finished" /\ result = gResult

\* Requests are abandoned or lost on the way to an error only.
StraysFit == stray # {} => (cancelled \/ faulted) /\ gResult = Errored

\* A verdict is that of a controller which is over, and stays so.
VerdictFits ==
    gResult # Errored =>
        /\ netKnown /\ g \in {"readLog"} \cup Cleanup \cup Ended
        /\ box[Controller] = "stopped" /\ (gResult = Passed => exitCode = 0)
        /\ Controller \notin toStop
        /\ g \in Cleanup \cup {"send", "finished"} => ctlLog = "removed"
        /\ gResult = Passed /\ ~faulted /\ g \in {"send", "finished"} => network = "removed"

SuccessIsQuiet ==
    box[Controller] = "stopped" /\ exitCode = 0 /\ ~faulted =>
        \A s \in Services : box[s] \notin {"requested", "running"}

BornCancelledFits ==
    bornCancelled =>
        /\ cancelled /\ ~asked /\ ~netKnown /\ stray = {} /\ gResult = Errored
        /\ g \in BeforeNetwork \cup Ended

EveryRunningIsListed == g = "stopping" => Running \subseteq toStop \cup missed

\* The controller's container is created once and started once, late requests included.
BeforeContainer == BeforeNetwork \cup (BeforeVerdict \ {"connect", "startContainer", "waitExit"})
StartedOnce ==
    /\ g \in BeforeContainer \/ "createContainer" \in stray => box[Controller] = "none"
    /\ g \in {"connect", "startContainer"} \/ "startContainer" \in stray =>
          box[Controller] = "created"

\* RemoveNetwork stops only what has been started.
ListedWasStarted == \A c \in toStop : box[c] \in {"running", "stopped"}

InductiveInvariant ==
    /\ TypeOK
    /\ GoroutineFits /\ RunnerFits /\ StraysFit /\ VerdictFits /\ SuccessIsQuiet
    /\ BornCancelledFits /\ EveryRunningIsListed
    /\ RemovalAttemptedIffNetworkKnown /\ CancelledTestTouchesNothing
    /\ NetworkKnownUnlessAbandoned
    /\ StartedOnce /\ ListedWasStarted

-----------------------------------------------------------------------------
\* After the hard timeout the goroutine sends no further request that is bound
\* to the test's context; what it still does is bound to the background one.
NothingNewAfterTimeout == [][runner # "waiting" => (asked' => asked)]_vars

\* The engine, when it does not fail, refuses to remove the network only because
\* of a container that started after RemoveNetwork listed those to stop.
RefusedOnlyForMissedContainer ==
    [][removal' = "failed" /\ removal = "none" => faulted' \/ missed \cap Running # {}]_vars

\* runTest returns even if the test goroutine, the engine and the controller
\* hang for ever: only the timers and the runner's select are assumed.
RunTestReturns == RunnerFairness => <>(runner = "returned")

\* A goroutine that got a network ID gets round to removing the network, even
\* if the controller never exits, unless the process ends first.
KnownNetworkIsRemoved ==
    RunnerFairness /\ GoroutineFairness =>
        (netKnown ~> (removal # "none" \/ g = "killed"))

\* README: "If Kurtosis is allowed to finish normally, the Docker network will
\* be deleted and the containers stopped".  Stated of a test goroutine that went
\* through its whole cleanup without a failed call.
FinishedTestIsCleanedUp ==
    g = "finished" /\ netKnown /\ ~faulted => network = "removed" /\ Running = {}

\* "We're responsible for removing the tempfile we created", a comment of
\* runControllerContainer.
FinishedTestLeavesNoTempfile == g = "finished" => ctlLog # "exists"
=============================================================================
