---------------------------- MODULE TestController ----------------------------
(***************************************************************************)
(* The controller of one test: RunTest on the main goroutine, the goroutine *)
(* that runs the test, the waiting for services to come up, and the user's *)
(* code, which may use the network whenever it is given the chance.        *)
(*                                                                         *)
(* Time is abstracted: a timer may fire whenever it is running.            *)
(***************************************************************************)
EXTENDS ServiceNetwork

VARIABLES
    mainPc,
    outcome,         \* what RunTest is about to return
    awaiting,        \* services whose availability checker has not answered yet
    polling,         \* the one WaitForStartup is called for
    probing,         \* it is inside the user's IsServiceUp
    expired,         \* its deadline has passed
    testPc,
    panic,           \* what the user's test panicked with
    timedOut,
    crashed          \* the process died: no deferred call was run

waitVars == <<awaiting, polling, probing, expired>>
testVars == <<testPc, panic>>
vars == <<networkVars, mainPc, outcome, waitVars, testVars, timedOut, crashed>>

Init ==
    /\ NewNetwork
    /\ mainPc = "setup" /\ outcome = "none"
    /\ awaiting = {} /\ polling = NoService /\ probing = FALSE /\ expired = FALSE
    /\ testPc = "unborn" /\ panic = "none"
    /\ timedOut = FALSE /\ crashed = FALSE

Alive == mainPc # "exited"

\* The user's main turns both errors of RunTest into a non-zero exit code.
ExitZero == mainPc = "exited" /\ outcome = "passed" /\ ~crashed

-----------------------------------------------------------------------------
(* RunTest up to the network; from then on a deferred call removes it *)

\* Unknown test, no network loader, no Docker client, no tracker.
SetupFails ==
    /\ mainPc = "setup"
    /\ mainPc' = "exited" /\ outcome' = "setupErr"
    /\ UNCHANGED <<networkVars, waitVars, testVars, timedOut, crashed>>

MakeBuilder ==
    /\ mainPc = "setup"
    /\ mainPc' = "configure"
    /\ UNCHANGED <<networkVars, outcome, waitVars, testVars, timedOut, crashed>>

\* ConfigureNetwork returns an error or panics.
ConfigureFails ==
    /\ mainPc = "configure"
    /\ mainPc' = "exited" /\ outcome' = "setupErr"
    /\ UNCHANGED <<networkVars, waitVars, testVars, timedOut, crashed>>

BuildNetwork ==
    /\ mainPc = "configure"
    /\ Build
    /\ mainPc' = "initialize"
    /\ UNCHANGED <<outcome, waitVars, testVars, timedOut, crashed>>

\* Any return from here on; the deferred RemoveAll begins.
Return(result) ==
    /\ mainPc' = "removeAll"
    /\ outcome' = result
    /\ BeginRemoveAll
    /\ UNCHANGED crashed

-----------------------------------------------------------------------------
(* InitializeNetwork and WaitForStartup *)

\* The user gives back some of the checkers that AddService returned, for services that may
\* have been removed since.
InitializeReturns(checkers) ==
    /\ mainPc = "initialize" /\ frame["main"] = Idle
    /\ mainPc' = "await"
    /\ awaiting' = checkers
    /\ UNCHANGED <<networkVars, outcome, polling, probing, expired, testVars,
                   timedOut, crashed>>

\* An error, or a panic of the user's code: the deferred call is run as well.
InitializeFails ==
    /\ mainPc = "initialize" /\ frame["main"] = Idle
    /\ Return("setupErr")
    /\ UNCHANGED <<waitVars, testVars, timedOut>>

Waiting(s) ==
    /\ polling' = s
    /\ probing' = FALSE
    /\ expired' = FALSE

WaitForStartup(s) ==
    /\ mainPc = "await" /\ polling = NoService /\ s \in awaiting
    /\ Waiting(s)
    /\ UNCHANGED <<networkVars, mainPc, outcome, awaiting, testVars, timedOut, crashed>>

\* Mutation variant: the deadline is not looked at.
PollForever ==
    /\ mainPc = "await" /\ polling # NoService /\ ~probing
    /\ probing' = TRUE
    /\ UNCHANGED <<networkVars, mainPc, outcome, awaiting, polling, expired, testVars,
                   timedOut, crashed>>

\* The deadline is looked at between two calls of IsServiceUp only.
Poll ==
    /\ mainPc = "await" /\ polling # NoService /\ ~probing /\ ~expired
    /\ probing' = TRUE
    /\ UNCHANGED <<networkVars, mainPc, outcome, awaiting, polling, expired, testVars,
                   timedOut, crashed>>

\* A service found up after the deadline counts.
ProbeReturns(up) ==
    /\ mainPc = "await" /\ probing
    /\ IF up THEN awaiting' = awaiting \ {polling} /\ Waiting(NoService)
             ELSE probing' = FALSE /\ UNCHANGED <<awaiting, polling, expired>>
    /\ UNCHANGED <<networkVars, mainPc, outcome, testVars, timedOut, crashed>>

\* IsServiceUp panics: the deferred call is run as well.
ProbePanics ==
    /\ mainPc = "await" /\ probing
    /\ Return("setupErr")
    /\ Waiting(NoService)
    /\ UNCHANGED <<awaiting, testVars, timedOut>>

StartupDeadline ==
    /\ mainPc = "await" /\ polling # NoService /\ ~expired
    /\ expired' = TRUE
    /\ UNCHANGED <<networkVars, mainPc, outcome, awaiting, polling, probing, testVars,
                   timedOut, crashed>>

GiveUp ==
    /\ mainPc = "await" /\ polling # NoService /\ expired /\ ~probing
    /\ Return("setupErr")
    /\ Waiting(NoService)
    /\ UNCHANGED <<awaiting, testVars, timedOut>>

\* WrapNetwork is user code.
WrapFails ==
    /\ mainPc = "await" /\ awaiting = {}
    /\ Return("setupErr")
    /\ UNCHANGED <<waitVars, testVars, timedOut>>

\* Mutation variant: the test begins with the first service that is up.
StartTestEarly ==
    /\ mainPc = "await" /\ polling = NoService
    /\ mainPc' = "run"
    /\ testPc' = "running"
    /\ UNCHANGED <<networkVars, outcome, waitVars, panic, timedOut, crashed>>

StartTest ==
    /\ mainPc = "await" /\ awaiting = {}
    /\ mainPc' = "run"
    /\ testPc' = "running"
    /\ UNCHANGED <<networkVars, outcome, waitVars, panic, timedOut, crashed>>

-----------------------------------------------------------------------------
(* runTest, on the goroutine of the test *)

\* Mutation variant: the recovered value is assigned to a variable of the closure.
RecoveredShadowed(value) == FALSE

\* Whether the deferred function makes an error of what the test panicked with.
\* Fatal(nil) and a failed AssertTrue(..., nil) panic with nil, and recover() gives
\* nil for that as it does for no panic.
Recovered(value) == value = "error"

\* A panic leaves the network call it happens in: see AddServiceFails.
TestEnds(value) ==
    /\ Alive
    /\ testPc = "running" /\ frame["test"] = Idle
    /\ testPc' = "send"
    /\ panic' = value
    /\ UNCHANGED <<networkVars, mainPc, outcome, waitVars, timedOut, crashed>>

Crash ==
    /\ mainPc' = "exited"
    /\ crashed' = TRUE
    /\ UNCHANGED <<networkVars, outcome, waitVars, testVars, timedOut>>

\* The type assertion on the recovered value fails, in a deferred function, and
\* nothing recovers that.
PanicWithNonError ==
    /\ Alive /\ testPc = "running"
    /\ Crash

-----------------------------------------------------------------------------
(* RunTest: the select with the timeout, and the end *)

ReceiveResult ==
    /\ mainPc = "run" /\ testPc = "send"
    /\ testPc' = "done"
    /\ Return(IF Recovered(panic) THEN "testErr" ELSE "passed")
    /\ UNCHANGED <<waitVars, panic, timedOut>>

\* Mutation variants: the result is waited for all the same; the error of the timeout
\* is not returned.
TimeoutAwaitsResult ==
    /\ mainPc = "run" /\ testPc = "send"
    /\ timedOut' = TRUE
    /\ Return("testErr")
    /\ UNCHANGED <<waitVars, testVars>>

TimeoutWithoutError ==
    /\ mainPc = "run"
    /\ timedOut' = TRUE
    /\ Return("passed")
    /\ UNCHANGED <<waitVars, testVars>>

\* The test goroutine is not stopped: nothing tells it.
Timeout ==
    /\ mainPc = "run"
    /\ timedOut' = TRUE
    /\ Return("testErr")
    /\ UNCHANGED <<waitVars, testVars>>

\* RemoveAll always returns nil.
Exit ==
    /\ mainPc = "removeAll" /\ RemoveAllDone
    /\ mainPc' = "exited"
    /\ UNCHANGED <<networkVars, outcome, waitVars, testVars, timedOut, crashed>>

\* The runtime notices two goroutines in the map, one of them writing.
ConcurrentMapAccess ==
    /\ mainPc = "removeAll" /\ frame["main"].call \in {"none", "deleting"}
    /\ testPc = "running" /\ frame["test"].call \in {"none", "starting", "deleting"}
    /\ Crash

\* The initializer stops the container after its hard timeout.
Killed == Alive /\ Crash

-----------------------------------------------------------------------------
(* Uses of the network, by InitializeNetwork, the test, and RemoveAll *)

InUserCode(th) ==
    \/ th = "main" /\ mainPc = "initialize"
    \/ th = "test" /\ testPc = "running" /\ Alive

controllerVars == <<mainPc, outcome, waitVars, testVars, timedOut, crashed>>

UserCalls(th) ==
    /\ InUserCode(th)
    /\ \E s \in ServiceIDs :
          \/ \E configuration \in Configurations, dependencies \in SUBSET ServiceIDs :
                AddService(th, s, configuration, dependencies)
          \/ RemoveService(th, s)
    /\ UNCHANGED controllerVars

\* The user may hold on to the builder.
UserConfigures ==
    /\ mainPc = "configure" \/ \E th \in Threads : InUserCode(th)
    /\ \E c \in Configurations : AddConfiguration(c)
    /\ UNCHANGED controllerVars

CallGoesOn(th) ==
    /\ Alive
    /\ \/ CreateContainer(th) \/ RequestStart(th) \/ ServiceStarted(th)
       \/ DeleteNode(th) \/ ServiceStopped(th)
    /\ UNCHANGED controllerVars

CallFails(th) ==
    /\ Alive
    /\ AddServiceFails(th) \/ StopFails(th)
    /\ UNCHANGED controllerVars

RemoveNext ==
    /\ mainPc = "removeAll"
    /\ RemoveAllNext
    /\ UNCHANGED controllerVars

Engine ==
    /\ \E c \in Ips : LandStart(c) \/ StartIsRefused(c) \/ ServiceEnds(c)
    /\ UNCHANGED controllerVars

-----------------------------------------------------------------------------
Setup == SetupFails \/ MakeBuilder \/ ConfigureFails \/ BuildNetwork

Initialize == InitializeFails \/ \E checkers \in SUBSET ServiceIDs : InitializeReturns(checkers)

Wait == Poll \/ GiveUp \/ \E s \in ServiceIDs : WaitForStartup(s)

Probe == ProbePanics \/ \E up \in BOOLEAN : ProbeReturns(up)

Main == \/ Wait \/ WrapFails \/ StartTest \/ ReceiveResult \/ Timeout
        \/ RemoveNext \/ CallGoesOn("main") \/ Exit

Test == PanicWithNonError \/ \E value \in {"none", "nil", "error"} : TestEnds(value)

Died == ConcurrentMapAccess \/ Killed

Finished == ~Alive /\ UNCHANGED vars

Next ==
    \/ Setup \/ Initialize \/ Main \/ Probe \/ StartupDeadline \/ Test \/ Died
    \/ UserConfigures \/ Engine \/ Finished
    \/ CallGoesOn("test")
    \/ \E th \in Threads : UserCalls(th) \/ CallFails(th)

Spec == Init /\ [][Next]_vars

\* Main is the main goroutine outside of user code: the scheduler runs it, the
\* timeout fires, the engine answers a start or a stop.  Nothing is assumed of the user's
\* code, except by StartupWaitEnds that IsServiceUp returns.
MainFairness == WF_vars(Main)

StartupFairness == WF_vars(Wait \/ WrapFails \/ StartTest) /\ WF_vars(Probe)
                     /\ WF_vars(StartupDeadline)

-----------------------------------------------------------------------------
(* Properties *)

\* The types of the variables.
TypeOK ==
    /\ NetworkTypeOK
    /\ mainPc \in {"setup", "configure", "initialize", "await", "run", "removeAll",
                   "exited"}
    /\ outcome \in {"none", "setupErr", "testErr", "passed"}
    /\ awaiting \subseteq ServiceIDs
    /\ polling \in ServiceIDs \cup {NoService}
    /\ {probing, expired, timedOut, crashed} \subseteq BOOLEAN
    /\ testPc \in {"unborn", "running", "send", "done"}
    /\ panic \in {"none", "nil", "error"}

\* What GetService returns is true: a registered node has a container of its own
\* that was started, and no two share one.
NodesDescribeContainers ==
    \A s \in Registered :
        /\ box[serviceNodes[s]] \in {"running", "stopped"}
        /\ \A other \in Registered \ {s} : serviceNodes[other] # serviceNodes[s]
        /\ \A th \in Threads : frame[th].ip = serviceNodes[s] => frame[th].call = "deleting"

\* Until the test's timeout, whoever adds and removes services, somebody can still stop
\* every container that is up: its node is registered, or the call it is in is under way.
\* Lost are only those of calls that failed: an AddService that gave up after the start was
\* requested (an error, a panic of the user's GetServiceFromIp), a stop that failed.
EveryContainerIsOwned ==
    Alive /\ ~timedOut =>
        \A c \in Up \ forgotten : \/ \E s \in Registered : serviceNodes[s] = c
                                  \/ \E th \in Threads : frame[th].ip = c

\* On every return of RunTest but that of the timeout, the controller exits only when each
\* service container is down or is one of those lost by a failed call of its own.
TornDownUnlessTimedOut ==
    ~Alive /\ ~crashed /\ ~timedOut => Up \subseteq forgotten

\* Exit code 0 means that every awaited service came up, and the test ended in
\* time without an error.  A panic with nil is not counted as one: see Recovered.
PassMeansTestSucceeded ==
    ExitZero => awaiting = {} /\ testPc = "done" /\ ~timedOut /\ panic # "error"

-----------------------------------------------------------------------------
(* The inductive invariant.  Before the timeout the goroutines take turns. *)

TakeTurns ==
    /\ mainPc \in {"setup", "configure"} => handedOut = 0
    /\ mainPc \in {"setup", "configure", "initialize", "await"} => testPc = "unborn"
    /\ mainPc = "run" => testPc \in {"running", "send"}
    /\ mainPc = "removeAll" /\ ~timedOut => testPc \in {"unborn", "done"}
    /\ timedOut => mainPc \in {"removeAll", "exited"}
    /\ frame["test"].call # "none" => testPc = "running"
    /\ frame["main"].call # "none" => mainPc \in {"initialize", "removeAll", "exited"}
    /\ mainPc = "removeAll" => frame["main"].call \in {"none"} \cup Removing

\* What a call has looked up in the map stays as it was.
LookedUpHolds ==
    Alive /\ ~timedOut =>
        \A th \in Threads :
            /\ frame[th].call \in Adding =>
                  /\ frame[th].service \notin Registered
                  /\ frame[th].dependencies \subseteq Registered
            /\ frame[th].call = "deleting" => serviceNodes[frame[th].service] = frame[th].ip

RemovesThemAll == mainPc = "removeAll" /\ ~timedOut => toRemove = Registered

OutcomeFits ==
    /\ outcome # "none" => mainPc \in {"removeAll", "exited"}
    /\ testPc # "unborn" => awaiting = {}
    /\ outcome = "passed" => testPc = "done" /\ ~timedOut /\ panic # "error"

InductiveInvariant ==
    /\ TypeOK /\ NetworkInvariant
    /\ TakeTurns /\ LookedUpHolds /\ RemovesThemAll /\ OutcomeFits
    /\ EveryContainerIsOwned /\ TornDownUnlessTimedOut

-----------------------------------------------------------------------------
\* Until the timeout a service is started only while all of its dependencies are
\* in the network, with every file and argument made from them.
StartsWithDependencies ==
    [][\A th \in Threads :
          frame[th].call = "start" /\ frame'[th].call = "starting" /\ ~timedOut
             => frame[th].dependencies \subseteq Registered]_vars

\* Once the test has begun the controller ends, whatever the test does: it may hang or go
\* on with the network.
ControllerExits == MainFairness => (mainPc = "run" ~> ~Alive)

\* The waiting for services ends although none of them ever comes up, if the
\* user's IsServiceUp returns at all.
StartupWaitEnds == StartupFairness => (mainPc = "await" ~> mainPc # "await")

\* What the initializer sees of this controller is what its model allows.
Contract == INSTANCE ControllerContract WITH
    Services <- Ips,
    alive <- Alive,
    succeeded <- ExitZero,
    service <- [c \in Ips |-> IF box[c] = "created" THEN "none" ELSE box[c]],
    faulted <- forgotten # {}

\* The controller implements the contract.
ImplementsContract == Contract!Spec

\* src/README.md: "After the test finishes, the controller tears down the network of services".
\* Of the services no call of the controller has failed about.
TornDown == ~Alive /\ ~crashed => Up \subseteq forgotten

\* src/commons/testsuite/test_context.go: "Fails the test with the given error".  A panic
\* with nil is that of Fatal(nil), AssertTrue(false, nil): the test was stopped by it.
FatalFailsTheTest == panic = "nil" => ~ExitZero
=============================================================================
