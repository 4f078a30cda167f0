# A formal model of the Kurtosis test-suite runner

Kurtosis runs the tests of a suite in parallel. Every test gets a Docker network
of its own, in which a *controller* container starts service containers, runs
the test and exits with its verdict. This directory holds TLA+ modules of that
program, the TLC configurations that check them on small instances, and proofs
that TLAPS checks. Paths below are relative to the repository root (`src/` is
where the repository's files are mapped from).

To repeat a check: `tlc -config executor_safety.cfg MCTestExecutor`. To repeat a
proof: `tlapm TestExecutorParallelizerProofs.tla`.

## 1. The system

Two processes and the engine between them:

    initializer process                             controller container (one per test)
      TestSuiteRunner.RunTests                        TestController.RunTest
        buildTestParams: subnets                        ServiceNetworkBuilder, ServiceNetwork
        TestExecutorParallelizer                        ServiceInitializer, AvailabilityChecker
          main, N workers, signal goroutine             FreeIpAddrTracker (second one)
          ParallelTestOutputManager                     the user's Test
          runTest (per test) + its goroutine                 |
             FreeIpAddrTracker (first one)                   |
                    \                                        /
                     DockerManager  --> Docker engine <-- DockerManager

| component | state it keeps | operations | correct means |
|---|---|---|---|
| `TestSuiteRunner` (`initializer/test_suite_runner.go`) | none beyond one call | choose tests, cut one subnet per test, call the parallel executor | subnets of a suite do not overlap |
| `TestExecutorParallelizer` | work queue (buffered channel), WaitGroup, cancellable context, signal channel, defers of every worker | load the queue, start workers, wait, summarise, handle one exit signal | each test is run and recorded once; the verdict is given after them all; the call ends; interrupted suites do not pass |
| `ParallelTestOutputManager`, `ErroneousSystemLogCaptureWriter` | mutex, outcome per test, two loggers and where they write, captured lines | start and stop intercepting, log one test, print the summary, give the verdict | blocks of tests are not torn; system logs are held, then shown |
| `runTest` (`test_executor.go`) | select on a result channel and two timers; the test goroutine; the deferred network removal; a tempfile | the whole life of one test in Docker | always returns; a pass means a pass; what was created is removed |
| `DockerManager` | none; the engine has the state | create and remove networks, volumes, containers, wait for exit | each call does all of it or says so |
| `FreeIpAddrTracker` | the set of taken addresses, without a lock: it is used by one goroutine at a time | `GetFreeIpAddr` | addresses are free, and of the subnet |
| `ServiceNetwork`, its builder | maps: service -> node, configuration -> initializer and checker | add, remove, remove all | what was started can be stopped |
| `ServiceInitializer` | none beyond one call | make files, create the container | the service starts with its files |
| `AvailabilityChecker` | none beyond one call | poll until up or timed out | waits no longer than the timeout |
| `TestController` | the network, the test goroutine, a timeout | set up, run the test, clean up, verdict | a failing test is never reported as passed |
| `TestContext`, test, network and service interfaces | none | `failTest` panics; the rest is user code | |

### Where they meet

* Main goroutine and workers share the channel, the WaitGroup and the manager.
  The workers and the signal goroutine share the context.
* A worker and its test goroutine meet on an unbuffered result channel. The test
  goroutine and the runner share a context with a timeout of the runner's own.
* Initializer and controller share nothing but the engine, the environment
  variables of the controller container and its exit code. They hand out
  addresses of one subnet from two trackers.
* A test goroutine logs through the logger of its own test. The Docker client, and
  whatever else uses logrus' standard logger, writes through the system-wide one, which
  the manager has redirected.

### What is hard about it

Workers racing on the queue and the printer; signals at any time, twice, or after
the run; a hard timeout racing a late result; a goroutine that never comes back;
Docker calls that fail, are abandoned half-way, or whose answer is lost; services
that start while the network is being removed; two processes handing out the
addresses of one subnet; arithmetic on the ends of subnets. `PROJECT.json` lists
every such hazard at its line with the properties that cover it, and says why
where none does yet.

## 2. Modules

| module | models | kind |
|---|---|---|
| `TestOutcome` | result, error and printed status; the contract of `runTest` | operators |
| `ParallelTestOutputManager` | the manager and its capture writer, method by method | actions for a caller |
| `TestExecutorParallelizer` | `RunInParallelAndPrintResults`, the workers, the signal goroutine; extends the manager | state machine |
| `SuiteRun` | what a parallel run promises | abstract specification |
| `TestExecutor` | `runTest`, its goroutine, `runControllerContainer`, the Docker manager's calls, engine and controller around them | state machine |
| `ServiceNetwork` | builder, network, service initializer, their Docker calls, the service containers | actions for a caller |
| `TestController` | `RunTest` of the controller, `WaitForStartup`, the goroutine of the test, the user's code; extends the network | state machine |
| `ControllerContract` | what the initializer relies on of a controller | abstract specification |
| `TestRun` | `TestExecutor` and `TestController` of one test, on one engine | composition |
| `TestNetworkAddresses` | `buildTestParams`, both `FreeIpAddrTracker`s, who asks them for an address | state machine |
| `MCTestExecutorParallelizer`, `MCTestExecutor` | symmetry for instances | for TLC |
| `ServiceNetworkProofs` | what every step of the network and the engine keeps | lemmas |
| `TestExecutorParallelizerProofs`, `TerminalProofs`, `SuiteRunProofs`, `TestExecutorProofs`, `TestControllerProofs`, `TestRunProofs`, `TestNetworkAddressesProofs` | theorems | proofs |

`TestExecutorParallelizer` uses `runTest` as one action whose outcomes are
`RunTestOutcomes` of `TestOutcome`; `TestExecutor` checks exactly that contract
of the detailed function (`ReturnsAllowedOutcome`, `RunTestReturns`). This is
where the two compose. In the same way `TestExecutor` has a free controller that does
whatever `ControllerContract` allows, `TestController` is shown to implement that
contract, and `TestRun` puts the real controller in the free one's place. Operators commented "Mutation variant" are slips of the
code around them (a dropped guard, a missing `Done`): each property is checked to
fail when the definition named in `PROJECT.json` takes the variant's place.

### The parallel executor

`mainPc`, `workerPc[w]` and `handler` are the program counters. One action is one
stretch of code between two points where another goroutine can be noticed.

* The queue is a set: it is filled from a range over a Go map, in any order, and
  its buffer holds every test, so loading never blocks.
* A worker is `ReceiveTest`, `CreateTempfile`, `RunTest`, three steps of
  `LogTestOutput`, then the loop again; at its end its defers, the clean-up of
  files *in front of* `wg.Done()`, since `Done` was deferred first.
* `logTestOutput` is three steps (banner, copy, status) under one mutex.
  `stopInterceptingStdLogger` and `printSummary` say `Lock()` and, without a
  `defer`, `Unlock()` on the next line: `LockAndUnlock` and the body are separate steps.
* `lost` holds the tests whose goroutine outlived `runTest`; what it calls may still write through
  the system-wide logger.
* The deferred `close(sigs)` leaves the channel registered with `signal.Notify`;
  `DeliverSignal` sends to it, and a send to a closed channel panics.
* `sigsBuffered`: the channel has room for one signal, more are dropped.

Left out: the message the signal goroutine prints with `fmt.Printf`, past the
manager's mutex, so it may land inside a test's block (`OneWholeBlockPerTest`
speaks of the manager's own lines); what logrus prints on stderr when a lost goroutine
logs to the tempfile its worker has closed; the terminal both loggers start with is called "stdout"; stack
traces; texts.

### One test

`runner` is the `select` of `runTest`. `g` is the position of the test goroutine
and names the call it is at. Calls of the Docker client are of two kinds:

* *unbound* calls use `context.Background()` or no context;
* *bound* calls use the test's context. They are refused when it is cancelled;
  otherwise sent (`asked`) and then answered, failed or abandoned. An abandoned or
  failed request may be carried out later all the same: it goes to `stray`, from
  which `LandStray` takes it at any time, or never.

`network`, `box`, `exitCode` are the engine's state. `RequestService`,
`LandService`, `StopService`, `ControllerExit` are what the initializer can see of
a controller, the actions of `ControllerContract`: a service requested is started or
stopped even when the controller is gone, and a controller that exits with 0
has nothing running or under way unless a call of its own failed. `ProcessEnds` is the
exit of the initializer, possible once `runTest` has returned.
The hard timeout, the grace period and the controller's own timeout are not
measured: a timer may fire whenever it is running, which includes every real timing.
`overdue` is a history variable: it says that the hard timeout fired before a result was
taken, which the state after `runTest` has returned does not show any more.

Facts of the code that the model keeps: `networkExists` filters by ID and is given
a name by `CreateNetwork`, so that check finds nothing; `io.Copy` of an image pull
drops its error, so a broken pull is a pull; the removal's error is logged only; volumes
are never removed, on purpose. A goroutine declared lost waits for ever
on the unbuffered channel (`g = "send"`) until the process ends. When
`createNetwork` is abandoned, the engine may make a network whose ID nobody knows;
nobody removes it. `NetworkKnownUnlessAbandoned` says that nothing else leads there.
`FinishedTestIsCleanedUp` is stated of goroutines that know their
network, so this leak is *not* what `executor_leak` shows.

### The service network and the controller

`ServiceNetwork` has no goroutines of its own: its actions take the goroutine `th` that
is in the call, `"main"` or `"test"`, and `TestController` conjoins them with its
own state. A call of the network is a `frame`:

| code | actions |
|---|---|
| `AddService`: look-ups, address | `AddService` (frame `create`) |
| `CreateService` up to the container and its connection | `CreateContainer` (`start`) |
| `ContainerStart` sent; answered, node registered | `RequestStart` (`starting`), `ServiceStarted` |
| any error on the way | `AddServiceFails`: address and container are forgotten |
| `RemoveService`: look-up; `delete`; `StopContainer` | `RemoveService` (`deleting`), `DeleteNode` (`stopping`), `ServiceStopped` or `StopFails` |
| `RemoveAll`, a range over the map it deletes from | `BeginRemoveAll`, `RemoveAllNext`, `RemoveAllDone` |

Look-up and `delete` are two steps since the map has no lock: after the timeout the
other goroutine may come in between. `toRemove` is what Go owes the range loop: entries
present when it began and not deleted meanwhile; one added meanwhile may be
produced or not. A container is named by its address (`box`), which no other
container ever gets. `forgotten` is a history variable: the containers a failed call has
left without an owner. They are those of an `AddService` that gave up after the start was
requested (the start was answered with an error, or the user's `GetServiceFromIp`, which
is called once the container runs, panicked) and those whose stop failed. Such a container
may stay up; the properties about clean-up say that no other does, so a failed call costs its
own container only. A failure before
the start leaves a container that never runs.

`mainPc` follows `RunTest`: `setup`, `configure`, `initialize` (user code), `await`
(`WaitForStartup`), `run` (the `select`), `removeAll` (the deferred call), `exited`.
Every return goes through `Return`, except the ones before `Build`, when nothing is
deferred yet. `testPc` is the goroutine of the test: `running`, `send` (it has a
result and waits for the receiver, for ever if the timeout came first), `done`.
User code is `UserCalls`: any call of the network, in any order, with any result; it
may end, fail, panic or hang. A panic inside a callback of a network call
(`GetServiceFromIp`, say) is `AddServiceFails` and then the panic. A panic on the main
goroutine runs the deferred removal and ends with a non-zero code, as an error does
(`InitializeFails`, `ProbePanics`). `InitializeReturns` takes any map of checkers, for
services that were removed again or never added as well. A panic of the test becomes its error if it is an `error`
(`Recovered`), is not noticed if it is nil, and kills the process otherwise
(`PanicWithNonError`). `ConcurrentMapAccess` is the Go runtime ending a process that
uses the map from two goroutines, which can be only after the timeout. `Killed` is the
initializer stopping the container.

`WaitForStartup` looks at its deadline between two polls only: `Poll` needs it not expired,
`ProbeReturns` does not, so a service found up too late counts.

`TestRun` conjoins a step of either module, or one of both, with `OneEngine`: the
containers and the exit code that `TestExecutor` sees have to be those of the
controller. So `TestExecutor`'s `RequestService` can happen only with the controller's
`RequestStart`, its `StopContainer` of the controller only with `Killed`, and so on.
That this conjunction never holds either process back is proved in `TestRunProofs`.

### Addresses

An address is a number below `AddressSpace` (2^32 in the code), a subnet is
`networkSize` (2^width) numbers. `buildTestParams` numbers the tests in the order
of a range over a map (`index`, any injection) and adds in `uint32`, hence `%`. The
address in a subnet mask need not be the network's own (`SubnetStart` 12 with size
8): `NetworkOf` is what `ParseCIDR` makes of it. `Start`, `Finish`,
`Found` are the search loop of `GetFreeIpAddr`; `Wraps` is its bound `i <= finish`
when `finish` is the greatest `uint32` and the counter goes on at 0. Addresses
are never given back: `RemoveService` does not tell the tracker, and `AddService`
keeps the address of a service that failed to start.

All properties are under `SuiteFits`: the suite's subnets end before the address
space does and a network has at least two addresses. The code checks neither.
With width 0 the tracker hands out the address after the network; with a suite
wide enough the subnets wrap around; and in a network that ends at the greatest `uint32`
the search goes on at address 0. The actions model all three, the properties say nothing of them. Widths of 32 and more (conversions outside of
`uint32`) are not modelled. The broadcast address is handed out like any other.

## 3. Runs

| run | instance | shows |
|---|---|---|
| `parallelizer_safety` | 3 tests, 2 workers, 2 signals, 1 system log | types, the inductive invariant, `RunOnce`, `VerdictIsHonest`, `OneWholeBlockPerTest`, `SystemLogsHeldThenShown`, `UnlockedBodiesRunAlone`, `NoTempfileOutlivesRun` |
| `parallelizer_liveness` | 2 tests, 2 workers, 1 signal | `SuiteTerminates`, `CancelledSuiteNeverPasses`, and the refinement `ImplementsSuiteRun` with its progress |
| `parallelizer_zero` | 2 tests, no worker | finding: nothing is run and the suite "passes" |
| `parallelizer_late_signal` | 1 test, 1 worker, 1 signal | finding: a signal after the run panics |
| `executor_safety` | 2 services, cancellable suite | the inductive invariant; outcomes, clean-up after success and after partial failure, nothing new after a timeout; and `RunTestReturns`, `KnownNetworkIsRemoved` |
| `executor_leak` | 1 service, suite not cancelled | finding: a service that starts late keeps the network alive |
| `executor_tempfile` | 1 service | finding: error returns leave the tempfile |
| `controller` | 2 service IDs, 1 configuration, 3 addresses | the inductive invariant; `NodesDescribeContainers`, `EveryContainerIsOwned`, `TornDownUnlessTimedOut`, `PassMeansTestSucceeded`, `StartsWithDependencies`; that the controller ends (`ControllerExits`, `StartupWaitEnds`); the refinement `ImplementsContract` |
| `controller_teardown` | 1 service ID, 1 address | finding: a test that was timed out goes on and starts a service that stays |
| `controller_fatal_nil` | 1 service ID, 1 address | finding: a test stopped by `Fatal(nil)` passes |
| `test_run` | 1 service ID, 2 addresses, both processes | `PassedTestEndedWithoutError`, `VerdictLeavesNothing` |
| `addresses_safety` | 2 tests, 32 addresses, sizes 1, 2, 4, 8, start 12 | `NoAddressHeldTwice`, `AddressesFromOwnSubnet`, `RefusedOnlyWhenAllTaken`, the inductive invariant |

What the properties with conditions leave out is part of what they say:

* `PassedMeansControllerSucceeded`: a result taken in the grace period is no pass
  (`~overdue`). A pass whose removal failed, or during which the suite was cancelled, is one.
* `EveryContainerIsOwned` and `TornDownUnlessTimedOut` exempt the containers in `forgotten`,
  one by one; the second also the timeout (`controller_teardown` shows why) and a process that dies.
* `PassMeansTestSucceeded` and `PassedTestEndedWithoutError` count a panic with nil as no error, as the
  code does; `controller_fatal_nil` shows the test that is stopped half-way and passes.
* `VerdictLeavesNothing` is about tests in which no call failed and the controller
  neither timed out nor died.
* `NetworkKnownUnlessAbandoned` does not exclude the network whose ID nobody knows; it says
  that only a cancellation or a failed call leads there.
* `StartsWithDependencies` speaks of the time before the timeout.

Why these bounds are enough. Three tests with two workers give a worker a second
test while the other one is still busy, and one left in the queue; two
signals give one that is handled and one that is dropped, late or panics; one system
log is enough to be lost or misplaced. Two tests on two workers have every
order of a start, a signal and a report. For one test, two services give
one that is listed by `NetworkInspect` and one that is missed. For the controller, two
service IDs give a service and its dependency, and three addresses a service that is
removed and added again, or added again after a failure, next to another one; one configuration is registered in
time, too late, or never. `test_run` has one service ID with two addresses, enough for a
service that failed or was removed and another that runs. For addresses, the sizes include
the degenerate one, one with a single host (the controller gets none), and two with
services; the start is the first address of a network of size 1, 2 or 4 and in the middle of one of size 8; two networks
of each size fit and refuse. No
run has a state constraint: each explores its whole instance.
`MaxSignals`, `MaxSystemLogs` bound the environment, not the code.
Symmetry is used over tests in the run that checks safety only.

### Fairness

* Parallel executor: weak fairness of the main goroutine, of each worker and of the
  signal goroutine. These are runnable goroutines the Go scheduler does run; the
  mutex is held by one worker at a time and each of them takes it finitely often.
  A worker's `RunTest` relies on `runTest` returning, which
  `RunTestReturns` checks. Signals and stray log writes are never owed.
* One test: `RunTestReturns` assumes only that the runner moves: timers fire, and a
  select with a ready case proceeds. `KnownNetworkIsRemoved` adds that the test
  goroutine is scheduled and that the engine answers what it is asked. Failures,
  the controller's exit, stray requests and signals are never owed.

* Controller: `ControllerExits` assumes the main goroutine outside of user code: it is
  scheduled, `time.After` fires, the engine answers a start or stop one way or
  the other. Nothing is assumed of the test. `StartupWaitEnds` adds that the context's
  timer fires and that the user's `IsServiceUp` returns, which the code does need: a
  call that blocks is never timed out.

### Findings

1. *Parallelism 0* (`test_executor_parallelizer.go:135`). It is a `uint` that
   nothing checks. No worker starts, no test is recorded, and "all of them passed".
2. *Late signal* (`:88`). `close(sigs)` without `signal.Stop`.
3. *Network leak* (`commons/docker/docker_manager.go:113`). The list of containers
   to stop is read once. A service requested by a controller that then failed (its own
   timeout, say) starts after the list was read; the engine refuses to
   remove the network, and the refusal is only logged. `RefusedOnlyForMissedContainer`
   shows that a late start is the only cause when the engine itself does not fail.
4. *Tempfile leak* (`test_executor.go:312` and the returns after it).
5. *Test not killed* (`controller/test_controller.go:192`). At its timeout a test is
   "killed" according to `commons/testsuite/test.go:28`; nothing tells its goroutine.
   It may add a service that `RemoveAll` does not come to, and both use the map
   without a lock. `TornDownUnlessTimedOut` shows that without a timeout the teardown
   misses no container but those of calls that failed. What stays is left to the
   initializer's `RemoveNetwork`, where finding 3 applies.
6. *`Fatal(nil)` passes* (`controller/test_controller.go:216`). `Fatal(nil)`, with a nil error from
   `stacktrace.Propagate` for instance, and `AssertTrue(false, nil)` panic with nil, which
   `recover` of Go 1.13 does not tell from no panic: the test is stopped half-way, and passes.

Seen in the code and kept by the model, without a run of their own: an `AddService` that gives up after the
start was requested leaves a container that is in no map (`service_network.go:168`), so `RemoveAll`
does not stop it though the test ended in time; the names of the
summary are never sorted (`parallel_test_output_manager.go:187`), against the comment; a test that panics with something
other than an error kills the controller without `RemoveAll`; `RemoveAll` always
returns nil, though its comment speaks of an error; the checker's copy of the
dependencies (`service_availability_checker.go:50`) is made into a slice of length 0 and
stays empty; the error of `InitializeMountedFiles` is overwritten.

## 4. Proofs

Each module of theorems proves an inductive invariant (`Init => I`, `I /\ [Next]_vars =>
I'`), one lemma per conjunct and in it one step per action, and takes the theorems
as its consequences. They hold for every value of the constants.

**`TestExecutorParallelizerProofs`** from `ParallelizerAssumption` (the suite is
finite, `NoTest` is not a test, the parallelism is a natural number, 0 included).
`RunOnce`, `VerdictIsHonest` and the others are not inductive: the verdict is given
when the WaitGroup is at zero, and that says nothing without `WorkersCounted` (the
counter is the number of workers between their birth and their `Done`), which with
`MainFollowsWorkers` makes all workers gone after the wait; with
`WorkersLeaveDrainedQueue` a gone worker means a drained queue, so, one worker
at least having been there, `RunOnce` leaves every test recorded.
`MutexIsHeldByPrinter` and `FilesBelongToLiveWorkers` tie mutex and tempfiles to
workers, so both are free when no worker is left.

| theorem | says |
|---|---|
| `SchedulingInvariantHolds`, `TypesHold` | the invariant of goroutines, queue and results, the types |
| `EveryTestRunOnce` | each test is waiting, held by one worker, or recorded |
| `VerdictIsAlwaysHonest` | with a worker at all, the verdict is that of the whole suite |
| `UnlockedBodiesAlwaysRunAlone` | the two bodies behind an early `Unlock` meet no worker |
| `NoTempfileEverOutlivesRun` | no tempfile is left after the wait |

**`TerminalProofs`** adds what reaches the terminal, `TerminalInvariant`, under the same
assumption. `SchedulingInvariant` and `TerminalInvariant` are the `InductiveInvariant`
that the run `parallelizer_safety` checks. Every method of the manager prints through a
logger it picks itself, so `LoggersFit` comes first: while a block is printed, the logger
picked writes to the terminal and the system-wide one does not (`PrintsOnTerminal`). `LastLineFits`
ties the last line of the terminal to the worker that holds the mutex: a banner at `copy`,
logs at `status`, and neither when the mutex is free. Hence what a worker appends continues its own block, and
the blocks stay unbroken (`BlocksUnbroken`); that there is one for each test recorded,
and a second for none, is `BannersFit`, with `RunOnce`. For the system-wide logger
`SystemLogsFit` counts: lines on the terminal and lines held make up the writes, and
before the summary none is on the terminal. The lemmas on sequences (`Appended`,
`SystemLinesAppended`, `SystemLinesConcatenated`, `OtherLinesKeepBlocks`) say what one
line more, or a whole text of them, does to blocks and counts.

| theorem | says |
|---|---|
| `InvariantHolds` | the whole inductive invariant |
| `EveryTestPrintsOneWholeBlock` | any number of workers print one unbroken block per test, none missing after the wait |
| `SystemLogsAlwaysHeldThenShown` | no write of the system-wide logger reaches the terminal while tests run; all are there after the summary |

**`SuiteRunProofs`** goes on from `SchedulingInvariant`, with one assumption more: at least one
worker (`Parallelism > 0`; with none the run "passes" without a test, finding 1). Only
four steps of a worker and two of the main goroutine change where a test is (`StepKinds`); all
others are stutters of `SuiteRun`, but for the cancellation. `PhasesFit` ties the phase of
a test to the position of the one worker that carries it, so `CreateTempfile` is `Start`
and the first half of `LogTestOutput` is `Report`; `LateEndsInError` makes the
report of a test started after the cancellation an error, and `AllLoggedAfterWait` is what
`Conclude` asks for. A test still waiting when the suite is interrupted stays doomed on
its whole way (`StaysDoomed`), hence the verdict.

| theorem | says |
|---|---|
| `CancelledSuiteDoesNotPass` | a suite interrupted with a test waiting never passes |
| `RunImplementsSuiteRun` | every run is a run of `SuiteRun` (without its progress) |

**`TestNetworkAddressesProofs`** from `AddressesAssumption`. Lemmas on quotients
(`QuotientIsUnique`, `QuotientOfMultiple`) give that consecutive masks lie in
consecutive networks whatever the alignment of the first (`SubnetsApart`), and
`LoopBounds`, `TrackerFinds` that the search finds host addresses of its own subnet and
all of them. `TrackersAgree` (the controller's tracker starts with
what the initializer's handed out) and `UsedAddressesAreTaken` then make an address
that is found free an address without a user: a test of another
subnet cannot have it, and this test's trackers know of it.
That is `InvariantHolds`; `TypesHold`, `NoAddressEverHeldTwice`,
`AddressesAlwaysFromOwnSubnet` and `RefusalsAreJustified` follow.

**`TestExecutorProofs`** from `ExecutorAssumption` (the controller is not one of its
services). The many calls of the goroutine come to three kinds of steps: a request is
sent, a call ends in an error, or the goroutine gets on (`StepKinds`); the lemmas go by these
and by the steps of runner, removal, engine and controller. `GoroutineFits` says what the
goroutine knows at each position. A pass is honest because of `VerdictFits`: a verdict is read from a
controller that is over, and nothing revives it, since requests in the air lead to
errors only (`StraysFit`); and `RunnerFits` keeps a verdict from a runner that is `overdue`, which
returns an error whatever arrives in the grace period. That a success leaves nothing needs `SuccessIsQuiet`: when the
controller is over with code 0 no service runs or starts, and none begins then,
so the removal meets an empty network. `EveryRunningIsListed` is why the
engine refuses a removal only for a container that started too late.

| theorem | says |
|---|---|
| `InvariantHolds`, `TypeCorrect` | the inductive invariant, the types |
| `AlwaysReturnsAllowedOutcome` | `runTest` keeps what `TestExecutorParallelizer` assumes of it |
| `PassedAlwaysMeansControllerSucceeded` | a pass was taken before the hard timeout, from a controller that ended with code 0, after an attempt to remove the network |
| `PassedTestAlwaysLeavesNothing` | a pass without a failed call leaves nothing |
| `RemovalAlwaysAttemptedIffNetworkKnown`, `NetworkAlwaysKnownUnlessAbandoned` | which networks are removed and which are lost |
| `CancelledTestNeverTouchesAnything`, `NeverAnythingNewAfterTimeout` | no effect after a cancellation, no new request after the timeout |
| `RefusalsOnlyForMissedContainers` | the only cause of a refused removal |

**`TestControllerProofs`** from `NetworkAssumption` (the subnet has a natural number of
addresses, `NoNode` is none of them, `NoService` is not a service), on top of
**`ServiceNetworkProofs`**. The latter has the part that holds whatever the two
goroutines do, `NetworkInvariant`: a call under way and its container are at the same
point (`FramesFit`), an address not handed out has no container (`FreshAddresses`), and a
registered container is no other node's and in no call but one about to delete it
(`NodesFit`, `OneNodePerContainer`, `FramesOffNodes`, `FramesApart`). It survives
even a `DeleteNode` or a `ServiceStarted` that overtakes the other goroutine, which is
why `NodesDescribeContainers` needs no word about the timeout.

The rest does. `EveryContainerIsOwned` fails as soon as a node is overwritten or a
deletion hits another node than the one looked up; `LookedUpHolds` excludes that, and it
holds because until the timeout only one goroutine is in a call (`TakeTurns`, by
which `OtherIsIdle`). `RemovesThemAll` makes the end of `RemoveAll`'s range
the end of the map; with both goroutines idle nothing is owned by a call either, so at
`Exit` ownership leaves no container up but the forgotten ones (`TornDownKept`). `OutcomeFits` carries the result
of the test to the exit code. Every step is either a step of a call or of the engine,
or one of the controller that leaves calls, nodes and containers alone (`StepKinds`).

| theorem | says |
|---|---|
| `InvariantHolds`, `TypeCorrect` | the inductive invariant, the types |
| `NodesAlwaysDescribeContainers` | a registered node has a started container of its own, always |
| `ContainersAreAlwaysOwned` | until the timeout no running container is lost but those of calls that failed |
| `AlwaysTornDownUnlessTimedOut` | any return but that of the timeout leaves nothing up but the containers of calls that failed |
| `PassAlwaysMeansTestSucceeded` | exit code 0 is a test that ended in time without an error (a nil panic counts as none) |
| `AlwaysStartsWithDependencies` | no service starts after its dependency is gone |
| `ControllerImplementsContract` | the controller implements `ControllerContract` |

**`TestRunProofs`** is about both processes of a test, from `ExecutorAssumption` and
`RunAssumption` (the services are numbered by their addresses). A run of both is one of each
(`RunsTheExecutor`, `RunsTheController`), so both inductive invariants hold in it, the
controller's by an instance of `TestControllerProofs`; `OneEngine` carries a fact
from one process to the other. A pass is read from a stopped controller with exit code
0 (`VerdictFits`), and that code is given only to a test that ended in time without an error
(`PassMeansTestSucceeded`). Neither process can show that nothing is left
after a verdict: the initializer's `RemoveNetwork` may be refused, and a controller that
exits with an error proves nothing to `TestExecutor`. Together: a verdict
means an exited controller, which by `TornDownUnlessTimedOut` left no service up that it
had not forgotten (`VerdictIsQuiet`), so the engine has no container to refuse the removal for, and no
request for a network is in the air that could bring it back (`ExecutorKeepsItGone`).

A conjunction of two models may also block steps that the program takes, and then shows
nothing about them. Two theorems exclude it, in any reachable state, each giving what the step
does to the other side. `InitializerAllowsTheController`: once the controller's container
runs, every step of `TestController` is one of `TestRun` (`SeenByInitializer`); of the engine
it assumes only that a requested container starts if and only if the network is there
(`EngineHeedsNetwork`). `ControllerAllowsTheInitializer`: so is every step of `runTest`, its
goroutine, and the requests it abandoned (`SeenByController`). The latter rests on two
conjuncts of `TestExecutor`'s invariant: the controller is created and started once, late
requests included (`StartedOnce`), and what `RemoveNetwork` stops has been started
(`ListedWasStarted`); and on `StopContainer` keeping the exit code of a controller that
has exited since it was listed.

| theorem | says |
|---|---|
| `PassedTestAlwaysEndedWithoutError` | a reported pass is a test that came to an end before both timeouts, after its services were up, and not by a panic with an error (a nil panic counts as none) |
| `VerdictAlwaysLeavesNothing` | a verdict about to be reported, or reported, leaves neither network nor services, unless a call failed, or the controller forgot a container, timed out or died |
| `InitializerAllowsTheController`, `ControllerAllowsTheInitializer` | the composition leaves each process every step it takes alone |

Only model-checked: everything about liveness (`SuiteTerminates`, `RunTestReturns`,
`KnownNetworkIsRemoved`, `ControllerExits`, `StartupWaitEnds`) and fairness, and the
progress that `ImplementsSuiteRun` adds to `RunImplementsSuiteRun`: they are out of the
prover's reach. Every invariant and every safety action property that a passing run
checks is a theorem.

## 5. Not modelled

* The content of anything printed, the CLI around the suite runner (user code calls
  it), look-up of test names and the errors before the run: no state is involved.
* The conversions of `DockerManager` (`getContainerCfg`, port maps, mounts).
* The engine and the client library, except as the calls of `src/` show them
  (marked external in the map).
* The interfaces for user code have no behaviour. User code that starts goroutines of
  its own is left out: the network is not made for it (no lock).
* What a Go map does under a data race other than ending the process.
* The files of a service and what `IsServiceUp` makes of its arguments: they change
  nothing that Kurtosis keeps.
* How long anything takes: that the hard timeout of the initializer is longer than
  the controller's own is not used anywhere.

## 6. Plan

1. The search loop on its own, over bounded inputs: `NetworkOf`,
   `Start` and `Finish` against a reference definition on their own.
2. `SuiteRun` with the outcomes of `TestRun` in place of the contract of `runTest`: a suite
   that passes is one whose tests all did, stated across all three levels.
