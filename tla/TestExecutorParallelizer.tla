----------------------- MODULE TestExecutorParallelizer -----------------------
(***************************************************************************)
(* RunInParallelAndPrintResults: the main goroutine fills a work queue,    *)
(* starts the workers, waits for them and prints the summary; the workers  *)
(* run tests and print them through the output manager; one goroutine      *)
(* turns the first exit signal into the cancellation of the shared context.*)
(*                                                                         *)
(* runTest is one action here, with the outcomes TestOutcome allows it.    *)
(***************************************************************************)
EXTENDS ParallelTestOutputManager

CONSTANTS
    Parallelism,     \* number of worker goroutines, a uint: 0 is accepted
    NoTest,          \* a worker holds no test
    MaxSignals,      \* bound: exit signals the user sends
    MaxSystemLogs    \* bound: writes to the system-wide logger

ASSUME ParallelizerAssumption ==
    /\ IsFiniteSet(Tests)
    /\ NoTest \notin Tests
    /\ Parallelism \in Nat
    /\ MaxSignals \in Nat
    /\ MaxSystemLogs \in Nat

Workers == 1..Parallelism

VARIABLES
    mainPc,           \* program counter of the main goroutine
    allTestsPassed,   \* what RunInParallelAndPrintResults returns
    queue, queueClosed,     \* testParamsChan
    spawned, waitGroup,     \* loop index of the go statements; WaitGroup counter
    workerPc, current, result,
    startedCancelled, \* the context was cancelled when the worker called runTest
    deferred,         \* tests whose tempfile the worker's defers will clean up
    lost,             \* tests whose goroutine outlived runTest
    cancelled,        \* the context made by WithCancel
    sigsBuffered, sigsClosed, handler,
    signals, systemLogs     \* counters of the bounded environment

mainVars   == <<mainPc, allTestsPassed, spawned>>
workerVars == <<workerPc, current, result, startedCancelled, deferred, lost>>
signalVars == <<sigsBuffered, sigsClosed, handler, signals>>
vars == <<managerVars, mainVars, queue, queueClosed, waitGroup, workerVars,
          cancelled, signalVars, systemLogs>>

Init ==
    /\ NewManager
    /\ mainPc = "load"
    /\ allTestsPassed = FALSE
    /\ queue = {} /\ queueClosed = FALSE
    /\ spawned = 0 /\ waitGroup = 0
    /\ workerPc = [w \in Workers |-> "unborn"]
    /\ current = [w \in Workers |-> NoTest]
    /\ result = [w \in Workers |-> Errored]
    /\ startedCancelled = [w \in Workers |-> FALSE]
    /\ deferred = [w \in Workers |-> {}]
    /\ lost = {}
    /\ cancelled = FALSE
    /\ sigsBuffered = 0 /\ sigsClosed = FALSE
    /\ handler = "listening"
    /\ signals = 0 /\ systemLogs = 0

-----------------------------------------------------------------------------
(* The main goroutine *)

MainStep(from, to) == mainPc = from /\ mainPc' = to

\* The channel is buffered for every test, so loading never blocks; the map is
\* ranged over in any order, so the channel is a set.
LoadWorkQueue ==
    /\ MainStep("load", "intercept")
    /\ queue' = Tests
    /\ queueClosed' = TRUE
    /\ UNCHANGED <<managerVars, allTestsPassed, spawned, waitGroup, workerVars,
                   cancelled, signalVars, systemLogs>>

InterceptLogs ==
    /\ MainStep("intercept", "spawn")
    /\ StartInterceptingStdLogger
    /\ UNCHANGED <<allTestsPassed, spawned, queue, queueClosed, waitGroup,
                   workerVars, cancelled, signalVars, systemLogs>>

\* Mutation variant: the WaitGroup is not told of the goroutine.
SpawnWorkerUncounted ==
    /\ mainPc = "spawn"
    /\ spawned < Parallelism
    /\ spawned' = spawned + 1
    /\ workerPc' = [workerPc EXCEPT ![spawned + 1] = "receive"]
    /\ UNCHANGED <<managerVars, mainPc, allTestsPassed, queue, queueClosed, waitGroup,
                   current, result, startedCancelled, deferred, lost,
                   cancelled, signalVars, systemLogs>>

SpawnWorker ==
    /\ mainPc = "spawn"
    /\ spawned < Parallelism
    /\ spawned' = spawned + 1
    /\ waitGroup' = waitGroup + 1
    /\ workerPc' = [workerPc EXCEPT ![spawned + 1] = "receive"]
    /\ UNCHANGED <<managerVars, mainPc, allTestsPassed, queue, queueClosed,
                   current, result, startedCancelled, deferred, lost,
                   cancelled, signalVars, systemLogs>>

\* Mutation variant: the main goroutine does not wait.
AwaitNobody ==
    /\ spawned = Parallelism
    /\ MainStep("spawn", "stopLock")
    /\ UNCHANGED <<managerVars, allTestsPassed, spawned, queue, queueClosed,
                   waitGroup, workerVars, cancelled, signalVars, systemLogs>>

AwaitWorkers ==
    /\ spawned = Parallelism
    /\ waitGroup = 0
    /\ MainStep("spawn", "stopLock")
    /\ UNCHANGED <<managerVars, allTestsPassed, spawned, queue, queueClosed,
                   waitGroup, workerVars, cancelled, signalVars, systemLogs>>

StopIntercepting ==
    /\ \/ MainStep("stopLock", "stopBody") /\ LockAndUnlock
       \/ MainStep("stopBody", "summaryLock") /\ StopInterceptingStdLogger
    /\ UNCHANGED <<allTestsPassed, spawned, queue, queueClosed, waitGroup,
                   workerVars, cancelled, signalVars, systemLogs>>

Summarise ==
    /\ \/ MainStep("summaryLock", "summaryBody") /\ LockAndUnlock
       \/ MainStep("summaryBody", "verdict") /\ PrintSummary
    /\ UNCHANGED <<allTestsPassed, spawned, queue, queueClosed, waitGroup,
                   workerVars, cancelled, signalVars, systemLogs>>

GetAllTestsPassed ==
    /\ MainStep("verdict", "closeSigs")
    /\ LockAndUnlock
    /\ allTestsPassed' = AllTestsPassed
    /\ UNCHANGED <<spawned, queue, queueClosed, waitGroup, workerVars,
                   cancelled, signalVars, systemLogs>>

\* The two defers, last registered first: close(sigs), then cancelFunc().
\* The channel stays registered with signal.Notify.
RunMainDefers ==
    /\ \/ /\ MainStep("closeSigs", "cancel")
          /\ sigsClosed' = TRUE
          /\ UNCHANGED cancelled
       \/ /\ MainStep("cancel", "returned")
          /\ cancelled' = TRUE
          /\ UNCHANGED sigsClosed
    /\ UNCHANGED <<managerVars, allTestsPassed, spawned, queue, queueClosed,
                   waitGroup, workerVars, sigsBuffered, handler, signals,
                   systemLogs>>

Main == \/ LoadWorkQueue \/ InterceptLogs \/ SpawnWorker \/ AwaitWorkers
        \/ StopIntercepting \/ Summarise \/ GetAllTestsPassed \/ RunMainDefers

-----------------------------------------------------------------------------
(* The worker goroutines *)

WorkerStep(w, from, to) ==
    /\ workerPc[w] = from
    /\ workerPc' = [workerPc EXCEPT ![w] = to]

\* Mutation variant: a test that is handed out stays in the queue.
PeekTest(w) ==
    /\ WorkerStep(w, "receive", "tempfile")
    /\ \E t \in queue : current' = [current EXCEPT ![w] = t]
    /\ UNCHANGED <<managerVars, mainVars, queue, queueClosed, waitGroup, result,
                   startedCancelled, deferred, lost, cancelled, signalVars,
                   systemLogs>>

ReceiveTest(w) ==
    /\ WorkerStep(w, "receive", "tempfile")
    /\ \E t \in queue : /\ queue' = queue \ {t}
                        /\ current' = [current EXCEPT ![w] = t]
    /\ UNCHANGED <<managerVars, mainVars, queueClosed, waitGroup, result,
                   startedCancelled, deferred, lost, cancelled, signalVars,
                   systemLogs>>

\* Mutation variant: a worker leaves the loop while tests are waiting.
LeaveLoopEarly(w) ==
    /\ WorkerStep(w, "receive", "deferred")
    /\ queueClosed
    /\ UNCHANGED <<managerVars, mainVars, queue, queueClosed, waitGroup,
                   current, result, startedCancelled, deferred, lost,
                   cancelled, signalVars, systemLogs>>

\* The range loop ends when the channel is closed and drained.
LeaveLoop(w) ==
    /\ WorkerStep(w, "receive", "deferred")
    /\ queue = {} /\ queueClosed
    /\ UNCHANGED <<managerVars, mainVars, queue, queueClosed, waitGroup,
                   current, result, startedCancelled, deferred, lost,
                   cancelled, signalVars, systemLogs>>

\* Mutation variant: the test is not given the shared context.
CreateTempfileNoContext(w) ==
    /\ WorkerStep(w, "tempfile", "running")
    /\ deferred' = [deferred EXCEPT ![w] = @ \cup {current[w]}]
    /\ startedCancelled' = [startedCancelled EXCEPT ![w] = FALSE]
    /\ UNCHANGED <<managerVars, mainVars, queue, queueClosed, waitGroup,
                   current, result, lost, cancelled, signalVars, systemLogs>>

\* Without a tempfile the test does not run and is logged as an error.
CreateTempfile(w) ==
    /\ \/ /\ WorkerStep(w, "tempfile", "running")
          /\ deferred' = [deferred EXCEPT ![w] = @ \cup {current[w]}]
          /\ UNCHANGED result
       \/ /\ WorkerStep(w, "tempfile", "log")
          /\ result' = [result EXCEPT ![w] = Errored]
          /\ UNCHANGED deferred
    /\ startedCancelled' = [startedCancelled EXCEPT ![w] = cancelled]
    /\ UNCHANGED <<managerVars, mainVars, queue, queueClosed, waitGroup,
                   current, lost, cancelled, signalVars, systemLogs>>

\* runTest, then reopening the tempfile (a failure only replaces its text).
\* A goroutine that ignores the cancellation is left behind with an error.
RunTest(w) ==
    /\ WorkerStep(w, "running", "log")
    /\ \E o \in RunTestOutcomes(startedCancelled[w]) :
          /\ result' = [result EXCEPT ![w] = o]
          /\ \/ UNCHANGED lost
             \/ o = Errored /\ lost' = lost \cup {current[w]}
    /\ UNCHANGED <<managerVars, mainVars, queue, queueClosed, waitGroup,
                   current, startedCancelled, deferred, cancelled, signalVars,
                   systemLogs>>

LogTestOutput(w) ==
    /\ \/ /\ WorkerStep(w, "log", "copy")
          /\ LogTestOutputBegin(w, current[w], result[w])
       \/ /\ WorkerStep(w, "copy", "status")
          /\ LogTestOutputCopy(current[w])
       \/ /\ WorkerStep(w, "status", "receive")
          /\ LogTestOutputEnd(current[w])
    /\ UNCHANGED <<mainVars, queue, queueClosed, waitGroup, current, result,
                   startedCancelled, deferred, lost, cancelled, signalVars,
                   systemLogs>>

\* Mutation variant: Done() is called before the files are cleaned up.
RunWorkerDefersDoneFirst(w) ==
    /\ \/ /\ WorkerStep(w, "deferred", "done")
          /\ waitGroup' = waitGroup - 1
          /\ UNCHANGED deferred
       \/ /\ WorkerStep(w, "done", "exited")
          /\ deferred' = [deferred EXCEPT ![w] = {}]
          /\ UNCHANGED waitGroup
    /\ UNCHANGED <<managerVars, mainVars, queue, queueClosed, current, result,
                   startedCancelled, lost, cancelled, signalVars, systemLogs>>

\* The defers of the worker: the files of every test it ran, then Done().
RunWorkerDefers(w) ==
    /\ \/ /\ WorkerStep(w, "deferred", "done")
          /\ deferred' = [deferred EXCEPT ![w] = {}]
          /\ UNCHANGED waitGroup
       \/ /\ WorkerStep(w, "done", "exited")
          /\ waitGroup' = waitGroup - 1
          /\ UNCHANGED deferred
    /\ UNCHANGED <<managerVars, mainVars, queue, queueClosed, current, result,
                   startedCancelled, lost, cancelled, signalVars, systemLogs>>

Worker(w) == \/ ReceiveTest(w) \/ LeaveLoop(w) \/ CreateTempfile(w)
             \/ RunTest(w) \/ LogTestOutput(w) \/ RunWorkerDefers(w)

-----------------------------------------------------------------------------
(* Signals, and code that logs through the system-wide logger *)

\* Mutation variant: the channel takes any number of signals.
BufferSignal ==
    /\ signals < MaxSignals
    /\ signals' = signals + 1
    /\ sigsBuffered' = sigsBuffered + 1
    /\ UNCHANGED <<managerVars, mainVars, queue, queueClosed, waitGroup, workerVars,
                   cancelled, sigsClosed, handler, systemLogs>>

\* The runtime's non-blocking send: a full channel drops the signal, a closed
\* one panics.
DeliverSignal ==
    /\ signals < MaxSignals
    /\ signals' = signals + 1
    /\ IF sigsClosed
       THEN mainPc' = "panicked" /\ UNCHANGED sigsBuffered
       ELSE sigsBuffered' = 1 /\ UNCHANGED mainPc
    /\ UNCHANGED <<managerVars, allTestsPassed, spawned, queue, queueClosed,
                   waitGroup, workerVars, cancelled, sigsClosed, handler,
                   systemLogs>>

\* A buffered signal is received even from a closed channel.
HandleSignal ==
    /\ handler = "listening"
    /\ handler' = "exited"
    /\ \/ /\ sigsBuffered = 1
          /\ sigsBuffered' = 0
          /\ cancelled' = TRUE
       \/ /\ sigsBuffered = 0 /\ sigsClosed
          /\ UNCHANGED <<sigsBuffered, cancelled>>
    /\ UNCHANGED <<managerVars, mainVars, queue, queueClosed, waitGroup,
                   workerVars, sigsClosed, signals, systemLogs>>

Live == lost \cup {current[w] : w \in {v \in Workers : workerPc[v] = "running"}}

SystemLog ==
    /\ systemLogs < MaxSystemLogs
    /\ systemLogs' = systemLogs + 1
    /\ \E t \in Live : SystemLogWrite(t)
    /\ UNCHANGED <<mainVars, queue, queueClosed, waitGroup, workerVars,
                   cancelled, signalVars>>

-----------------------------------------------------------------------------
\* A returned run stays returned; the panic has ended the process.
Finished == mainPc \in {"returned", "panicked"} /\ UNCHANGED vars

Next ==
    \/ /\ mainPc # "panicked"
       /\ Main \/ (\E w \in Workers : Worker(w)) \/ DeliverSignal
               \/ HandleSignal \/ SystemLog
    \/ Finished

Spec == Init /\ [][Next]_vars

\* Goroutines that can run do run; that runTest returns is checked in
\* TestExecutor.  Signals and stray log writes may never come.
Fairness ==
    /\ WF_vars(Main)
    /\ \A w \in Workers : WF_vars(Worker(w))
    /\ WF_vars(HandleSignal)

FairSpec == Spec /\ Fairness

-----------------------------------------------------------------------------
(* Properties *)

AfterWait    == mainPc \notin {"load", "intercept", "spawn"}
AfterVerdict == mainPc \in {"closeSigs", "cancel", "returned", "panicked"}

MainPcs   == {"load", "intercept", "spawn", "stopLock", "stopBody", "summaryLock",
              "summaryBody", "verdict", "closeSigs", "cancel", "returned",
              "panicked"}
WorkerPcs == {"unborn", "receive", "tempfile", "running", "log", "copy", "status",
              "deferred", "done", "exited"}

\* The types of the variables.
TypeOK ==
    /\ ManagerTypeOK
    /\ mutex \in Workers \cup {0}
    /\ mainPc \in MainPcs
    /\ allTestsPassed \in BOOLEAN
    /\ queue \subseteq Tests
    /\ queueClosed \in BOOLEAN
    /\ spawned \in 0..Parallelism
    /\ waitGroup \in Int
    /\ workerPc \in [Workers -> WorkerPcs]
    /\ current \in [Workers -> Tests \cup {NoTest}]
    /\ result \in [Workers -> Outcome]
    /\ startedCancelled \in [Workers -> BOOLEAN]
    /\ deferred \in [Workers -> SUBSET Tests]
    /\ lost \subseteq Tests
    /\ cancelled \in BOOLEAN
    /\ sigsBuffered \in 0..1
    /\ sigsClosed \in BOOLEAN
    /\ handler \in {"listening", "exited"}
    /\ signals \in 0..MaxSignals
    /\ systemLogs \in 0..MaxSystemLogs

\* The test that w has taken from the queue and not recorded yet.
Held(w) == IF workerPc[w] \in {"tempfile", "running", "log"} THEN {current[w]} ELSE {}

\* From the moment the queue is loaded every test is in exactly one place:
\* waiting, in the hands of one worker, or recorded.  It is why logTestOutput
\* never meets a test "logged twice, indicating that it was run twice".
RunOnce ==
    /\ mainPc # "load" =>
          queue \cup logged \cup UNION {Held(w) : w \in Workers} = Tests
    /\ queue \cap logged = {}
    /\ \A w \in Workers :
          /\ Held(w) \cap (queue \cup logged) = {}
          /\ \A v \in Workers \ {w} : Held(v) \cap Held(w) = {}

\* "True if all tests passed, false otherwise", the comment of
\* RunInParallelAndPrintResults.  The run parallelizer_zero shows that it fails
\* when Parallelism is 0.
TrueIffAllTestsPassed ==
    AfterVerdict =>
        (allTestsPassed <=> \A t \in Tests : t \in logged /\ testOutputs[t] = Passed)

\* With at least one worker the verdict is true exactly when every test of the
\* suite was recorded and passed, whatever the interleaving of workers, signals
\* and tempfile errors.
VerdictIsHonest == Parallelism > 0 => TrueIffAllTestsPassed

\* A suite interrupted while tests were still waiting in the queue is never
\* reported as passed, however late the workers reach those tests.
CancelledSuiteNeverPasses ==
    [](cancelled /\ queue # {} => [](AfterVerdict => ~allTestsPassed))

BlockParts == {"banner", "logs", "status"}

\* A block of logTestOutput goes on with this line.
Continues(line, previous) ==
    \/ previous.part = "banner" /\ line = Line(previous.test, "logs")
    \/ previous.part = "logs"   /\ line = Line(previous.test, "status")

\* Each line of a block has the rest of the block around it, as far as it is printed.
BlocksUnbroken ==
    \A i \in DOMAIN stdout :
        /\ stdout[i].part \in {"logs", "status"} => i > 1 /\ Continues(stdout[i], stdout[i - 1])
        /\ stdout[i].part \in {"banner", "logs"} /\ i < Len(stdout) =>
              Continues(stdout[i + 1], stdout[i])

\* What logTestOutput prints for a test stands together on the terminal, in order and
\* with no line of another test or of the system-wide logger between; no test prints
\* two blocks; and when the workers are gone every recorded test has printed a whole one.
OneWholeBlockPerTest ==
    /\ BlocksUnbroken
    /\ \A i, j \in DOMAIN stdout :
          stdout[i] = stdout[j] /\ stdout[i].part \in BlockParts => i = j
    /\ AfterWait => \A t \in logged : \E i \in DOMAIN stdout : stdout[i] = Line(t, "status")

\* While tests run, nothing written through the system-wide logger reaches
\* the terminal; once the summary is printed none of it has been swallowed,
\* the writes of goroutines that outlive their test included.
SystemLines(lines) == {i \in DOMAIN lines : lines[i].part = "system"}
SystemLogsHeldThenShown ==
    /\ ~AfterWait => SystemLines(stdout) = {}
    /\ AfterVerdict => Cardinality(SystemLines(stdout)) = systemLogs

\* stopInterceptingStdLogger and printSummary release the mutex before they
\* touch what it guards; no worker is left that could hold it meanwhile.
UnlockedBodiesRunAlone ==
    mainPc \in {"stopBody", "summaryBody"} =>
        mutex = 0 /\ \A w \in Workers : workerPc[w] = "exited"

\* Whatever ends the run, the panic of a late signal included, the tempfiles
\* of all tests have been closed and removed.
NoTempfileOutlivesRun == AfterWait => \A w \in Workers : deferred[w] = {}

\* "Set up listener for exit signals so we handle it nicely", the comment at
\* signal.Notify.  The run parallelizer_late_signal shows a signal that panics.
SignalsHandledNicely == mainPc # "panicked"

\* The call ends: no schedule of the workers, the mutex, the queue and the
\* signals leaves the main goroutine waiting for ever.
SuiteTerminates == <>(mainPc \in {"returned", "panicked"})

-----------------------------------------------------------------------------
(* The inductive invariant.  First the part about goroutines and tests,    *)
(* behind RunOnce, VerdictIsHonest, UnlockedBodiesRunAlone and             *)
(* NoTempfileOutlivesRun.                                                  *)

\* Goroutines the WaitGroup has been told about and not been released from.
Started == {w \in Workers : workerPc[w] \notin {"unborn", "exited"}}

WorkersCounted ==
    /\ \A w \in Workers : workerPc[w] = "unborn" <=> w > spawned
    /\ waitGroup = Cardinality(Started)

MainFollowsWorkers ==
    /\ mainPc \in {"load", "intercept"} => spawned = 0
    /\ mainPc = "load" => queue = {} /\ logged = {}
    /\ AfterWait => \A w \in Workers : workerPc[w] = "exited"
    /\ sigsClosed => AfterVerdict
    /\ AfterVerdict => allTestsPassed = AllTestsPassed

WorkersLeaveDrainedQueue ==
    \A w \in Workers :
        workerPc[w] \in {"deferred", "done", "exited"} => queue = {} /\ mainPc # "load"

WorkersHoldTests ==
    \A w \in Workers :
        workerPc[w] \in {"tempfile", "running", "log", "copy", "status"} => current[w] \in Tests

MutexIsHeldByPrinter ==
    \A w \in Workers : mutex = w <=> workerPc[w] \in {"copy", "status"}

FilesBelongToLiveWorkers ==
    \A w \in Workers : workerPc[w] \in {"unborn", "done", "exited"} => deferred[w] = {}

\* What every step preserves: the WaitGroup counts the workers that are alive,
\* so the main goroutine runs on only when they are gone; they go only when the
\* queue is drained; and in between a test is where RunOnce says it is.
SchedulingInvariant ==
    /\ TypeOK
    /\ RunOnce
    /\ WorkersCounted
    /\ MainFollowsWorkers
    /\ WorkersLeaveDrainedQueue
    /\ WorkersHoldTests
    /\ MutexIsHeldByPrinter
    /\ FilesBelongToLiveWorkers

(* The part that is about the terminal. *)

\* Each logger writes where startInterceptingStdLogger and its counterpart left it, so a
\* method always prints on the terminal, and nobody else does while the tests run.
LoggersFit ==
    /\ isInterceptingStdLogger <=> mainPc \in {"spawn", "stopLock", "stopBody"}
    /\ isInterceptingStdLogger =>
          /\ stdLoggerOut = "interceptor"
          /\ sideChannelOut = "stdout" /\ writerBeforeManagement = "stdout"
    /\ ~isInterceptingStdLogger => stdLoggerOut = "stdout"
    /\ mutex # 0 => outputLogger = "stdout"
    /\ mainPc \in {"load", "intercept"} => lost = {}

\* The end of the terminal is as far as the holder of the mutex has got.
LastLine == stdout[Len(stdout)]
LastLineFits ==
    /\ mutex = 0 /\ stdout # <<>> => LastLine.part \notin {"banner", "logs"}
    /\ \A w \in Workers :
          /\ workerPc[w] = "copy" => stdout # <<>> /\ LastLine = Line(current[w], "banner")
          /\ workerPc[w] = "status" => stdout # <<>> /\ LastLine = Line(current[w], "logs")

\* One banner for each test recorded, and the status unless its block is being printed.
BannersFit ==
    /\ \A i \in DOMAIN stdout : stdout[i].part = "banner" => stdout[i].test \in logged
    /\ \A i, j \in DOMAIN stdout :
          stdout[i].part = "banner" /\ stdout[j] = stdout[i] => i = j
    /\ \A t \in logged :
          \/ \E i \in DOMAIN stdout : stdout[i] = Line(t, "status")
          \/ \E w \in Workers : workerPc[w] \in {"copy", "status"} /\ current[w] = t

BeforeSummary == ~AfterWait \/ mainPc \in {"stopLock", "stopBody"}
Summarised    == AfterVerdict \/ mainPc = "verdict"

\* Every write through the system-wide logger is held, or is on the terminal.
SystemLogsFit ==
    /\ logMessages \in Seq(Lines)
    /\ \A i \in DOMAIN logMessages : logMessages[i].part = "system"
    /\ BeforeSummary => SystemLines(stdout) = {}
    /\ Cardinality(SystemLines(stdout)) + (IF Summarised THEN 0 ELSE Len(logMessages))
          = systemLogs

TerminalInvariant ==
    /\ stdout \in Seq(Lines)
    /\ LoggersFit /\ LastLineFits /\ BlocksUnbroken /\ BannersFit /\ SystemLogsFit

InductiveInvariant == SchedulingInvariant /\ TerminalInvariant

-----------------------------------------------------------------------------
(* The abstract specification *)

Carrier(t) == {w \in Workers : workerPc[w] \in {"running", "log"} /\ current[w] = t}

\* How far test t is, in the terms of SuiteRun.
PhaseOf(t) ==
    IF t \in logged THEN TestStatus(testOutputs[t])
    ELSE IF Carrier(t) = {} THEN "pending"
    ELSE IF \E w \in Carrier(t) : startedCancelled[w] THEN "doomed" ELSE "running"

VerdictOf == IF ~AfterVerdict THEN "none"
             ELSE IF allTestsPassed THEN "passed" ELSE "failed"

Abstract == INSTANCE SuiteRun WITH
    phase <- [t \in Tests |-> PhaseOf(t)], verdict <- VerdictOf

\* The parallelizer implements SuiteRun, its progress included: each test is
\* started once, reported once and counted in a verdict given after them all.
ImplementsSuiteRun == Abstract!FairSpec
=============================================================================
