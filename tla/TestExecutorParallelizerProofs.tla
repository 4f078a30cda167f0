-------------------- MODULE TestExecutorParallelizerProofs --------------------
(***************************************************************************)
(* Proofs about TestExecutorParallelizer, for any finite set of tests, any *)
(* number of workers and any number of signals and stray log writes.       *)
(***************************************************************************)
EXTENDS TestExecutorParallelizer, FiniteSetTheorems, TLAPS

-----------------------------------------------------------------------------
(* Outcomes *)

\* The three outcomes are outcomes, and runTest's contract admits only those.
LEMMA OutcomesTyped ==
    /\ Passed \in Outcome /\ Failed \in Outcome /\ Errored \in Outcome
    /\ \A b \in BOOLEAN : RunTestOutcomes(b) \subseteq Outcome
<1>1. /\ Passed \in Outcome /\ Failed \in Outcome /\ Errored \in Outcome
    BY DEF Passed, Failed, Errored, Outcome
<1>2. \A b \in BOOLEAN : RunTestOutcomes(b) \subseteq {Passed, Failed, Errored}
    BY DEF RunTestOutcomes
<1>3. QED
    BY <1>1, <1>2

\* The status printed for an outcome is PASSED only for the outcome that is a
\* verdict, without an error.
LEMMA OnlyPassedPasses ==
    \A o \in Outcome : TestStatus(o) = "PASSED" <=> o = Passed
BY DEF TestStatus, Outcome, Passed

-----------------------------------------------------------------------------
(* Types *)

\* The types, with what makes them inductive: a worker past the receive holds a
\* test.
Typed == TypeOK /\ WorkersHoldTests

\* A fresh manager and idle workers have the types.
LEMMA TypedInit == Init => Typed
<1> SUFFICES ASSUME Init PROVE Typed
    OBVIOUS
<1>1. ManagerTypeOK
  <2>1. testOutputs \in [logged -> Outcome] /\ logged \subseteq Tests
    BY DEF Init, NewManager, logged
  <2>2. QED
    BY <2>1 DEF Init, NewManager, ManagerTypeOK, Writers
<1>2. result \in [Workers -> Outcome]
    BY OutcomesTyped DEF Init
<1>3. TypeOK
  <2>1. /\ mutex = 0 /\ mainPc \in MainPcs
        /\ queue \subseteq Tests /\ lost \subseteq Tests
        /\ spawned \in 0..Parallelism /\ waitGroup \in Int
        /\ sigsBuffered \in 0..1 /\ handler \in {"listening", "exited"}
        /\ signals \in 0..MaxSignals /\ systemLogs \in 0..MaxSystemLogs
    BY ParallelizerAssumption DEF Init, NewManager, MainPcs
  <2>2. /\ workerPc \in [Workers -> WorkerPcs]
        /\ current \in [Workers -> Tests \cup {NoTest}]
        /\ startedCancelled \in [Workers -> BOOLEAN]
        /\ deferred \in [Workers -> SUBSET Tests]
    BY DEF Init, WorkerPcs
  <2>3. {allTestsPassed, queueClosed, cancelled, sigsClosed} \subseteq BOOLEAN
    BY DEF Init
  <2>4. QED
    BY <1>1, <1>2, <2>1, <2>2, <2>3 DEF TypeOK
<1>4. WorkersHoldTests
    BY DEF Init, WorkersHoldTests
<1>5. QED
    BY <1>3, <1>4 DEF Typed

\* A step of any goroutine keeps the types.
LEMMA TypedStep == Typed /\ [Next]_vars => Typed'
<1> SUFFICES ASSUME Typed, [Next]_vars PROVE Typed'
    OBVIOUS
<1> USE ParallelizerAssumption, OutcomesTyped
    DEF Typed, TypeOK, ManagerTypeOK, WorkersHoldTests, managerVars, mainVars,
        workerVars, signalVars, MainStep, WorkerStep, LockAndUnlock, MainPcs,
        WorkerPcs, logged, Writers
<1>1. CASE LoadWorkQueue
    BY <1>1 DEF LoadWorkQueue
<1>2. CASE InterceptLogs
    BY <1>2 DEF InterceptLogs, StartInterceptingStdLogger
<1>3. CASE SpawnWorker
    BY <1>3 DEF SpawnWorker, Workers
<1>4. CASE AwaitWorkers
    BY <1>4 DEF AwaitWorkers
<1>5. CASE StopIntercepting
    BY <1>5 DEF StopIntercepting, StopInterceptingStdLogger
<1>6. CASE Summarise
    BY <1>6 DEF Summarise, PrintSummary
<1>7. CASE GetAllTestsPassed
    BY <1>7 DEF GetAllTestsPassed, AllTestsPassed
<1>8. CASE RunMainDefers
    BY <1>8 DEF RunMainDefers
<1>9. ASSUME NEW w \in Workers, ReceiveTest(w) PROVE Typed'
    BY <1>9 DEF ReceiveTest
<1>10. ASSUME NEW w \in Workers, LeaveLoop(w) PROVE Typed'
    BY <1>10 DEF LeaveLoop
<1>11. ASSUME NEW w \in Workers, CreateTempfile(w) PROVE Typed'
    BY <1>11 DEF CreateTempfile
<1>12. ASSUME NEW w \in Workers, RunTest(w) PROVE Typed'
    BY <1>12 DEF RunTest
<1>13. ASSUME NEW w \in Workers, LogTestOutput(w) PROVE Typed'
  <2>1. CASE WorkerStep(w, "log", "copy") /\ LogTestOutputBegin(w, current[w], result[w])
    <3>1. /\ current[w] \in Tests /\ result[w] \in Outcome
          /\ logged' = logged \cup {current[w]}
          /\ testOutputs' = [x \in logged \cup {current[w]} |->
                 IF x = current[w] THEN Recorded(current[w], result[w]) ELSE testOutputs[x]]
      BY <2>1 DEF LogTestOutputBegin
    <3>2. Recorded(current[w], result[w]) \in Outcome
      BY <3>1 DEF Recorded
    <3>3. testOutputs' \in [logged' -> Outcome] /\ logged' \subseteq Tests
      BY <3>1, <3>2
    <3>4. outputLogger' \in Writers
      BY <2>1 DEF LogTestOutputBegin, PickLogger
    <3>5. QED
      BY <1>13, <2>1, <3>3, <3>4 DEF LogTestOutput, LogTestOutputBegin, Workers
  <2>2. CASE WorkerStep(w, "copy", "status") /\ LogTestOutputCopy(current[w])
    BY <1>13, <2>2 DEF LogTestOutput, LogTestOutputCopy
  <2>3. CASE WorkerStep(w, "status", "receive") /\ LogTestOutputEnd(current[w])
    BY <1>13, <2>3 DEF LogTestOutput, LogTestOutputEnd
  <2>4. QED
    BY <1>13, <2>1, <2>2, <2>3 DEF LogTestOutput
<1>14. ASSUME NEW w \in Workers, RunWorkerDefers(w) PROVE Typed'
    BY <1>14 DEF RunWorkerDefers
<1>15. CASE DeliverSignal
    BY <1>15 DEF DeliverSignal
<1>16. CASE HandleSignal
  <2>1. CASE sigsBuffered = 1 /\ sigsBuffered' = 0 /\ cancelled' = TRUE
    BY <1>16, <2>1 DEF HandleSignal
  <2>2. CASE sigsBuffered = 0 /\ UNCHANGED <<sigsBuffered, cancelled>>
    BY <1>16, <2>2 DEF HandleSignal
  <2>3. QED
    BY <1>16, <2>1, <2>2 DEF HandleSignal
<1>17. CASE SystemLog
    BY <1>17 DEF SystemLog, SystemLogWrite
<1>18. CASE UNCHANGED vars
    BY <1>18 DEF vars
<1>19. QED
    BY <1>1, <1>2, <1>3, <1>4, <1>5, <1>6, <1>7, <1>8, <1>9, <1>10, <1>11, <1>12,
       <1>13, <1>14, <1>15, <1>16, <1>17, <1>18
    DEF Next, Main, Worker, Finished

-----------------------------------------------------------------------------
(* Every test is in one place *)

\* A step that moves no test keeps RunOnce; three steps move one: loading the
\* queue, receiving from it and recording an outcome.
LEMMA RunOnceStep == SchedulingInvariant /\ [Next]_vars => RunOnce'
<1> SUFFICES ASSUME SchedulingInvariant, [Next]_vars PROVE RunOnce'
    OBVIOUS
<1>0. Typed /\ RunOnce
    BY DEF SchedulingInvariant, Typed
<1> DEFINE Unmoved == /\ \A w \in Workers : Held(w)' = Held(w)
                      /\ UNCHANGED <<queue, testOutputs>>
                      /\ mainPc = "load" => mainPc' = "load"
<1>1. ASSUME Unmoved PROVE RunOnce'
    BY <1>0, <1>1 DEF RunOnce, logged
<1>2. ASSUME UNCHANGED <<queue, testOutputs, workerPc, current>>,
             mainPc = "load" => mainPc' = "load"
      PROVE  RunOnce'
    BY <1>1, <1>2 DEF Held
<1> USE DEF mainVars, workerVars, signalVars, managerVars, MainStep, WorkerStep
<1>3. CASE LoadWorkQueue
  <2>1. logged = {} /\ \A w \in Workers : workerPc[w] = "unborn"
    BY <1>3, <1>0, ParallelizerAssumption
    DEF LoadWorkQueue, SchedulingInvariant, MainFollowsWorkers, WorkersCounted, Workers
  <2>2. queue' = Tests /\ logged' = {} /\ \A w \in Workers : Held(w)' = {}
    BY <1>3, <2>1 DEF LoadWorkQueue, Held, logged
  <2>3. QED
    BY <2>2 DEF RunOnce
<1>4. CASE SpawnWorker
  <2>1. spawned + 1 \in Workers /\ workerPc[spawned + 1] = "unborn"
    BY <1>4, <1>0, ParallelizerAssumption
    DEF SpawnWorker, SchedulingInvariant, WorkersCounted, Typed, TypeOK, Workers
  <2>2. Unmoved
    BY <1>4, <2>1, <1>0 DEF SpawnWorker, Held, Typed, TypeOK
  <2>3. QED
    BY <2>2, <1>1
<1>5. ASSUME NEW w \in Workers, ReceiveTest(w) PROVE RunOnce'
  <2>1. PICK t \in queue : queue' = queue \ {t} /\ current' = [current EXCEPT ![w] = t]
    BY <1>5 DEF ReceiveTest
  <2>2. /\ Held(w) = {} /\ Held(w)' = {t}
        /\ \A v \in Workers \ {w} : Held(v)' = Held(v)
    BY <1>5, <2>1, <1>0 DEF ReceiveTest, Held, Typed, TypeOK
  <2>3. logged' = logged /\ mainPc' = mainPc
    BY <1>5 DEF ReceiveTest, logged
  <2>4. QED
    BY <2>1, <2>2, <2>3, <1>0 DEF RunOnce
<1>6. ASSUME NEW w \in Workers, LeaveLoop(w) PROVE RunOnce'
    BY <1>6, <1>1, <1>0 DEF LeaveLoop, Held, Typed, TypeOK
<1>7. ASSUME NEW w \in Workers, CreateTempfile(w) PROVE RunOnce'
    BY <1>7, <1>1, <1>0 DEF CreateTempfile, Held, Typed, TypeOK
<1>8. ASSUME NEW w \in Workers, RunTest(w) PROVE RunOnce'
    BY <1>8, <1>1, <1>0 DEF RunTest, Held, Typed, TypeOK
<1>9. ASSUME NEW w \in Workers, LogTestOutput(w) PROVE RunOnce'
  <2>1. CASE WorkerStep(w, "log", "copy") /\ LogTestOutputBegin(w, current[w], result[w])
    <3>1. /\ Held(w) = {current[w]} /\ Held(w)' = {}
          /\ \A v \in Workers \ {w} : Held(v)' = Held(v)
      BY <1>9, <2>1, <1>0 DEF LogTestOutput, Held, Typed, TypeOK
    <3>2. /\ logged' = logged \cup {current[w]}
          /\ queue' = queue /\ mainPc' = mainPc
      BY <1>9, <2>1 DEF LogTestOutput, LogTestOutputBegin, logged
    <3>3. QED
      BY <3>1, <3>2, <1>0 DEF RunOnce
  <2>2. CASE WorkerStep(w, "copy", "status") /\ LogTestOutputCopy(current[w])
    BY <1>9, <2>2, <1>1, <1>0 DEF LogTestOutput, LogTestOutputCopy, Held, Typed, TypeOK
  <2>3. CASE WorkerStep(w, "status", "receive") /\ LogTestOutputEnd(current[w])
    BY <1>9, <2>3, <1>1, <1>0 DEF LogTestOutput, LogTestOutputEnd, Held, Typed, TypeOK
  <2>4. QED
    BY <1>9, <2>1, <2>2, <2>3 DEF LogTestOutput
<1>10. ASSUME NEW w \in Workers, RunWorkerDefers(w) PROVE RunOnce'
    BY <1>10, <1>1, <1>0 DEF RunWorkerDefers, Held, Typed, TypeOK
<1>11. CASE InterceptLogs \/ AwaitWorkers \/ StopIntercepting \/ Summarise
            \/ GetAllTestsPassed \/ RunMainDefers
    BY <1>11, <1>2
    DEF InterceptLogs, StartInterceptingStdLogger, AwaitWorkers, StopIntercepting,
        LockAndUnlock, StopInterceptingStdLogger, Summarise, PrintSummary,
        GetAllTestsPassed, RunMainDefers
<1>12. CASE DeliverSignal
  <2>1. mainPc # "load" \/ mainPc' = "load"
    BY <1>12 DEF DeliverSignal, SchedulingInvariant, MainFollowsWorkers, AfterVerdict
  <2>2. QED
    BY <1>12, <2>1, <1>2 DEF DeliverSignal
<1>13. CASE HandleSignal \/ SystemLog \/ UNCHANGED vars
    BY <1>13, <1>2 DEF HandleSignal, SystemLog, SystemLogWrite, vars
<1>14. QED
    BY <1>3, <1>4, <1>5, <1>6, <1>7, <1>8, <1>9, <1>10, <1>11, <1>12, <1>13
    DEF Next, Main, Worker, Finished

-----------------------------------------------------------------------------
(* The WaitGroup *)

\* There are finitely many live workers, so counting them is meaningful.
LEMMA StartedIsFinite == IsFiniteSet(Started)
<1>1. IsFiniteSet(Workers)
    BY FS_Interval, ParallelizerAssumption DEF Workers
<1>2. QED
    BY <1>1, FS_Subset DEF Started

\* The counter follows the set of live workers: Add(1) goes with the go
\* statement, Done() with the exit, and nothing else starts or ends a worker.
LEMMA WorkersCountedStep == SchedulingInvariant /\ [Next]_vars => WorkersCounted'
<1> SUFFICES ASSUME SchedulingInvariant, [Next]_vars PROVE WorkersCounted'
    OBVIOUS
<1>0. Typed /\ WorkersCounted
    BY DEF SchedulingInvariant, Typed
<1>1. ASSUME UNCHANGED <<spawned, waitGroup>>,
             \A v \in Workers :
                workerPc'[v] # workerPc[v] =>
                    /\ workerPc[v] \notin {"unborn", "exited"}
                    /\ workerPc'[v] \notin {"unborn", "exited"}
      PROVE  WorkersCounted'
  <2>1. Started' = Started
    BY <1>1 DEF Started
  <2>2. QED
    BY <2>1, <1>0, <1>1 DEF WorkersCounted
<1> USE DEF mainVars, workerVars, signalVars, MainStep, WorkerStep
<1>2. CASE SpawnWorker
  <2>1. spawned + 1 \in Workers /\ workerPc[spawned + 1] = "unborn"
    BY <1>2, <1>0, ParallelizerAssumption DEF SpawnWorker, WorkersCounted, Typed, TypeOK, Workers
  <2>2. Started' = Started \cup {spawned + 1} /\ spawned + 1 \notin Started
    BY <1>2, <2>1, <1>0 DEF SpawnWorker, Started, Typed, TypeOK
  <2>3. waitGroup' = Cardinality(Started')
    BY <1>2, <2>2, <1>0, StartedIsFinite, FS_AddElement DEF SpawnWorker, WorkersCounted
  <2>4. \A v \in Workers : workerPc'[v] = "unborn" <=> v > spawned'
    BY <1>2, <2>1, <1>0, ParallelizerAssumption DEF SpawnWorker, WorkersCounted, Typed, TypeOK, Workers
  <2>5. QED
    BY <2>3, <2>4 DEF WorkersCounted
<1>3. ASSUME NEW w \in Workers, RunWorkerDefers(w) PROVE WorkersCounted'
  <2>1. CASE WorkerStep(w, "deferred", "done") /\ UNCHANGED waitGroup
    BY <1>3, <2>1, <1>0, <1>1 DEF RunWorkerDefers, Typed, TypeOK
  <2>2. CASE WorkerStep(w, "done", "exited") /\ waitGroup' = waitGroup - 1
    <3>1. Started' = Started \ {w} /\ w \in Started
      BY <2>2, <1>0 DEF Started, Typed, TypeOK
    <3>2. waitGroup' = Cardinality(Started')
      BY <2>2, <3>1, <1>0, StartedIsFinite, FS_RemoveElement DEF WorkersCounted
    <3>3. QED
      BY <1>3, <2>2, <3>2, <1>0 DEF RunWorkerDefers, WorkersCounted, Typed, TypeOK
  <2>3. QED
    BY <1>3, <2>1, <2>2 DEF RunWorkerDefers
<1>4. ASSUME NEW w \in Workers,
             ReceiveTest(w) \/ LeaveLoop(w) \/ CreateTempfile(w) \/ RunTest(w) \/ LogTestOutput(w)
      PROVE  WorkersCounted'
    BY <1>4, <1>0, <1>1
    DEF ReceiveTest, LeaveLoop, CreateTempfile, RunTest, LogTestOutput, Typed, TypeOK
<1>5. CASE LoadWorkQueue \/ InterceptLogs \/ AwaitWorkers \/ StopIntercepting \/ Summarise
           \/ GetAllTestsPassed \/ RunMainDefers
    BY <1>5, <1>1
    DEF LoadWorkQueue, InterceptLogs, AwaitWorkers, StopIntercepting, Summarise,
        GetAllTestsPassed, RunMainDefers
<1>6. CASE DeliverSignal \/ HandleSignal \/ SystemLog \/ UNCHANGED vars
    BY <1>6, <1>1 DEF DeliverSignal, HandleSignal, SystemLog, vars
<1>7. QED
    BY <1>2, <1>3, <1>4, <1>5, <1>6 DEF Next, Main, Worker, Finished

\* Once the counter is back at zero every worker has exited.
LEMMA NoWorkerLeft ==
    ASSUME SchedulingInvariant, spawned = Parallelism, waitGroup = 0
    PROVE  \A w \in Workers : workerPc[w] = "exited"
<1>1. Started = {}
    BY StartedIsFinite, FS_EmptySet DEF SchedulingInvariant, WorkersCounted
<1>2. \A w \in Workers : workerPc[w] # "unborn"
    BY ParallelizerAssumption DEF SchedulingInvariant, WorkersCounted, Workers
<1>3. QED
    BY <1>1, <1>2 DEF Started

-----------------------------------------------------------------------------
(* The main goroutine *)

\* A worker that still has a step to take keeps the main goroutine waiting.
LEMMA WorkerStepsDuringSpawn ==
    ASSUME SchedulingInvariant, NEW w \in Workers, workerPc[w] \notin {"unborn", "exited"}
    PROVE  mainPc = "spawn"
BY ParallelizerAssumption
DEF SchedulingInvariant, MainFollowsWorkers, WorkersCounted, AfterWait, Workers

\* The main goroutine goes past the wait only when the workers are gone, and
\* the verdict it took then stays true of what was recorded.
LEMMA MainFollowsWorkersStep == SchedulingInvariant /\ [Next]_vars => MainFollowsWorkers'
<1> SUFFICES ASSUME SchedulingInvariant, [Next]_vars PROVE MainFollowsWorkers'
    OBVIOUS
<1>0. Typed /\ MainFollowsWorkers
    BY DEF SchedulingInvariant, Typed
<1> USE DEF mainVars, workerVars, signalVars, managerVars, MainStep, WorkerStep
<1>1. ASSUME NEW w \in Workers, Worker(w) PROVE MainFollowsWorkers'
  <2>1. workerPc[w] \notin {"unborn", "exited"}
    BY <1>1 DEF Worker, ReceiveTest, LeaveLoop, CreateTempfile, RunTest, LogTestOutput, RunWorkerDefers
  <2>2. mainPc = "spawn"
    BY <2>1, WorkerStepsDuringSpawn
  <2>3. UNCHANGED <<mainPc, sigsClosed>>
    BY <1>1 DEF Worker, ReceiveTest, LeaveLoop, CreateTempfile, RunTest, LogTestOutput, RunWorkerDefers
  <2>4. QED
    BY <2>2, <2>3, <1>0 DEF MainFollowsWorkers, AfterWait, AfterVerdict
<1>2. ASSUME UNCHANGED <<mainPc, spawned, queue, testOutputs, workerPc, sigsClosed, allTestsPassed>>
      PROVE  MainFollowsWorkers'
    BY <1>2, <1>0 DEF MainFollowsWorkers, AfterWait, AfterVerdict, AllTestsPassed, logged
<1>3. CASE LoadWorkQueue \/ InterceptLogs
    BY <1>3, <1>0
    DEF LoadWorkQueue, InterceptLogs, StartInterceptingStdLogger,
        MainFollowsWorkers, AfterWait, AfterVerdict
<1>10. CASE SpawnWorker
  <2>1. mainPc = "spawn" /\ UNCHANGED <<mainPc, sigsClosed>>
    BY <1>10 DEF SpawnWorker
  <2>2. QED
    BY <2>1, <1>0 DEF MainFollowsWorkers, AfterWait, AfterVerdict
<1>4. CASE AwaitWorkers
    BY <1>4, <1>0, NoWorkerLeft DEF AwaitWorkers, MainFollowsWorkers, AfterWait, AfterVerdict
<1>5. CASE StopIntercepting \/ Summarise
    BY <1>5, <1>0
    DEF StopIntercepting, LockAndUnlock, StopInterceptingStdLogger, Summarise,
        PrintSummary, MainFollowsWorkers, AfterWait, AfterVerdict
<1>6. CASE GetAllTestsPassed
  <2>1. AllTestsPassed' = AllTestsPassed
    BY <1>6 DEF GetAllTestsPassed, LockAndUnlock, AllTestsPassed, logged
  <2>2. QED
    BY <1>6, <2>1, <1>0 DEF GetAllTestsPassed, MainFollowsWorkers, AfterWait, AfterVerdict
<1>7. CASE RunMainDefers
  <2>1. AllTestsPassed' = AllTestsPassed
    BY <1>7 DEF RunMainDefers, AllTestsPassed, logged
  <2>2. QED
    BY <1>7, <2>1, <1>0 DEF RunMainDefers, MainFollowsWorkers, AfterWait, AfterVerdict
<1>8. CASE DeliverSignal
  <2>1. CASE sigsClosed
    <3>1. AfterVerdict /\ AfterWait /\ mainPc' = "panicked"
      BY <1>8, <2>1, <1>0 DEF DeliverSignal, MainFollowsWorkers, AfterWait, AfterVerdict
    <3>2. AllTestsPassed' = AllTestsPassed
      BY <1>8 DEF DeliverSignal, AllTestsPassed, logged
    <3>3. allTestsPassed' = allTestsPassed /\ workerPc' = workerPc
      BY <1>8 DEF DeliverSignal
    <3>4. QED
      BY <3>1, <3>2, <3>3, <1>0 DEF MainFollowsWorkers, AfterWait, AfterVerdict
  <2>2. CASE ~sigsClosed
    BY <1>8, <2>2, <1>2 DEF DeliverSignal
  <2>3. QED
    BY <2>1, <2>2
<1>9. CASE HandleSignal \/ SystemLog \/ UNCHANGED vars
    BY <1>9, <1>2 DEF HandleSignal, SystemLog, SystemLogWrite, vars
<1>11. QED
    BY <1>1, <1>3, <1>4, <1>5, <1>6, <1>7, <1>8, <1>9, <1>10 DEF Next, Main, Finished

-----------------------------------------------------------------------------
(* The queue, the mutex and the tempfiles *)

\* Workers leave only a drained queue, and nothing refills it.
LEMMA WorkersLeaveDrainedQueueStep ==
    SchedulingInvariant /\ [Next]_vars => WorkersLeaveDrainedQueue'
<1> SUFFICES ASSUME SchedulingInvariant, [Next]_vars PROVE WorkersLeaveDrainedQueue'
    OBVIOUS
<1>0. Typed /\ WorkersLeaveDrainedQueue
    BY DEF SchedulingInvariant, Typed
<1> USE DEF mainVars, workerVars, signalVars, MainStep, WorkerStep
<1>1. ASSUME mainPc # "load" => mainPc' # "load",
             queue = {} /\ mainPc # "load" => queue' = {},
             \A v \in Workers : workerPc'[v] \in {"deferred", "done", "exited"} =>
                                   workerPc[v] \in {"deferred", "done", "exited"}
      PROVE  WorkersLeaveDrainedQueue'
    BY <1>1, <1>0 DEF WorkersLeaveDrainedQueue
<1>2. ASSUME NEW w \in Workers, LeaveLoop(w) PROVE WorkersLeaveDrainedQueue'
  <2>1. mainPc = "spawn" /\ queue = {} /\ UNCHANGED <<mainPc, queue>>
    BY <1>2, WorkerStepsDuringSpawn DEF LeaveLoop
  <2>2. QED
    BY <2>1 DEF WorkersLeaveDrainedQueue
<1>3. ASSUME NEW w \in Workers,
             ReceiveTest(w) \/ CreateTempfile(w) \/ RunTest(w) \/ LogTestOutput(w) \/ RunWorkerDefers(w)
      PROVE  WorkersLeaveDrainedQueue'
    BY <1>3, <1>0, <1>1
    DEF ReceiveTest, CreateTempfile, RunTest, LogTestOutput, RunWorkerDefers, Typed, TypeOK
<1>4. CASE SpawnWorker
    BY <1>4, <1>0, <1>1 DEF SpawnWorker, Typed, TypeOK
<1>5. CASE LoadWorkQueue \/ InterceptLogs \/ AwaitWorkers \/ StopIntercepting \/ Summarise
           \/ GetAllTestsPassed \/ RunMainDefers
    BY <1>5, <1>1
    DEF LoadWorkQueue, InterceptLogs, AwaitWorkers, StopIntercepting, Summarise,
        GetAllTestsPassed, RunMainDefers
<1>6. CASE DeliverSignal \/ HandleSignal \/ SystemLog \/ UNCHANGED vars
    BY <1>6, <1>1 DEF DeliverSignal, HandleSignal, SystemLog, vars
<1>7. QED
    BY <1>2, <1>3, <1>4, <1>5, <1>6 DEF Next, Main, Worker, Finished

\* The mutex is held across steps by the worker that prints, and by no other.
LEMMA MutexIsHeldByPrinterStep ==
    SchedulingInvariant /\ [Next]_vars => MutexIsHeldByPrinter'
<1> SUFFICES ASSUME SchedulingInvariant, [Next]_vars PROVE MutexIsHeldByPrinter'
    OBVIOUS
<1>0. Typed /\ MutexIsHeldByPrinter
    BY DEF SchedulingInvariant, Typed
<1> USE DEF mainVars, workerVars, signalVars, managerVars, MainStep, WorkerStep
<1>1. ASSUME mutex' = mutex,
             \A v \in Workers : workerPc'[v] \in {"copy", "status"} <=> workerPc[v] \in {"copy", "status"}
      PROVE  MutexIsHeldByPrinter'
    BY <1>1, <1>0 DEF MutexIsHeldByPrinter
<1>2. ASSUME NEW w \in Workers, LogTestOutput(w) PROVE MutexIsHeldByPrinter'
  <2>1. \A v \in Workers : v # 0
    BY ParallelizerAssumption DEF Workers
  <2>2. CASE WorkerStep(w, "log", "copy") /\ LogTestOutputBegin(w, current[w], result[w])
    BY <2>1, <2>2, <1>0 DEF LogTestOutputBegin, MutexIsHeldByPrinter, Typed, TypeOK
  <2>3. CASE WorkerStep(w, "copy", "status") /\ LogTestOutputCopy(current[w])
    BY <2>3, <1>0, <1>1 DEF LogTestOutputCopy, Typed, TypeOK
  <2>4. CASE WorkerStep(w, "status", "receive") /\ LogTestOutputEnd(current[w])
    BY <2>1, <2>4, <1>0 DEF LogTestOutputEnd, MutexIsHeldByPrinter, Typed, TypeOK
  <2>5. QED
    BY <1>2, <2>2, <2>3, <2>4 DEF LogTestOutput
<1>3. ASSUME NEW w \in Workers,
             ReceiveTest(w) \/ LeaveLoop(w) \/ CreateTempfile(w) \/ RunTest(w) \/ RunWorkerDefers(w)
      PROVE  MutexIsHeldByPrinter'
    BY <1>3, <1>0, <1>1
    DEF ReceiveTest, LeaveLoop, CreateTempfile, RunTest, RunWorkerDefers, Typed, TypeOK
<1>4. CASE SpawnWorker
  <2>1. spawned + 1 \in Workers /\ workerPc[spawned + 1] = "unborn"
    BY <1>4, ParallelizerAssumption
    DEF SpawnWorker, SchedulingInvariant, WorkersCounted, TypeOK, Workers
  <2>2. QED
    BY <1>4, <2>1, <1>0, <1>1 DEF SpawnWorker, Typed, TypeOK
<1>5. CASE LoadWorkQueue \/ InterceptLogs \/ AwaitWorkers \/ StopIntercepting \/ Summarise
           \/ GetAllTestsPassed \/ RunMainDefers
    BY <1>5, <1>1
    DEF LoadWorkQueue, InterceptLogs, StartInterceptingStdLogger, AwaitWorkers,
        StopIntercepting, LockAndUnlock, StopInterceptingStdLogger, Summarise,
        PrintSummary, GetAllTestsPassed, RunMainDefers
<1>6. CASE DeliverSignal \/ HandleSignal \/ SystemLog \/ UNCHANGED vars
    BY <1>6, <1>1 DEF DeliverSignal, HandleSignal, SystemLog, SystemLogWrite, vars
<1>7. QED
    BY <1>2, <1>3, <1>4, <1>5, <1>6 DEF Next, Main, Worker, Finished

\* A worker has no files before it runs and none after its defers.
LEMMA FilesBelongToLiveWorkersStep ==
    SchedulingInvariant /\ [Next]_vars => FilesBelongToLiveWorkers'
<1> SUFFICES ASSUME SchedulingInvariant, [Next]_vars PROVE FilesBelongToLiveWorkers'
    OBVIOUS
<1>0. Typed /\ FilesBelongToLiveWorkers
    BY DEF SchedulingInvariant, Typed
<1> USE DEF mainVars, workerVars, signalVars, MainStep, WorkerStep
<1>1. ASSUME deferred' = deferred,
             \A v \in Workers : workerPc'[v] \in {"unborn", "done", "exited"} =>
                                   workerPc[v] \in {"unborn", "done", "exited"}
      PROVE  FilesBelongToLiveWorkers'
    BY <1>1, <1>0 DEF FilesBelongToLiveWorkers
<1>2. ASSUME NEW w \in Workers, CreateTempfile(w) \/ RunWorkerDefers(w)
      PROVE  FilesBelongToLiveWorkers'
    BY <1>2, <1>0 DEF CreateTempfile, RunWorkerDefers, FilesBelongToLiveWorkers, Typed, TypeOK
<1>3. ASSUME NEW w \in Workers,
             ReceiveTest(w) \/ LeaveLoop(w) \/ RunTest(w) \/ LogTestOutput(w)
      PROVE  FilesBelongToLiveWorkers'
    BY <1>3, <1>0, <1>1 DEF ReceiveTest, LeaveLoop, RunTest, LogTestOutput, Typed, TypeOK
<1>4. CASE SpawnWorker
    BY <1>4, <1>0, <1>1 DEF SpawnWorker, Typed, TypeOK
<1>5. CASE LoadWorkQueue \/ InterceptLogs \/ AwaitWorkers \/ StopIntercepting \/ Summarise
           \/ GetAllTestsPassed \/ RunMainDefers
    BY <1>5, <1>1
    DEF LoadWorkQueue, InterceptLogs, AwaitWorkers, StopIntercepting, Summarise,
        GetAllTestsPassed, RunMainDefers
<1>6. CASE DeliverSignal \/ HandleSignal \/ SystemLog \/ UNCHANGED vars
    BY <1>6, <1>1 DEF DeliverSignal, HandleSignal, SystemLog, vars
<1>7. QED
    BY <1>2, <1>3, <1>4, <1>5, <1>6 DEF Next, Main, Worker, Finished

-----------------------------------------------------------------------------
(* The theorems *)

\* Before the queue is loaded nothing is held, counted or recorded.
LEMMA InvariantInit == Init => SchedulingInvariant
<1> SUFFICES ASSUME Init PROVE SchedulingInvariant
    OBVIOUS
<1>1. Typed
    BY TypedInit
<1>2. logged = {} /\ \A w \in Workers : Held(w) = {}
    BY DEF Init, NewManager, logged, Held
<1>3. RunOnce
    BY <1>2 DEF Init, RunOnce
<1>4. WorkersCounted
  <2>1. Started = {}
    BY DEF Init, Started
  <2>2. QED
    BY <2>1, FS_EmptySet, ParallelizerAssumption DEF Init, WorkersCounted, Workers
<1>5. MainFollowsWorkers
    BY <1>2 DEF Init, MainFollowsWorkers, AfterWait, AfterVerdict
<1>6. /\ WorkersLeaveDrainedQueue
      /\ MutexIsHeldByPrinter
      /\ FilesBelongToLiveWorkers
    BY ParallelizerAssumption
    DEF Init, NewManager, Workers, WorkersLeaveDrainedQueue, MutexIsHeldByPrinter, FilesBelongToLiveWorkers
<1>7. QED
    BY <1>1, <1>3, <1>4, <1>5, <1>6 DEF SchedulingInvariant, Typed

\* No step of a goroutine, signal or stray log write breaks the invariant.
LEMMA InvariantStep == SchedulingInvariant /\ [Next]_vars => SchedulingInvariant'
<1> SUFFICES ASSUME SchedulingInvariant, [Next]_vars PROVE SchedulingInvariant'
    OBVIOUS
<1>1. Typed'
    BY TypedStep DEF SchedulingInvariant, Typed
<1>2. QED
    BY <1>1, RunOnceStep, WorkersCountedStep, MainFollowsWorkersStep,
       WorkersLeaveDrainedQueueStep, MutexIsHeldByPrinterStep, FilesBelongToLiveWorkersStep
    DEF SchedulingInvariant, Typed

\* In every state the program reaches, for any suite and any parallelism, goroutines, queue
\* and WaitGroup fit together.
THEOREM SchedulingInvariantHolds == Spec => []SchedulingInvariant
<1>1. Init => SchedulingInvariant
    BY InvariantInit
<1>2. SchedulingInvariant /\ [Next]_vars => SchedulingInvariant'
    BY InvariantStep
<1>3. QED
    BY <1>1, <1>2, PTL DEF Spec

\* The variables keep their types.
THEOREM TypesHold == Spec => []TypeOK
<1>1. SchedulingInvariant => TypeOK
    BY DEF SchedulingInvariant
<1>2. QED
    BY <1>1, SchedulingInvariantHolds, PTL

\* No test is run twice and none is dropped, by any number of workers.
THEOREM EveryTestRunOnce == Spec => []RunOnce
<1>1. SchedulingInvariant => RunOnce
    BY DEF SchedulingInvariant
<1>2. QED
    BY <1>1, SchedulingInvariantHolds, PTL

\* With at least one worker RunInParallelAndPrintResults returns true exactly
\* when every test of the suite was recorded as passed.
THEOREM VerdictIsAlwaysHonest == Spec => []VerdictIsHonest
<1>1. SchedulingInvariant => VerdictIsHonest
  <2> SUFFICES ASSUME SchedulingInvariant, Parallelism > 0, AfterVerdict
               PROVE  allTestsPassed <=> \A t \in Tests : t \in logged /\ testOutputs[t] = Passed
    BY DEF VerdictIsHonest, TrueIffAllTestsPassed
  <2>1. AfterWait /\ mainPc # "load"
    BY DEF AfterVerdict, AfterWait
  <2>2. \A w \in Workers : workerPc[w] = "exited"
    BY <2>1 DEF SchedulingInvariant, MainFollowsWorkers
  <2>3. 1 \in Workers
    BY ParallelizerAssumption DEF Workers
  <2>4. queue = {}
    BY <2>2, <2>3 DEF SchedulingInvariant, WorkersLeaveDrainedQueue
  <2>5. \A w \in Workers : Held(w) = {}
    BY <2>2 DEF Held
  <2>6. logged = Tests
    BY <2>1, <2>4, <2>5 DEF SchedulingInvariant, RunOnce
  <2>7. allTestsPassed = \A t \in logged : TestStatus(testOutputs[t]) = "PASSED"
    BY DEF SchedulingInvariant, MainFollowsWorkers, AllTestsPassed
  <2>8. \A t \in logged : testOutputs[t] \in Outcome
    BY DEF SchedulingInvariant, TypeOK, ManagerTypeOK
  <2>9. QED
    BY <2>6, <2>7, <2>8, OnlyPassedPasses
<1>2. QED
    BY <1>1, SchedulingInvariantHolds, PTL

\* Releasing the mutex at once in stopInterceptingStdLogger and printSummary is
\* harmless: no worker is left, whatever their number.
THEOREM UnlockedBodiesAlwaysRunAlone == Spec => []UnlockedBodiesRunAlone
<1>1. SchedulingInvariant => UnlockedBodiesRunAlone
  <2> SUFFICES ASSUME SchedulingInvariant, mainPc \in {"stopBody", "summaryBody"}
               PROVE  mutex = 0 /\ \A w \in Workers : workerPc[w] = "exited"
    BY DEF UnlockedBodiesRunAlone
  <2>1. \A w \in Workers : workerPc[w] = "exited"
    BY DEF SchedulingInvariant, MainFollowsWorkers, AfterWait
  <2>2. \A w \in Workers : mutex # w
    BY <2>1 DEF SchedulingInvariant, MutexIsHeldByPrinter
  <2>3. QED
    BY <2>1, <2>2 DEF SchedulingInvariant, TypeOK
<1>2. QED
    BY <1>1, SchedulingInvariantHolds, PTL

\* The tempfiles of all tests are gone when the summary is printed, when the
\* call returns and when a late signal kills the process.
THEOREM NoTempfileEverOutlivesRun == Spec => []NoTempfileOutlivesRun
<1>1. SchedulingInvariant => NoTempfileOutlivesRun
    BY DEF SchedulingInvariant, MainFollowsWorkers, FilesBelongToLiveWorkers, NoTempfileOutlivesRun
<1>2. QED
    BY <1>1, SchedulingInvariantHolds, PTL
=============================================================================
