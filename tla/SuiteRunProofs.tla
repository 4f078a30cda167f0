---------------------------- MODULE SuiteRunProofs ----------------------------
(***************************************************************************)
(* The parallel executor implements SuiteRun, and an interrupted suite     *)
(* never passes, for any number of tests and of workers but zero.          *)
(*                                                                         *)
(* Few steps change where a test is or what is known of it (StepKinds).    *)
(***************************************************************************)
EXTENDS TestExecutorParallelizerProofs

Carrying == {"tempfile", "running", "log"}

Unmoved ==
    /\ UNCHANGED <<queue, testOutputs, allTestsPassed, current, result, startedCancelled>>
    /\ \A v \in Workers, pc \in Carrying : workerPc'[v] = pc <=> workerPc[v] = pc
    /\ AfterVerdict' <=> AfterVerdict

\* The outcome of its test is recorded by w.
Reports(w) ==
    /\ WorkerStep(w, "log", "copy")
    /\ LogTestOutputBegin(w, current[w], result[w])
    /\ UNCHANGED <<mainPc, allTestsPassed, queue, current, result, startedCancelled, cancelled>>

Moves(w) == ReceiveTest(w) \/ CreateTempfile(w) \/ RunTest(w) \/ Reports(w)

LEMMA StepKinds ==
    ASSUME SchedulingInvariant, [Next]_vars
    PROVE  \/ LoadWorkQueue \/ GetAllTestsPassed
           \/ \E w \in Workers : Moves(w)
           \/ Unmoved /\ (cancelled' = cancelled \/ cancelled' = TRUE)
<1>0. TypeOK
  BY DEF SchedulingInvariant
<1> USE DEF mainVars, workerVars, signalVars, managerVars, MainStep, WorkerStep
<1>1. ASSUME NEW w \in Workers, Worker(w)
      PROVE  Moves(w) \/ (Unmoved /\ cancelled' = cancelled)
  <2>1. CASE ReceiveTest(w) \/ CreateTempfile(w) \/ RunTest(w)
    BY <2>1 DEF Moves
  <2>2. CASE LeaveLoop(w) \/ RunWorkerDefers(w)
    BY <1>0, <2>2 DEF LeaveLoop, RunWorkerDefers, Unmoved, Carrying, AfterVerdict, TypeOK
  <2>3. CASE LogTestOutput(w)
    <3>1. CASE workerPc[w] = "log"
      BY <2>3, <3>1 DEF LogTestOutput, Moves, Reports
    <3>2. CASE workerPc[w] # "log"
      BY <1>0, <2>3, <3>2 DEF LogTestOutput, LogTestOutputCopy, LogTestOutputEnd, Unmoved,
         Carrying, AfterVerdict, TypeOK
    <3> QED
      BY <3>1, <3>2
  <2> QED
    BY <1>1, <2>1, <2>2, <2>3 DEF Worker
<1>2. CASE SpawnWorker
  <2>1. spawned + 1 \in Workers /\ workerPc[spawned + 1] = "unborn"
    BY <1>0, <1>2, ParallelizerAssumption
    DEF SpawnWorker, SchedulingInvariant, WorkersCounted, TypeOK, Workers
  <2> QED
    BY <1>0, <1>2, <2>1 DEF SpawnWorker, Unmoved, Carrying, AfterVerdict, TypeOK
<1>3. CASE InterceptLogs \/ AwaitWorkers \/ StopIntercepting \/ Summarise \/ RunMainDefers
  BY <1>3 DEF InterceptLogs, StartInterceptingStdLogger, AwaitWorkers, StopIntercepting,
     LockAndUnlock, StopInterceptingStdLogger, Summarise, PrintSummary, RunMainDefers, Unmoved,
     AfterVerdict
<1>4. CASE DeliverSignal
  BY <1>4 DEF DeliverSignal, SchedulingInvariant, MainFollowsWorkers, AfterVerdict, Unmoved
<1>5. CASE HandleSignal \/ SystemLog \/ UNCHANGED vars
  BY <1>5 DEF HandleSignal, SystemLog, SystemLogWrite, vars, Unmoved, AfterVerdict
<1> QED
  BY <1>1, <1>2, <1>3, <1>4, <1>5 DEF Next, Main, Finished

-----------------------------------------------------------------------------
(* A test that cannot be passed any more *)

DoomedTest(t) ==
    \/ t \in queue /\ cancelled
    \/ \E w \in Workers :
          /\ current[w] = t
          /\ \/ workerPc[w] = "tempfile" /\ cancelled
             \/ workerPc[w] = "running" /\ startedCancelled[w]
             \/ workerPc[w] = "log" /\ result[w] # Passed
    \/ t \in logged /\ testOutputs[t] # Passed

LEMMA StaysDoomed ==
    ASSUME SchedulingInvariant, [Next]_vars, NEW t \in Tests, DoomedTest(t)
    PROVE  DoomedTest(t)'
<1>0. TypeOK /\ Passed # Errored
  BY DEF SchedulingInvariant, Passed, Errored
<1> USE DEF mainVars, workerVars, managerVars, MainStep, WorkerStep
<1>1. CASE LoadWorkQueue
  BY <1>1 DEF LoadWorkQueue, DoomedTest, logged
<1>2. CASE GetAllTestsPassed
  BY <1>2 DEF GetAllTestsPassed, LockAndUnlock, DoomedTest, logged
<1>3. CASE Unmoved /\ (cancelled' = cancelled \/ cancelled' = TRUE)
  BY <1>3 DEF Unmoved, Carrying, DoomedTest, logged
<1>4. ASSUME NEW w \in Workers, Moves(w)
      PROVE  DoomedTest(t)'
  <2>1. CASE ReceiveTest(w)
    <3>1. PICK s \in queue : queue' = queue \ {s} /\ current' = [current EXCEPT ![w] = s]
      BY <2>1 DEF ReceiveTest
    <3>2. CASE t \in queue /\ cancelled
      BY <1>0, <2>1, <3>1, <3>2 DEF ReceiveTest, DoomedTest, TypeOK
    <3>3. CASE t \in logged /\ testOutputs[t] # Passed
      BY <2>1, <3>3 DEF ReceiveTest, DoomedTest, logged
    <3>4. ASSUME NEW v \in Workers, current[v] = t,
                 \/ workerPc[v] = "tempfile" /\ cancelled
                 \/ workerPc[v] = "running" /\ startedCancelled[v]
                 \/ workerPc[v] = "log" /\ result[v] # Passed
          PROVE  DoomedTest(t)'
      BY <1>0, <2>1, <3>1, <3>4 DEF ReceiveTest, DoomedTest, TypeOK
    <3> QED
      BY <3>2, <3>3, <3>4 DEF DoomedTest
  <2>2. CASE CreateTempfile(w)
    <3>1. CASE (t \in queue /\ cancelled) \/ (t \in logged /\ testOutputs[t] # Passed)
      BY <2>2, <3>1 DEF CreateTempfile, DoomedTest, logged
    <3>2. ASSUME NEW v \in Workers, current[v] = t,
                 \/ workerPc[v] = "tempfile" /\ cancelled
                 \/ workerPc[v] = "running" /\ startedCancelled[v]
                 \/ workerPc[v] = "log" /\ result[v] # Passed
          PROVE  DoomedTest(t)'
      <4>1. CASE v = w
        BY <1>0, <2>2, <3>2, <4>1 DEF CreateTempfile, DoomedTest, TypeOK
      <4>2. CASE v # w
        BY <1>0, <2>2, <3>2, <4>2 DEF CreateTempfile, DoomedTest, TypeOK
      <4> QED
        BY <4>1, <4>2
    <3> QED
      BY <3>1, <3>2 DEF DoomedTest
  <2>3. CASE RunTest(w)
    <3>1. CASE (t \in queue /\ cancelled) \/ (t \in logged /\ testOutputs[t] # Passed)
      BY <2>3, <3>1 DEF RunTest, DoomedTest, logged
    <3>2. ASSUME NEW v \in Workers, current[v] = t,
                 \/ workerPc[v] = "tempfile" /\ cancelled
                 \/ workerPc[v] = "running" /\ startedCancelled[v]
                 \/ workerPc[v] = "log" /\ result[v] # Passed
          PROVE  DoomedTest(t)'
      <4>1. CASE v = w
        <5>1. startedCancelled[w] /\ result'[w] = Errored
          BY <1>0, <2>3, <3>2, <4>1 DEF RunTest, RunTestOutcomes, TypeOK
        <5> QED
          BY <1>0, <2>3, <3>2, <4>1, <5>1 DEF RunTest, DoomedTest, TypeOK
      <4>2. CASE v # w
        BY <1>0, <2>3, <3>2, <4>2 DEF RunTest, DoomedTest, TypeOK
      <4> QED
        BY <4>1, <4>2
    <3> QED
      BY <3>1, <3>2 DEF DoomedTest
  <2>4. CASE Reports(w)
    <3>1. /\ logged' = logged \cup {current[w]}
          /\ testOutputs' = [x \in logged \cup {current[w]} |->
                IF x = current[w] THEN Recorded(current[w], result[w]) ELSE testOutputs[x]]
      BY <2>4 DEF Reports, LogTestOutputBegin, logged
    <3>2. CASE t \in queue /\ cancelled
      BY <2>4, <3>2 DEF Reports, DoomedTest
    <3>3. CASE t \in logged /\ testOutputs[t] # Passed
      BY <1>0, <3>1, <3>3 DEF Recorded, DoomedTest
    <3>4. ASSUME NEW v \in Workers, current[v] = t,
                 \/ workerPc[v] = "tempfile" /\ cancelled
                 \/ workerPc[v] = "running" /\ startedCancelled[v]
                 \/ workerPc[v] = "log" /\ result[v] # Passed
          PROVE  DoomedTest(t)'
      <4>1. CASE v = w
        BY <1>0, <2>4, <3>1, <3>4, <4>1 DEF Reports, Recorded, DoomedTest
      <4>2. CASE v # w
        BY <1>0, <2>4, <3>4, <4>2 DEF Reports, DoomedTest, TypeOK
      <4> QED
        BY <4>1, <4>2
    <3> QED
      BY <3>2, <3>3, <3>4 DEF DoomedTest
  <2> QED
    BY <1>4, <2>1, <2>2, <2>3, <2>4 DEF Moves
<1> QED
  BY <1>1, <1>2, <1>3, <1>4, StepKinds

\* After the verdict every test has been recorded.
LEMMA AllLoggedAfterWait ==
    ASSUME SchedulingInvariant, Parallelism > 0, AfterWait
    PROVE  logged = Tests /\ \A w \in Workers : workerPc[w] = "exited"
<1>1. \A w \in Workers : workerPc[w] = "exited"
  BY DEF SchedulingInvariant, MainFollowsWorkers
<1>2. 1 \in Workers
  BY ParallelizerAssumption DEF Workers
<1>3. queue = {} /\ \A w \in Workers : Held(w) = {}
  BY <1>1, <1>2 DEF SchedulingInvariant, WorkersLeaveDrainedQueue, Held
<1>4. UNION {Held(w) : w \in Workers} = {}
  BY <1>3
<1>5. queue \cup logged \cup UNION {Held(w) : w \in Workers} = Tests
  BY DEF SchedulingInvariant, RunOnce, AfterWait
<1> QED
  BY <1>1, <1>3, <1>4, <1>5

LEMMA DoomedNeverPasses ==
    ASSUME SchedulingInvariant, Parallelism > 0, NEW t \in Tests, DoomedTest(t), AfterVerdict
    PROVE  ~allTestsPassed
<1>1. logged = Tests /\ \A w \in Workers : workerPc[w] = "exited"
  BY AllLoggedAfterWait DEF AfterVerdict, AfterWait
<1>2. queue = {}
  BY <1>1 DEF SchedulingInvariant, RunOnce, TypeOK
<1>3. testOutputs[t] # Passed
  BY <1>1, <1>2 DEF DoomedTest
<1>4. testOutputs[t] \in Outcome
  BY <1>1 DEF SchedulingInvariant, TypeOK, ManagerTypeOK
<1>5. TestStatus(testOutputs[t]) # "PASSED"
  BY <1>3, <1>4, OnlyPassedPasses
<1> QED
  BY <1>1, <1>5 DEF SchedulingInvariant, MainFollowsWorkers, AllTestsPassed

\* A suite interrupted while tests were waiting is not reported as passed, with any
\* number of workers but zero: such a test is doomed, and stays so until it is recorded.
THEOREM CancelledSuiteDoesNotPass ==
    ASSUME Parallelism > 0
    PROVE  Spec => CancelledSuiteNeverPasses
<1> DEFINE Doomed == \E t \in Tests : DoomedTest(t)
<1>1. SchedulingInvariant /\ Doomed /\ [Next]_vars => Doomed'
  BY StaysDoomed
<1>2. SchedulingInvariant /\ cancelled /\ queue # {} => Doomed
  BY DEF SchedulingInvariant, TypeOK, DoomedTest
<1>3. SchedulingInvariant /\ Doomed => (AfterVerdict => ~allTestsPassed)
  BY DoomedNeverPasses
<1> HIDE DEF Doomed
<1> QED
  BY <1>1, <1>2, <1>3, SchedulingInvariantHolds, PTL DEF Spec, CancelledSuiteNeverPasses

-----------------------------------------------------------------------------
(* The refinement *)

\* A test that was started too late ends with an error.
LateEndsInError ==
    \A w \in Workers : workerPc[w] = "log" /\ startedCancelled[w] => result[w] = Errored

LEMMA LateEndsInErrorStep ==
    SchedulingInvariant /\ LateEndsInError /\ [Next]_vars => LateEndsInError'
<1> SUFFICES ASSUME SchedulingInvariant, LateEndsInError, [Next]_vars
             PROVE  LateEndsInError'
  OBVIOUS
<1>0. TypeOK
  BY DEF SchedulingInvariant
<1> USE DEF mainVars, workerVars, managerVars, MainStep, WorkerStep
<1>1. CASE LoadWorkQueue \/ GetAllTestsPassed
  BY <1>1 DEF LoadWorkQueue, GetAllTestsPassed, LateEndsInError
<1>2. CASE Unmoved
  BY <1>2 DEF Unmoved, Carrying, LateEndsInError
<1>3. ASSUME NEW w \in Workers, Moves(w)
      PROVE  LateEndsInError'
  <2>1. CASE ReceiveTest(w) \/ Reports(w)
    BY <1>0, <2>1 DEF ReceiveTest, Reports, LateEndsInError, TypeOK
  <2>2. CASE CreateTempfile(w)
    BY <1>0, <2>2 DEF CreateTempfile, LateEndsInError, TypeOK
  <2>3. CASE RunTest(w)
    BY <1>0, <2>3 DEF RunTest, RunTestOutcomes, LateEndsInError, TypeOK
  <2> QED
    BY <1>3, <2>1, <2>2, <2>3 DEF Moves
<1> QED
  BY <1>1, <1>2, <1>3, StepKinds

\* The phase of a test that a worker holds is told by that worker alone.
PhasesFit ==
    \A w \in Workers :
        /\ workerPc[w] \in {"running", "log"} =>
              PhaseOf(current[w]) = IF startedCancelled[w] THEN "doomed" ELSE "running"
        /\ workerPc[w] = "tempfile" => PhaseOf(current[w]) = "pending"
        /\ workerPc[w] \in Carrying => current[w] \in Tests \ logged

LEMMA PhasesAreOfCarriers == SchedulingInvariant => PhasesFit
<1> SUFFICES ASSUME SchedulingInvariant, NEW w \in Workers, workerPc[w] \in Carrying
             PROVE  /\ workerPc[w] \in {"running", "log"} =>
                          PhaseOf(current[w]) = IF startedCancelled[w] THEN "doomed" ELSE "running"
                    /\ workerPc[w] = "tempfile" => PhaseOf(current[w]) = "pending"
                    /\ current[w] \in Tests \ logged
  BY DEF PhasesFit, Carrying
<1>1. current[w] \in Tests \ logged
  BY DEF SchedulingInvariant, WorkersHoldTests, RunOnce, Held, Carrying
<1>2. \A v \in Workers \ {w} : workerPc[v] \in {"running", "log"} => current[v] # current[w]
  BY DEF SchedulingInvariant, RunOnce, Held, Carrying
<1>3. CASE workerPc[w] \in {"running", "log"}
  <2>1. Carrier(current[w]) = {w}
    BY <1>2, <1>3 DEF Carrier
  <2> QED
    BY <1>1, <1>3, <2>1 DEF PhaseOf
<1>4. CASE workerPc[w] = "tempfile"
  <2>1. Carrier(current[w]) = {}
    BY <1>2, <1>4 DEF Carrier
  <2> QED
    BY <1>1, <1>4, <2>1 DEF PhaseOf
<1> QED
  BY <1>1, <1>3, <1>4 DEF Carrying

\* A test that keeps its record and its carriers keeps its phase.
LEMMA PhaseStays ==
    ASSUME NEW t \in Tests,
           t \in logged' <=> t \in logged,
           t \in logged => testOutputs'[t] = testOutputs[t],
           \A v \in Workers : v \in Carrier(t)' <=> v \in Carrier(t),
           \A v \in Carrier(t) : startedCancelled'[v] = startedCancelled[v]
    PROVE  PhaseOf(t)' = PhaseOf(t)
<1>1. Carrier(t)' = Carrier(t)
  BY DEF Carrier
<1> QED
  BY <1>1 DEF PhaseOf

LEMMA StepImplements ==
    ASSUME Parallelism > 0, SchedulingInvariant, SchedulingInvariant', LateEndsInError,
           PhasesFit, PhasesFit', [Next]_vars
    PROVE  [Abstract!Next]_(Abstract!vars)
<1>0. TypeOK
  BY DEF SchedulingInvariant
<1> USE DEF mainVars, workerVars, managerVars, MainStep, WorkerStep
<1>1. ASSUME \A t \in Tests : PhaseOf(t)' = PhaseOf(t), VerdictOf' = VerdictOf,
             cancelled' = cancelled \/ cancelled' = TRUE
      PROVE  [Abstract!Next]_(Abstract!vars)
  BY <1>1 DEF Abstract!vars, Abstract!Next, Abstract!Cancel
<1>2. CASE LoadWorkQueue
  <2>1. \A t \in Tests : PhaseOf(t)' = PhaseOf(t)
    BY <1>2, PhaseStays DEF LoadWorkQueue, Carrier, logged
  <2>2. VerdictOf' = VerdictOf /\ cancelled' = cancelled
    BY <1>2 DEF LoadWorkQueue, VerdictOf, AfterVerdict
  <2> QED
    BY <1>1, <2>1, <2>2
<1>3. CASE Unmoved /\ (cancelled' = cancelled \/ cancelled' = TRUE)
  <2>1. \A t \in Tests : PhaseOf(t)' = PhaseOf(t)
    BY <1>3, PhaseStays DEF Unmoved, Carrying, Carrier, logged
  <2>2. VerdictOf' = VerdictOf
    BY <1>3 DEF Unmoved, VerdictOf
  <2> QED
    BY <1>1, <1>3, <2>1, <2>2
<1>4. CASE GetAllTestsPassed
  <2>1. \A t \in Tests : PhaseOf(t)' = PhaseOf(t)
    BY <1>4, PhaseStays DEF GetAllTestsPassed, LockAndUnlock, Carrier, logged
  <2>2. logged = Tests
    BY <1>4, AllLoggedAfterWait DEF GetAllTestsPassed, AfterWait
  <2>3. \A t \in Tests : PhaseOf(t) = TestStatus(testOutputs[t])
    BY <2>2 DEF PhaseOf
  <2>4. \A t \in Tests : PhaseOf(t) \in Statuses
    BY <2>3 DEF TestStatus, Statuses
  <2>5. VerdictOf = "none"
        /\ VerdictOf' = IF \A t \in Tests : PhaseOf(t) = "PASSED" THEN "passed" ELSE "failed"
    BY <1>4, <2>2, <2>3 DEF GetAllTestsPassed, VerdictOf, AfterVerdict, AllTestsPassed
  <2>6. cancelled' = cancelled
    BY <1>4 DEF GetAllTestsPassed
  <2>7. Abstract!Conclude
    BY <2>1, <2>4, <2>5, <2>6 DEF Abstract!Conclude, Statuses, Abstract!Statuses
  <2> QED
    BY <2>7 DEF Abstract!Next
<1>5. ASSUME NEW w \in Workers, Moves(w)
      PROVE  [Abstract!Next]_(Abstract!vars)
  <2>1. CASE ReceiveTest(w)
    <3>1. \A t \in Tests : PhaseOf(t)' = PhaseOf(t)
      BY <1>0, <2>1, PhaseStays DEF ReceiveTest, Carrier, logged, TypeOK
    <3>2. VerdictOf' = VerdictOf /\ cancelled' = cancelled
      BY <2>1 DEF ReceiveTest, VerdictOf, AfterVerdict
    <3> QED
      BY <1>1, <3>1, <3>2
  <2>2. CASE CreateTempfile(w)
    <3>1. /\ workerPc[w] = "tempfile" /\ workerPc'[w] \in {"running", "log"}
          /\ current' = current /\ startedCancelled'[w] = cancelled
          /\ cancelled' = cancelled /\ VerdictOf' = VerdictOf
      BY <1>0, <2>2 DEF CreateTempfile, TypeOK, VerdictOf, AfterVerdict
    <3>2. /\ current[w] \in Tests
          /\ PhaseOf(current[w]) = "pending"
          /\ PhaseOf(current[w])' = IF cancelled THEN "doomed" ELSE "running"
      BY <3>1 DEF PhasesFit, Carrying
    <3>3. \A t \in Tests \ {current[w]} : PhaseOf(t)' = PhaseOf(t)
      BY <1>0, <2>2, PhaseStays DEF CreateTempfile, Carrier, logged, TypeOK
    <3>4. Abstract!Start(current[w])
      BY <3>1, <3>2, <3>3 DEF Abstract!Start
    <3> QED
      BY <3>2, <3>4 DEF Abstract!Next
  <2>3. CASE RunTest(w)
    <3>1. \A t \in Tests : PhaseOf(t)' = PhaseOf(t)
      BY <1>0, <2>3, PhaseStays DEF RunTest, Carrier, logged, TypeOK
    <3>2. VerdictOf' = VerdictOf /\ cancelled' = cancelled
      BY <2>3 DEF RunTest, VerdictOf, AfterVerdict
    <3> QED
      BY <1>1, <3>1, <3>2
  <2>4. CASE Reports(w)
    <3> DEFINE status == TestStatus(result[w])
    <3>1. /\ workerPc[w] = "log" /\ cancelled' = cancelled /\ VerdictOf' = VerdictOf
          /\ current' = current /\ current[w] \in Tests \ logged
      BY <2>4 DEF Reports, VerdictOf, AfterVerdict, PhasesFit, Carrying
    <3>2. /\ logged' = logged \cup {current[w]}
          /\ testOutputs' = [x \in logged \cup {current[w]} |->
                IF x = current[w] THEN Recorded(current[w], result[w]) ELSE testOutputs[x]]
      BY <2>4 DEF Reports, LogTestOutputBegin, logged
    <3>3. PhaseOf(current[w])' = status /\ status \in Statuses
      BY <2>4, <3>1, <3>2 DEF Reports, PhaseOf, Recorded, TestStatus, Statuses
    <3>4. PhaseOf(current[w]) = IF startedCancelled[w] THEN "doomed" ELSE "running"
      BY <3>1 DEF PhasesFit
    <3>5. startedCancelled[w] => status = "ERRORED"
      BY <3>1 DEF LateEndsInError, TestStatus, Errored
    <3>6. \A t \in Tests \ {current[w]} : PhaseOf(t)' = PhaseOf(t)
      BY <1>0, <2>4, <3>2, PhaseStays DEF Reports, Carrier, TypeOK
    <3> HIDE DEF status
    <3>7. [t \in Tests |-> PhaseOf(t)']
          = [[t \in Tests |-> PhaseOf(t)] EXCEPT ![current[w]] = status]
      BY <3>1, <3>3, <3>6
    <3>8. \/ PhaseOf(current[w]) = "running"
          \/ PhaseOf(current[w]) = "doomed" /\ status = "ERRORED"
      BY <3>4, <3>5
    <3>9. Abstract!Report(current[w], status)
      BY <3>1, <3>7, <3>8 DEF Abstract!Report
    <3> QED
      BY <3>1, <3>3, <3>9 DEF Abstract!Next, Statuses, Abstract!Statuses
  <2> QED
    BY <1>5, <2>1, <2>2, <2>3, <2>4 DEF Moves
<1> QED
  BY <1>2, <1>3, <1>4, <1>5, StepKinds

\* With at least one worker every run of RunInParallelAndPrintResults is a run of SuiteRun:
\* each test started once and reported once, and the verdict that of them all.  (That the run
\* gets on is for TLC: see ImplementsSuiteRun.)
THEOREM RunImplementsSuiteRun ==
    ASSUME Parallelism > 0
    PROVE  Spec => Abstract!Spec
<1>1. Init => Abstract!Init
  <2> SUFFICES ASSUME Init PROVE Abstract!Init
    OBVIOUS
  <2>1. logged = {} /\ \A t \in Tests : Carrier(t) = {}
    BY DEF Init, NewManager, logged, Carrier
  <2> QED
    BY <2>1 DEF Init, Abstract!Init, PhaseOf, VerdictOf, AfterVerdict
<1>2. Init => LateEndsInError
  BY DEF Init, LateEndsInError
<1>3. /\ SchedulingInvariant /\ SchedulingInvariant' /\ LateEndsInError
      /\ PhasesFit /\ PhasesFit' /\ [Next]_vars
      => [Abstract!Next]_(Abstract!vars)
  BY StepImplements
<1> QED
  BY <1>1, <1>2, <1>3, SchedulingInvariantHolds, LateEndsInErrorStep, PhasesAreOfCarriers, PTL
  DEF Spec, Abstract!Spec
=============================================================================
