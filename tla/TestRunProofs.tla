---------------------------- MODULE TestRunProofs ----------------------------
(***************************************************************************)
(* What holds of initializer and controller together.  Neither process can *)
(* show it by itself: the initializer trusts an exit code, the controller  *)
(* does not know what is reported of it.                                   *)
(*                                                                         *)
(* The two processes have their own inductive invariants already.  A run   *)
(* of both is a run of each, so these hold, and OneEngine carries a fact   *)
(* about the controller over to what the initializer sees of it.           *)
(***************************************************************************)
EXTENDS TestRun, TestExecutorProofs

\* The theorems about TestController, for the controller of TestRun.
CtlProofs == INSTANCE TestControllerProofs WITH box <- svc

-----------------------------------------------------------------------------
(* A run of both is a run of each *)

LEMMA RunsTheExecutor == RunSpec => Spec
<1>1. RunInit => Init
  BY DEF RunInit
<1>2. [RunNext]_<<vars, ctlVars>> => [Next]_vars
  BY DEF RunNext
<1> QED
  BY <1>1, <1>2, PTL DEF RunSpec, Spec

\* CtlProofs has the definitions of TestController under names of its own.
LEMMA SameInit == Ctl!Init => CtlProofs!Init
  BY DEF
     Ctl!Ips, CtlProofs!Ips, Ctl!Threads, CtlProofs!Threads, Ctl!Idle, CtlProofs!Idle,
     Ctl!NewNetwork, CtlProofs!NewNetwork, Ctl!Init, CtlProofs!Init

LEMMA SameNext == Ctl!Next => CtlProofs!Next
  BY DEF
     Ctl!Ips, CtlProofs!Ips, Ctl!Threads, CtlProofs!Threads, Ctl!networkVars,
     CtlProofs!networkVars, Ctl!Idle, CtlProofs!Idle, Ctl!Registered, CtlProofs!Registered,
     Ctl!AddConfiguration, CtlProofs!AddConfiguration, Ctl!Build, CtlProofs!Build,
     Ctl!TakeAddress, CtlProofs!TakeAddress, Ctl!AddService, CtlProofs!AddService,
     Ctl!Container, CtlProofs!Container, Ctl!Proceed, CtlProofs!Proceed, Ctl!Leave,
     CtlProofs!Leave, Ctl!SetBox, CtlProofs!SetBox, Ctl!CreateContainer,
     CtlProofs!CreateContainer, Ctl!RequestStart, CtlProofs!RequestStart,
     Ctl!ServiceStarted, CtlProofs!ServiceStarted, Ctl!AddServiceFails,
     CtlProofs!AddServiceFails, Ctl!RemoveService, CtlProofs!RemoveService, Ctl!DeleteNode,
     CtlProofs!DeleteNode, Ctl!ServiceStopped, CtlProofs!ServiceStopped, Ctl!StopFails,
     CtlProofs!StopFails, Ctl!BeginRemoveAll, CtlProofs!BeginRemoveAll, Ctl!RemoveAllNext,
     CtlProofs!RemoveAllNext, Ctl!RemoveAllDone, CtlProofs!RemoveAllDone, Ctl!SetContainer,
     CtlProofs!SetContainer, Ctl!LandStart, CtlProofs!LandStart, Ctl!StartIsRefused,
     CtlProofs!StartIsRefused, Ctl!ServiceEnds, CtlProofs!ServiceEnds, Ctl!waitVars,
     CtlProofs!waitVars, Ctl!testVars, CtlProofs!testVars, Ctl!vars, CtlProofs!vars,
     Ctl!Alive, CtlProofs!Alive, Ctl!SetupFails, CtlProofs!SetupFails, Ctl!MakeBuilder,
     CtlProofs!MakeBuilder, Ctl!ConfigureFails, CtlProofs!ConfigureFails, Ctl!BuildNetwork,
     CtlProofs!BuildNetwork, Ctl!Return, CtlProofs!Return, Ctl!InitializeReturns,
     CtlProofs!InitializeReturns, Ctl!InitializeFails, CtlProofs!InitializeFails,
     Ctl!Waiting, CtlProofs!Waiting, Ctl!WaitForStartup, CtlProofs!WaitForStartup, Ctl!Poll,
     CtlProofs!Poll, Ctl!ProbeReturns, CtlProofs!ProbeReturns, Ctl!ProbePanics,
     CtlProofs!ProbePanics, Ctl!StartupDeadline, CtlProofs!StartupDeadline, Ctl!GiveUp,
     CtlProofs!GiveUp, Ctl!WrapFails, CtlProofs!WrapFails, Ctl!StartTest,
     CtlProofs!StartTest, Ctl!Recovered, CtlProofs!Recovered, Ctl!TestEnds,
     CtlProofs!TestEnds, Ctl!Crash, CtlProofs!Crash, Ctl!PanicWithNonError,
     CtlProofs!PanicWithNonError, Ctl!ReceiveResult, CtlProofs!ReceiveResult, Ctl!Timeout,
     CtlProofs!Timeout, Ctl!Exit, CtlProofs!Exit, Ctl!ConcurrentMapAccess,
     CtlProofs!ConcurrentMapAccess, Ctl!Killed, CtlProofs!Killed, Ctl!InUserCode,
     CtlProofs!InUserCode, Ctl!controllerVars, CtlProofs!controllerVars, Ctl!UserCalls,
     CtlProofs!UserCalls, Ctl!UserConfigures, CtlProofs!UserConfigures, Ctl!CallGoesOn,
     CtlProofs!CallGoesOn, Ctl!CallFails, CtlProofs!CallFails, Ctl!RemoveNext,
     CtlProofs!RemoveNext, Ctl!Engine, CtlProofs!Engine, Ctl!Setup, CtlProofs!Setup,
     Ctl!Initialize, CtlProofs!Initialize, Ctl!Wait, CtlProofs!Wait, Ctl!Probe,
     CtlProofs!Probe, Ctl!Main, CtlProofs!Main, Ctl!Test, CtlProofs!Test, Ctl!Died,
     CtlProofs!Died, Ctl!Finished, CtlProofs!Finished, Ctl!Next, CtlProofs!Next

LEMMA SameVars == UNCHANGED ctlVars => UNCHANGED CtlProofs!vars
  BY DEF ctlVars, CtlProofs!vars, CtlProofs!networkVars, CtlProofs!waitVars, CtlProofs!testVars

LEMMA RunsTheController == RunSpec => CtlProofs!Spec
<1>1. RunInit => CtlProofs!Init
  BY SameInit DEF RunInit
<1>2. [RunNext]_<<vars, ctlVars>> => [CtlProofs!Next]_(CtlProofs!vars)
  BY SameNext, SameVars DEF RunNext
<1> QED
  BY <1>1, <1>2, PTL DEF RunSpec, CtlProofs!Spec

LEMMA ControllerAssumption == CtlProofs!NetworkAssumption
  BY RunAssumption DEF CtlProofs!NetworkAssumption

\* The two facts about the controller that the verdicts rest on.
LEMMA ControllerKeepsItsWord ==
    RunSpec => [](Ctl!PassMeansTestSucceeded /\ Ctl!TornDownUnlessTimedOut)
<1>1. RunSpec => []CtlProofs!PassMeansTestSucceeded
  BY RunsTheController, ControllerAssumption, CtlProofs!PassAlwaysMeansTestSucceeded
<1>2. RunSpec => []CtlProofs!TornDownUnlessTimedOut
  BY RunsTheController, ControllerAssumption, CtlProofs!AlwaysTornDownUnlessTimedOut
<1>3. CtlProofs!PassMeansTestSucceeded => Ctl!PassMeansTestSucceeded
  BY DEF CtlProofs!PassMeansTestSucceeded, CtlProofs!ExitZero, Ctl!PassMeansTestSucceeded,
     Ctl!ExitZero
<1>4. CtlProofs!TornDownUnlessTimedOut => Ctl!TornDownUnlessTimedOut
  BY DEF CtlProofs!TornDownUnlessTimedOut, CtlProofs!Alive, CtlProofs!Up, CtlProofs!Ips,
     Ctl!TornDownUnlessTimedOut, Ctl!Alive, Ctl!Up, Ctl!Ips
<1> QED
  BY <1>1, <1>2, <1>3, <1>4, PTL

LEMMA EngineIsOne == RunSpec => []OneEngine
<1>1. RunInit => OneEngine
  BY ContainersApart, RunAssumption
     DEF RunInit, Init, OneEngine, Ctl!Init, Ctl!NewNetwork, Ctl!Ips
<1>2. OneEngine /\ [RunNext]_<<vars, ctlVars>> => OneEngine'
  <2>1. CASE RunNext
    BY <2>1 DEF RunNext
  <2>2. CASE OneEngine /\ UNCHANGED <<vars, ctlVars>>
    BY <2>2 DEF OneEngine, vars, ctlVars, engineVars, Ctl!ExitZero
  <2> QED
    BY <2>1, <2>2
<1> QED
  BY <1>1, <1>2, PTL DEF RunSpec

RunInvariant ==
    /\ InductiveInvariant /\ CtlProofs!InductiveInvariant
    /\ OneEngine
    /\ Ctl!PassMeansTestSucceeded /\ Ctl!TornDownUnlessTimedOut

LEMMA RunInvariantHolds == RunSpec => []RunInvariant
<1>1. RunSpec => []CtlProofs!InductiveInvariant
  BY RunsTheController, ControllerAssumption, CtlProofs!InvariantHolds
<1> QED
  BY <1>1, RunsTheExecutor, InvariantHolds, ControllerKeepsItsWord, EngineIsOne, PTL
     DEF RunInvariant

-----------------------------------------------------------------------------
(* Passed *)

\* A pass reported by the suite is a test that came to an end before both timeouts, without
\* a panic with an error, after its services were up: runTest passes on the exit code it read
\* from a stopped controller only, and the controller gives 0 only for such a test.  A test
\* stopped by a panic with nil is one of them: the code takes it for a success.
THEOREM PassedTestAlwaysEndedWithoutError == RunSpec => []PassedTestEndedWithoutError
<1>1. RunInvariant => PassedTestEndedWithoutError
  <2> SUFFICES ASSUME RunInvariant, runner = "returned", result = Passed
               PROVE  /\ testPc = "done" /\ panic \in {"none", "nil"}
                      /\ awaiting = {} /\ ~timedOut /\ ~overdue /\ ~crashed
    BY DEF PassedTestEndedWithoutError
  <2>1. ~overdue /\ gResult = Passed
    BY Results DEF RunInvariant, InductiveInvariant, RunnerFits
  <2>2. box[Controller] = "stopped" /\ exitCode = 0
    BY <2>1, Results DEF RunInvariant, InductiveInvariant, VerdictFits
  <2>3. Ctl!ExitZero
    BY <2>2 DEF RunInvariant, OneEngine
  <2>4. panic \in {"none", "nil", "error"}
    BY DEF RunInvariant, CtlProofs!InductiveInvariant, CtlProofs!TypeOK
  <2> QED
    BY <2>1, <2>3, <2>4 DEF RunInvariant, Ctl!PassMeansTestSucceeded, Ctl!ExitZero
<1> QED
  BY <1>1, RunInvariantHolds, PTL

-----------------------------------------------------------------------------
(* Nothing is left *)

Unharmed == ~faulted /\ forgotten = {} /\ ~timedOut /\ ~crashed

\* From the verdict on the controller has exited, with all its services stopped.
LEMMA VerdictIsQuiet ==
    ASSUME RunInvariant, gResult # Errored
    PROVE  ~Ctl!Alive /\ (Unharmed => Running = {} /\ Ctl!Up = {})
<1>1. box[Controller] = "stopped" /\ ~Ctl!Alive
  BY DEF RunInvariant, InductiveInvariant, VerdictFits, OneEngine, Ctl!Alive
<1>2. Unharmed => Ctl!Up = {}
  BY <1>1 DEF RunInvariant, Ctl!TornDownUnlessTimedOut, Unharmed
<1>3. Ctl!Up = {} => \A s \in Services : box[s] # "running"
  BY RunAssumption DEF RunInvariant, OneEngine, Ctl!Up, Ctl!Ips
<1> QED
  BY <1>1, <1>2, <1>3 DEF Running, Containers

\* The network is removed with the goroutine's last step and not created again.
NetworkIsGone == Unharmed /\ gResult # Errored /\ g \in {"send", "finished"} => network = "removed"

LEMMA FaultsStay ==
    ASSUME TypeOK, [Next]_vars, faulted
    PROVE  faulted'
<1>1. CASE Sends \/ Aborts \/ Advances
  BY <1>1 DEF Sends, Aborts, Advances
<1>2. CASE Removes
  BY <1>2 DEF Removes, InspectNetwork, StopContainer, RemoveNetwork, RemovalFails, Removing
<1>3. CASE Runner \/ UNCHANGED vars
  BY <1>3 DEF Runner, ReceiveResult, HardTimeout, GraceExpires, Return, vars
<1>4. CASE Outside
  BY <1>4 DEF Outside, LandStray, CancelSuite, ProcessEnds, RequestService, LandService,
     StopService, ControllerExit
<1> QED
  BY <1>1, <1>2, <1>3, <1>4, StepKinds

\* The goroutine has a verdict as soon as it has read the exit code, and no other way.
LEMMA NewVerdict ==
    ASSUME InductiveInvariant, [Next]_vars, gResult = Errored, gResult' # Errored
    PROVE  g' = "readLog"
<1>1. CASE Sends \/ Aborts \/ Advances
  BY <1>1 DEF Sends, Aborts, Abort, Advances, NameChecked, NetworkCreated, GetsOn, VerdictRead,
     LogRead
<1>2. CASE Removes
  BY <1>2 DEF Removes, InspectNetwork, StopContainer, RemoveNetwork, RemovalFails, Removing
<1>3. CASE Runner \/ UNCHANGED vars
  BY <1>3 DEF Runner, ReceiveResult, HardTimeout, GraceExpires, Return, goroutineVars, vars
<1>4. CASE Outside
  BY <1>4 DEF Outside, LandStray, CancelSuite, ProcessEnds, RequestService, LandService,
     StopService, ControllerExit, outside
<1> QED
  BY <1>1, <1>2, <1>3, <1>4, StepKinds

\* A step of the executor with Running = {}: the removal succeeds, and what was removed
\* stays so, since a verdict is never followed by a request for a network.
LEMMA ExecutorKeepsItGone ==
    ASSUME InductiveInvariant, [Next]_vars, ~faulted', gResult' # Errored,
           gResult # Errored => Running = {},
           ~faulted /\ gResult # Errored /\ g \in {"send", "finished"} => network = "removed",
           g' \in {"send", "finished"}
    PROVE  network' = "removed"
<1> USE DEF InductiveInvariant, runnerVars, engineVars
<1>1. CASE Sends \/ Advances
  BY <1>1 DEF Sends, Advances, NameChecked, NetworkCreated, GetsOn, VerdictRead, LogRead,
     BeforeVerdict, VerdictFits, Ended
<1>2. CASE Aborts
  BY <1>2 DEF Aborts, Abort
<1>3. CASE Removes
  BY <1>3 DEF Removes, InspectNetwork, StopContainer, RemoveNetwork, RemovalFails, Removing
<1>4. CASE Runner \/ UNCHANGED vars
  BY <1>4 DEF Runner, ReceiveResult, HardTimeout, GraceExpires, Return, goroutineVars, vars
<1>5. CASE Outside
  <2> USE DEF outside
  <2>1. CASE LandStray
    BY <2>1 DEF LandStray, StraysFit
  <2>2. CASE CancelSuite \/ ProcessEnds
    BY <2>2 DEF CancelSuite, ProcessEnds
  <2>3. CASE \E s \in Services : RequestService(s) \/ LandService(s) \/ StopService(s)
    BY <2>3 DEF RequestService, LandService, StopService, Starts
  <2>4. CASE \E code \in {0, 1} : ControllerExit(code)
    BY <2>4 DEF ControllerExit
  <2> QED
    BY <1>5, <2>1, <2>2, <2>3, <2>4 DEF Outside
<1> QED
  BY <1>1, <1>2, <1>3, <1>4, <1>5, StepKinds

LEMMA NetworkStaysGone ==
    ASSUME RunInvariant, NetworkIsGone, [RunNext]_<<vars, ctlVars>>
    PROVE  NetworkIsGone'
<1> SUFFICES ASSUME Unharmed', gResult' # Errored, g' \in {"send", "finished"}
             PROVE  network' = "removed"
  BY DEF NetworkIsGone
<1>1. [Next]_vars /\ [CtlProofs!Next]_(CtlProofs!vars)
  BY SameNext, SameVars DEF RunNext
<1>2. CASE gResult = Errored
  BY <1>1, <1>2, NewVerdict DEF RunInvariant
<1>3. CASE gResult # Errored
  <2>1. ~CtlProofs!Alive
    BY <1>3, VerdictIsQuiet DEF CtlProofs!Alive, Ctl!Alive
  <2>2. UNCHANGED <<forgotten, timedOut, crashed>>
    BY <1>1, <2>1, ControllerAssumption, CtlProofs!NothingChangesAfterExit
  <2>3. faulted => faulted'
    BY <1>1, FaultsStay DEF RunInvariant, InductiveInvariant
  <2>4. Unharmed
    BY <2>2, <2>3 DEF Unharmed
  <2>5. Running = {}
    BY <1>3, <2>4, VerdictIsQuiet
  <2> QED
    BY <1>1, <2>4, <2>5, ExecutorKeepsItGone DEF RunInvariant, NetworkIsGone, Unharmed
<1> QED
  BY <1>2, <1>3

\* Whenever the test goroutine has a verdict to report, no service and no network is left,
\* unless a call of its own failed, or the controller forgot a container, timed out or died:
\* the controller had stopped its services by then, so the engine did not refuse to remove
\* the network.
THEOREM VerdictAlwaysLeavesNothing == RunSpec => []VerdictLeavesNothing
<1>1. RunInit => NetworkIsGone
  BY DEF RunInit, Init, NetworkIsGone
<1>2. RunInvariant /\ NetworkIsGone /\ [RunNext]_<<vars, ctlVars>> => NetworkIsGone'
  BY NetworkStaysGone
<1>3. RunInvariant /\ NetworkIsGone => VerdictLeavesNothing
  BY VerdictIsQuiet, Results DEF NetworkIsGone, VerdictLeavesNothing, Unharmed
<1> QED
  BY <1>1, <1>2, <1>3, RunInvariantHolds, PTL DEF RunSpec

-----------------------------------------------------------------------------
(* The initializer's model lets the controller do whatever it does *)

\* The service containers as the controller keeps them, in the initializer's terms.
Seen == [s \in Services |-> IF svc[s] = "created" THEN "none" ELSE svc[s]]

Exits == Ctl!Alive /\ ~Ctl!Alive'

\* It would break the contract: a fault of the controller, to the initializer.
LeavesServices ==
    Exits /\ Ctl!ExitZero' /\ \E s \in Services : box[s] \in {"requested", "running"}

\* What becomes of the initializer's state when only the controller moves.
SeenByInitializer ==
    /\ box' = [c \in Containers |->
                  IF c # Controller THEN Seen'[c]
                  ELSE IF Ctl!Alive' THEN box[c] ELSE "stopped"]
    /\ exitCode' = IF Exits THEN IF Ctl!ExitZero' THEN 0 ELSE 1 ELSE exitCode
    /\ missed' = missed \cup
          {s \in Services : /\ g \in {"stopping", "send", "finished", "killed"}
                           /\ Seen[s] = "requested" /\ Seen'[s] = "running"}
    /\ faulted' = (faulted \/ LeavesServices)
    /\ UNCHANGED <<outside, g, cancelled, network, stray>>

\* The engine starts a container that was requested if the network is there, and only then.
EngineHeedsNetwork ==
    \A s \in Services : Seen[s] = "requested" =>
        /\ Seen'[s] = "running" => network = "exists"
        /\ Seen'[s] = "stopped" => network # "exists"

Becomes(s, from, to) == Seen[s] = from /\ Seen' = [Seen EXCEPT ![s] = to]

\* What a step of the controller comes to, by the contract it implements.
LEMMA ControllerMoves ==
    ASSUME CtlProofs!InductiveInvariant, [CtlProofs!Next]_(CtlProofs!vars)
    PROVE  \/ UNCHANGED <<Seen, Ctl!Alive, Ctl!ExitZero>>
           \/ Exits /\ UNCHANGED Seen
           \/ /\ UNCHANGED <<Ctl!Alive, Ctl!ExitZero>>
              /\ \E s \in Services :
                    \/ Ctl!Alive /\ Becomes(s, "none", "requested")
                    \/ Becomes(s, "requested", "running") \/ Becomes(s, "requested", "stopped")
                    \/ Becomes(s, "running", "stopped")
<1>1. [CtlProofs!Contract!Next]_(CtlProofs!Contract!vars)
  BY ControllerAssumption, CtlProofs!InvariantKept, CtlProofs!StepImplements
<1> QED
  BY <1>1, RunAssumption
     DEF CtlProofs!Contract!Next, CtlProofs!Contract!vars, CtlProofs!Contract!RequestService,
         CtlProofs!Contract!LandService, CtlProofs!Contract!StopService,
         CtlProofs!Contract!Become, CtlProofs!Contract!Fault, CtlProofs!Contract!Exit,
         CtlProofs!Ips, CtlProofs!Alive, CtlProofs!ExitZero, Ctl!Alive, Ctl!ExitZero,
         Seen, Exits, Becomes

\* TestRun leaves out no step of the controller because the initializer's model of it is too
\* narrow: from any state of a run, once its container runs, whatever RunTest, the test and
\* the services do is a step of both, if the engine heeds the network.
THEOREM InitializerAllowsTheController ==
    ASSUME RunInvariant, Ctl!Next,
           Ctl!Alive => box[Controller] = "running",
           EngineHeedsNetwork, SeenByInitializer
    PROVE  RunNext
<1> USE ContainersApart DEF SeenByInitializer, Containers
<1>1. CtlProofs!InductiveInvariant /\ [CtlProofs!Next]_(CtlProofs!vars)
  BY SameNext DEF RunInvariant
<1>2. /\ \A s \in Services : box[s] = Seen[s] /\ box'[s] = Seen'[s]
      /\ box \in [Containers -> {"none", "created", "requested", "running", "stopped"}]
      /\ faulted \in BOOLEAN
  BY DEF RunInvariant, OneEngine, Seen, InductiveInvariant, TypeOK
<1>3. ~Ctl!Alive <=> box[Controller] = "stopped"
  BY DEF RunInvariant, OneEngine, Ctl!Alive
<1>4. Ctl!Alive' => Ctl!Alive
  BY <1>1, ControllerMoves DEF Exits
<1>5. box'[Controller] = IF Ctl!Alive' THEN "running" ELSE "stopped"
  BY <1>4
<1>6. OneEngine'
  <2>1. \A s \in Services : box'[s] = (IF svc'[s] = "created" THEN "none" ELSE svc'[s])
    BY <1>2 DEF Seen
  <2>2. ~Ctl!Alive' => (exitCode' = 0 <=> Ctl!ExitZero')
    <3>1. CASE Exits
      BY <3>1
    <3>2. CASE ~Exits
      BY <1>1, <1>3, <3>2, ControllerMoves DEF Exits, RunInvariant, OneEngine
    <3> QED
      BY <3>1, <3>2
  <2> QED
    BY <1>5, <2>1, <2>2 DEF OneEngine, Ctl!Alive
<1>7. Next \/ UNCHANGED vars
  <2>1. CASE UNCHANGED <<Seen, Ctl!Alive, Ctl!ExitZero>>
    <3>1. box' = box
      BY <1>2, <1>3, <1>5, <2>1 DEF RunInvariant, OneEngine, Ctl!Alive
    <3>2. ~Exits
      BY <2>1 DEF Exits
    <3>3. UNCHANGED <<exitCode, missed, faulted>>
      BY <1>2, <2>1, <3>2 DEF LeavesServices
    <3> QED
      BY <3>1, <3>3 DEF vars, outside, goroutineVars, engineVars
  <2>2. CASE Exits /\ UNCHANGED Seen
    <3>1. box' = [box EXCEPT ![Controller] = "stopped"]
      BY <1>2, <2>2 DEF Exits
    <3>2. missed' = missed
      BY <2>2
    <3>3. box[Controller] = "running"
      BY <2>2 DEF Exits
    <3>4. CASE Ctl!ExitZero'
      <4>1. ControllerExit(0)
        BY <2>2, <3>1, <3>2, <3>3, <3>4 DEF LeavesServices, ControllerExit
      <4> QED
        BY <4>1 DEF Next, Outside
    <3>5. CASE ~Ctl!ExitZero'
      <4>1. faulted' = faulted
        BY <1>2, <3>5 DEF LeavesServices
      <4>2. exitCode' = 1
        BY <2>2, <3>5
      <4>3. ControllerExit(1)
        <5>1. \A left : faulted' = (faulted \/ (1 = 0 /\ left))
          BY <1>2, <4>1
        <5> QED
          BY <3>1, <3>2, <3>3, <4>2, <5>1 DEF ControllerExit
      <4> QED
        BY <4>3 DEF Next, Outside
    <3> QED
      BY <3>4, <3>5
  <2>3. ASSUME UNCHANGED <<Ctl!Alive, Ctl!ExitZero>>, NEW s \in Services,
               \/ Ctl!Alive /\ Becomes(s, "none", "requested")
               \/ Becomes(s, "requested", "running") \/ Becomes(s, "requested", "stopped")
               \/ Becomes(s, "running", "stopped")
        PROVE  Next
    <3>1. UNCHANGED <<exitCode, faulted>>
      BY <1>2, <2>3 DEF Exits, LeavesServices
    <3>2. \A to : Seen' = [Seen EXCEPT ![s] = to] => box' = [box EXCEPT ![s] = to]
      BY <1>2, <1>3, <2>3 DEF Seen
    <3>3. CASE Ctl!Alive /\ Becomes(s, "none", "requested")
      <4>1. missed' = missed
        BY <3>3 DEF Becomes, Seen
      <4> QED
        BY <1>2, <3>1, <3>2, <3>3, <4>1 DEF Becomes, RequestService, Next, Outside
    <3>4. CASE Becomes(s, "requested", "running")
      <4>1. network = "exists"
        BY <3>4 DEF EngineHeedsNetwork, Becomes, Seen
      <4>2. missed' = IF g \in {"stopping", "send", "finished", "killed"}
                      THEN missed \cup {s} ELSE missed
        BY <3>4 DEF Becomes, Seen
      <4> QED
        BY <1>2, <3>1, <3>2, <3>4, <4>1, <4>2 DEF Becomes, LandService, Starts, Next, Outside
    <3>5. CASE Becomes(s, "requested", "stopped")
      <4>1. network # "exists"
        BY <3>5 DEF EngineHeedsNetwork, Becomes, Seen
      <4>2. missed' = missed
        BY <3>5 DEF Becomes, Seen
      <4> QED
        BY <1>2, <3>1, <3>2, <3>5, <4>1, <4>2 DEF Becomes, LandService, Next, Outside
    <3>6. CASE Becomes(s, "running", "stopped")
      <4>1. missed' = missed
        BY <3>6 DEF Becomes, Seen
      <4> QED
        BY <1>2, <3>1, <3>2, <3>6, <4>1 DEF Becomes, StopService, Next, Outside
    <3> QED
      BY <2>3, <3>3, <3>4, <3>5, <3>6
  <2> QED
    BY <1>1, <2>1, <2>2, <2>3, ControllerMoves
<1> QED
  BY <1>6, <1>7 DEF RunNext

-----------------------------------------------------------------------------
(* The controller's model lets the initializer do whatever it does *)

\* A step that is not the free controller's of TestExecutor.
InitializerStep == Runner \/ Goroutine \/ Faults \/ LandStray \/ CancelSuite \/ ProcessEnds

\* What becomes of the controller's state: a container that was stopped has ended, and a
\* controller that was has died.
SeenByController ==
    /\ svc' = [c \in Ctl!Ips |-> IF box'[c] = box[c] THEN svc[c] ELSE box'[c]]
    /\ IF box'[Controller] = "stopped" /\ Ctl!Alive
       THEN mainPc' = "exited" /\ crashed' = TRUE
       ELSE UNCHANGED <<mainPc, crashed>>
    /\ UNCHANGED <<builderConfigurations, configurations, serviceNodes, handedOut, frame,
                   toRemove, forgotten, outcome, awaiting, polling, probing, expired, testPc,
                   panic, timedOut>>

\* What the initializer does to containers.
LEMMA InitializerMoves ==
    ASSUME InductiveInvariant, InitializerStep
    PROVE  \/ UNCHANGED <<box, exitCode>>
           \/ /\ box[Controller] \in {"none", "created"}
              /\ \E to \in {"created", "running"} : box' = [box EXCEPT ![Controller] = to]
              /\ UNCHANGED exitCode
           \/ \E c \in Containers :
                 /\ box[c] = "running" /\ box' = [box EXCEPT ![c] = "stopped"]
                 /\ exitCode' = IF c = Controller THEN 1 ELSE exitCode
<1>1. TypeOK /\ StartedOnce /\ ListedWasStarted
  BY DEF InductiveInvariant
<1>2. CASE Sends \/ Aborts \/ Runner \/ CancelSuite \/ ProcessEnds
  BY <1>2 DEF Sends, Aborts, Runner, ReceiveResult, HardTimeout, GraceExpires, CancelSuite,
     ProcessEnds, engineVars
<1>3. CASE Advances
  BY <1>1, <1>3 DEF Advances, NameChecked, NetworkCreated, GetsOn, VerdictRead, LogRead,
     engineVars, StartedOnce, BeforeContainer, BeforeVerdict
<1>4. CASE LandStray
  BY <1>1, <1>4 DEF LandStray, Starts, engineVars, StartedOnce
<1>5. CASE StopContainer
  <2>1. PICK c \in toStop :
            /\ box' = [box EXCEPT ![c] = "stopped"]
            /\ exitCode' = IF c = Controller /\ box[c] = "running" THEN 1 ELSE exitCode
    BY <1>5 DEF StopContainer
  <2>2. c \in Containers /\ box[c] \in {"running", "stopped"}
    BY <1>1 DEF TypeOK, ListedWasStarted
  <2>3. CASE box[c] = "stopped"
    BY <1>1, <2>1, <2>3 DEF TypeOK
  <2> QED
    BY <2>1, <2>2, <2>3
<1>6. CASE InspectNetwork \/ RemoveNetwork \/ RemovalFails
  BY <1>6 DEF InspectNetwork, RemoveNetwork, RemovalFails
<1> QED
  BY <1>2, <1>3, <1>4, <1>5, <1>6, CallKinds DEF InitializerStep, Goroutine, Faults

\* Nor does it leave out a step of the initializer: whatever runTest, its goroutine and
\* the requests it abandoned do in a state of a run is a step of both.  A controller that
\* has exited by itself is stopped with its exit code kept, or its model would be in the way.
THEOREM ControllerAllowsTheInitializer ==
    ASSUME RunInvariant, InitializerStep, SeenByController
    PROVE  RunNext
<1> USE ContainersApart, RunAssumption DEF SeenByController, Ctl!Ips
<1>1. InductiveInvariant /\ OneEngine /\ (Ctl!Alive <=> box[Controller] # "stopped")
  BY DEF RunInvariant, OneEngine, Ctl!Alive
<1>2. Next
  BY DEF InitializerStep, Next, Outside
<1>3. svc \in [Ctl!Ips -> {"none", "created", "requested", "running", "stopped"}]
  BY DEF RunInvariant, CtlProofs!InductiveInvariant, CtlProofs!TypeOK, CtlProofs!NetworkTypeOK,
     CtlProofs!Ips
<1>4. box \in [Containers -> {"none", "created", "requested", "running", "stopped"}]
  BY <1>1 DEF InductiveInvariant, TypeOK
<1>5. CASE UNCHANGED <<box, exitCode>>
  <2>1. UNCHANGED ctlVars
    BY <1>1, <1>3, <1>5 DEF ctlVars
  <2> QED
    BY <1>1, <1>2, <1>5, <2>1 DEF RunNext, OneEngine, Ctl!ExitZero, ctlVars
<1>6. ASSUME box[Controller] \in {"none", "created"}, UNCHANGED exitCode,
             NEW to \in {"created", "running"}, box' = [box EXCEPT ![Controller] = to]
      PROVE  RunNext
  <2>1. \A s \in Services : box'[s] = box[s]
    BY <1>4, <1>6
  <2>2. box'[Controller] \in {"created", "running"}
    BY <1>4, <1>6
  <2>3. UNCHANGED ctlVars
    BY <1>3, <2>1, <2>2 DEF ctlVars
  <2>4. mainPc = "setup"
    BY <1>1, <1>6 DEF OneEngine
  <2>5. OneEngine'
    BY <1>1, <2>1, <2>2, <2>3, <2>4 DEF OneEngine, ctlVars
  <2> QED
    BY <1>2, <2>3, <2>5 DEF RunNext
<1>7. ASSUME NEW s \in Services, box[s] = "running", box' = [box EXCEPT ![s] = "stopped"],
             UNCHANGED exitCode
      PROVE  RunNext
  <2>1. box'[Controller] = box[Controller]
    BY <1>4, <1>7
  <2>2. svc[s] = "running" /\ svc' = [svc EXCEPT ![s] = "stopped"]
    BY <1>1, <1>3, <1>4, <1>7 DEF OneEngine
  <2>3. UNCHANGED <<mainPc, crashed>>
    BY <1>1, <2>1
  <2>4. Ctl!ServiceEnds(s) /\ UNCHANGED Ctl!controllerVars
    BY <2>2, <2>3 DEF Ctl!ServiceEnds, Ctl!SetContainer, Ctl!controllerVars, Ctl!waitVars,
       Ctl!testVars
  <2>5. Ctl!Next
    BY <2>4 DEF Ctl!Next, Ctl!Engine
  <2>6. OneEngine'
    BY <1>1, <1>3, <1>4, <1>7, <2>1, <2>2, <2>3 DEF OneEngine, Ctl!ExitZero
  <2> QED
    BY <1>2, <2>5, <2>6 DEF RunNext
<1>8. ASSUME box[Controller] = "running", box' = [box EXCEPT ![Controller] = "stopped"],
             exitCode' = 1
      PROVE  RunNext
  <2>1. box'[Controller] = "stopped" /\ \A s \in Services : box'[s] = box[s]
    BY <1>4, <1>8
  <2>2. Ctl!Alive /\ mainPc' = "exited" /\ crashed' = TRUE /\ svc' = svc
    BY <1>1, <1>3, <1>8, <2>1
  <2>3. Ctl!Killed
    BY <2>2 DEF Ctl!Killed, Ctl!Crash, Ctl!networkVars, Ctl!waitVars, Ctl!testVars
  <2>4. Ctl!Next
    BY <2>3 DEF Ctl!Next, Ctl!Died
  <2>5. OneEngine'
    BY <1>1, <1>8, <2>1, <2>2 DEF OneEngine, Ctl!ExitZero
  <2> QED
    BY <1>2, <2>4, <2>5 DEF RunNext
<1> QED
  BY <1>1, <1>5, <1>6, <1>7, <1>8, InitializerMoves DEF Containers
=============================================================================
