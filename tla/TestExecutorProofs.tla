-------------------------- MODULE TestExecutorProofs --------------------------
(***************************************************************************)
(* The inductive invariant of TestExecutor and what follows from it.       *)
(*                                                                         *)
(* The many calls of the test goroutine come to a few kinds of steps       *)
(* (StepKinds): a request is sent, a call ends in an error, or the         *)
(* goroutine gets on.  The proofs go by these kinds.                       *)
(***************************************************************************)
EXTENDS TestExecutor, TLAPS

Body == BeforeNetwork \cup BeforeVerdict \cup {"readLog"}

\* A request is sent.
Sends ==
    /\ ~asked /\ ~cancelled /\ asked' = TRUE
    /\ UNCHANGED <<runnerVars, cancelled, bornCancelled, g, gResult, netKnown, toStop, removal,
                   ctlLog, engineVars, stray, faulted>>

\* A call is refused, abandoned, or fails.
Aborts ==
    /\ g \in Body
    /\ Abort
    /\ asked' = asked \/ asked' = FALSE
    /\ faulted' = faulted \/ faulted' = TRUE
    /\ \/ stray' = stray
       \/ /\ asked /\ (cancelled \/ faulted')
          /\ stray' \subseteq stray \cup ({g} \cap LastingRequests)
    /\ UNCHANGED <<runnerVars, cancelled, bornCancelled, engineVars>>

NameChecked ==
    /\ g = "checkName" /\ g' = "createNetwork"
    /\ UNCHANGED <<gResult, netKnown, ctlLog, engineVars>>

NetworkCreated ==
    /\ g = "createNetwork" /\ g' = "controllerIp" /\ asked
    /\ netKnown' = TRUE /\ network' = "exists"
    /\ UNCHANGED <<gResult, ctlLog, box, exitCode, missed>>

GetsOn ==
    /\ g \in BeforeVerdict \ {"waitExit"} /\ g' \in BeforeVerdict
    /\ ctlLog' \in {ctlLog, "exists"}
    /\ \/ /\ {g, g'} \subseteq BeforeContainer \/ (g = "connect" /\ g' = "startContainer")
          /\ box' = box
       \/ /\ g = "createContainer" /\ g' = "connect"
          /\ box' = [box EXCEPT ![Controller] = "created"]
       \/ /\ g = "startContainer" /\ g' = "waitExit"
          /\ box' = [box EXCEPT ![Controller] = "running"]
    /\ UNCHANGED <<gResult, netKnown, network, exitCode, missed>>

VerdictRead ==
    /\ g = "waitExit" /\ g' = "readLog" /\ box[Controller] = "stopped"
    /\ gResult' = IF exitCode = 0 THEN Passed ELSE Failed
    /\ UNCHANGED <<netKnown, ctlLog, engineVars>>

LogRead ==
    /\ g = "readLog" /\ g' = "inspect" /\ ctlLog' = "removed"
    /\ UNCHANGED <<gResult, netKnown, engineVars>>

\* A call succeeds.
Advances ==
    /\ NameChecked \/ NetworkCreated \/ GetsOn \/ VerdictRead \/ LogRead
    /\ asked' = asked \/ asked' = FALSE
    /\ UNCHANGED <<runnerVars, cancelled, bornCancelled, toStop, removal, stray, faulted>>

Removes == InspectNetwork \/ StopContainer \/ RemoveNetwork \/ RemovalFails

LEMMA CallKinds ==
    ASSUME \/ CheckNetworkName \/ CreateNetwork \/ GetControllerIp \/ CreateVolume
           \/ CreateLogTempfile \/ GenerateEnvVariables \/ ListImages \/ PullImage
           \/ CheckNetworkId \/ CreateContainer \/ ConnectToNetwork \/ StartContainer
           \/ WaitForExit \/ ReadControllerLog \/ CallFails
    PROVE  Sends \/ Aborts \/ Advances
<1> USE DEF Body, BeforeNetwork, BeforeVerdict, BeforeContainer, engineVars
<1> DEFINE Bound == g \in BoundCalls /\ UNCHANGED <<runnerVars, cancelled, bornCancelled, faulted>>
<1>1. ASSUME Bound, Refuse PROVE Aborts
  BY <1>1 DEF Refuse, Aborts, BoundCalls
<1>2. ASSUME Bound, Send PROVE Sends
  BY <1>2 DEF Send, Sends, BoundCalls
<1>3. ASSUME Bound, Abandon(g) PROVE Aborts
  BY <1>3 DEF Abandon, Aborts, BoundCalls
<1>4. CASE CheckNetworkName
  BY <1>4 DEF CheckNetworkName, UnboundCall, Advance, Advances, NameChecked
<1>5. CASE CreateNetwork
  <2>1. CASE g = "createNetwork" /\ Bound /\ (Refuse \/ Send \/ Abandon(g))
    BY <1>1, <1>2, <1>3, <2>1
  <2>2. CASE asked /\ asked' = FALSE /\ NetworkCreated /\ UNCHANGED <<runnerVars, cancelled,
                  bornCancelled, toStop, removal, stray, faulted>>
    BY <2>2 DEF Advances
  <2> QED
    BY <1>5, <2>1, <2>2 DEF CreateNetwork, BoundCall, Advance, NetworkCreated, BoundCalls
<1>6. CASE GetControllerIp \/ GenerateEnvVariables
  BY <1>6 DEF GetControllerIp, GenerateEnvVariables, Advance, Advances, GetsOn, Aborts
<1>7. CASE CreateVolume \/ PullImage \/ CreateContainer \/ StartContainer
  <2>1. CASE Bound /\ (Refuse \/ Send \/ Abandon(g))
    BY <1>1, <1>2, <1>3, <2>1
  <2>2. CASE asked /\ asked' = FALSE /\ GetsOn /\ UNCHANGED <<runnerVars, cancelled,
                  bornCancelled, toStop, removal, stray, faulted>>
    BY <2>2 DEF Advances
  <2> QED
    BY <1>7, <2>1, <2>2 DEF CreateVolume, PullImage, CreateContainer, StartContainer, Starts,
       BoundCall, Advance, GetsOn, BoundCalls
<1>8. CASE CreateLogTempfile \/ ListImages \/ ConnectToNetwork
  BY <1>8 DEF CreateLogTempfile, ListImages, ConnectToNetwork, UnboundCall, Advance, Advances,
     GetsOn
<1>9. CASE CheckNetworkId
  BY <1>9 DEF CheckNetworkId, UnboundCall, Advance, Advances, GetsOn, Aborts, Abort
<1>10. CASE WaitForExit
  <2>1. CASE Bound /\ (Refuse \/ Send \/ Abandon(g))
    BY <1>1, <1>2, <1>3, <2>1
  <2>2. CASE asked /\ asked' = FALSE /\ VerdictRead /\ UNCHANGED <<runnerVars, cancelled,
                  bornCancelled, toStop, removal, stray, faulted>>
    BY <2>2 DEF Advances
  <2> QED
    BY <1>10, <2>1, <2>2 DEF WaitForExit, BoundCall, VerdictRead, BoundCalls
<1>11. CASE ReadControllerLog
  BY <1>11 DEF ReadControllerLog, UnboundCall, Advance, Advances, LogRead
<1>12. CASE CallFails
  BY <1>12 DEF CallFails, Aborts, UnboundCalls, BoundCalls, LastingRequests
<1> QED
  BY <1>4, <1>5, <1>6, <1>7, <1>8, <1>9, <1>10, <1>11, <1>12

LEMMA StepKinds ==
    ASSUME [Next]_vars
    PROVE  \/ Sends \/ Aborts \/ Advances \/ Removes \/ Runner \/ Outside
           \/ UNCHANGED vars
  BY CallKinds DEF Next, Goroutine, Faults, Returned, Removes

-----------------------------------------------------------------------------
(* Types *)

LEMMA Results ==
    /\ Passed \in Outcome /\ Failed \in Outcome /\ Errored \in Outcome
    /\ Passed # Failed /\ Passed # Errored /\ Failed # Errored
  BY DEF Passed, Failed, Errored, Outcome

LEMMA ContainersApart == Controller \in Containers /\ \A s \in Services : s \in Containers /\ s # Controller
  BY ExecutorAssumption DEF Containers

LEMMA TypesKept ==
    ASSUME TypeOK, [Next]_vars
    PROVE  TypeOK'
<1> USE Results, ContainersApart
    DEF TypeOK, GoroutinePcs, engineVars, runnerVars, BeforeNetwork, BeforeVerdict
<1>1. CASE Sends
  BY <1>1 DEF Sends
<1>2. CASE Aborts
  BY <1>2 DEF Aborts, Abort, LastingRequests
<1>3. CASE Advances
  <2>1. CASE GetsOn
    <3>1. box' \in [Containers -> {"none", "created", "requested", "running", "stopped"}]
      BY <2>1 DEF GetsOn
    <3>2. UNCHANGED <<runner, result, overdue, cancelled, bornCancelled, toStop, removal,
                      stray, faulted, gResult, netKnown, network, exitCode, missed>>
      BY <1>3, <2>1 DEF Advances, GetsOn
    <3>3. asked' \in BOOLEAN /\ ctlLog' \in {"none", "exists", "removed"} /\ g' \in GoroutinePcs
      BY <1>3, <2>1 DEF Advances, GetsOn
    <3> QED
      BY <3>1, <3>2, <3>3
  <2> QED
    BY <1>3, <2>1 DEF Advances, NameChecked, NetworkCreated, VerdictRead, LogRead
<1>4. CASE Removes
  BY <1>4 DEF Removes, InspectNetwork, StopContainer, RemoveNetwork, RemovalFails, Removing, Running
<1>5. CASE Runner
  BY <1>5 DEF Runner, ReceiveResult, HardTimeout, GraceExpires, Return, goroutineVars
<1>6. CASE Outside
  <2> USE DEF outside
  <2>1. CASE LandStray
    BY <2>1 DEF LandStray, Starts
  <2>2. CASE CancelSuite \/ ProcessEnds
    BY <2>2 DEF CancelSuite, ProcessEnds
  <2>3. CASE \E s \in Services : RequestService(s) \/ LandService(s) \/ StopService(s)
    BY <2>3 DEF RequestService, LandService, StopService, Starts
  <2>4. CASE \E code \in {0, 1} : ControllerExit(code)
    BY <2>4 DEF ControllerExit
  <2> QED
    BY <1>6, <2>1, <2>2, <2>3, <2>4 DEF Outside
<1>7. CASE UNCHANGED vars
  BY <1>7 DEF vars, goroutineVars
<1> QED
  BY <1>1, <1>2, <1>3, <1>4, <1>5, <1>6, <1>7, StepKinds

-----------------------------------------------------------------------------
(* The goroutine and the runner *)

LEMMA GoroutineFitsKept ==
    ASSUME TypeOK, GoroutineFits, RemovalAttemptedIffNetworkKnown, [Next]_vars
    PROVE  GoroutineFits' /\ RemovalAttemptedIffNetworkKnown'
<1> USE DEF GoroutineFits, RemovalAttemptedIffNetworkKnown, TypeOK, BeforeNetwork, BeforeVerdict,
            Cleanup, Ended, engineVars, runnerVars
<1>1. CASE Sends
  BY <1>1 DEF Sends
<1>2. CASE Aborts
  BY <1>2 DEF Aborts, Abort, Body
<1>3. CASE Advances
  BY <1>3 DEF Advances, NameChecked, NetworkCreated, GetsOn, VerdictRead, LogRead
<1>4. CASE Removes
  BY <1>4 DEF Removes, InspectNetwork, StopContainer, RemoveNetwork, RemovalFails, Removing
<1>5. CASE Runner
  BY <1>5 DEF Runner, ReceiveResult, HardTimeout, GraceExpires, Return, goroutineVars
<1>6. CASE Outside
  BY <1>6 DEF Outside, LandStray, CancelSuite, ProcessEnds, RequestService, LandService,
     StopService, ControllerExit, outside
<1>7. CASE UNCHANGED vars
  BY <1>7 DEF vars, goroutineVars
<1> QED
  BY <1>1, <1>2, <1>3, <1>4, <1>5, <1>6, <1>7, StepKinds

LEMMA RunnerFitsKept ==
    ASSUME TypeOK, RunnerFits, [Next]_vars
    PROVE  RunnerFits'
<1> USE Results DEF RunnerFits, TypeOK, BeforeNetwork, BeforeVerdict, Cleanup, Ended, runnerVars
<1>1. CASE Sends
  BY <1>1 DEF Sends
<1>2. CASE Aborts
  BY <1>2 DEF Aborts, Abort, Body
<1>3. CASE Advances
  BY <1>3 DEF Advances, NameChecked, NetworkCreated, GetsOn, VerdictRead, LogRead
<1>4. CASE Removes
  BY <1>4 DEF Removes, InspectNetwork, StopContainer, RemoveNetwork, RemovalFails, Removing
<1>5. CASE Runner
  BY <1>5 DEF Runner, ReceiveResult, HardTimeout, GraceExpires, Return, goroutineVars
<1>6. CASE Outside
  BY <1>6 DEF Outside, LandStray, CancelSuite, ProcessEnds, RequestService, LandService,
     StopService, ControllerExit, outside
<1>7. CASE UNCHANGED vars
  BY <1>7 DEF vars, goroutineVars
<1> QED
  BY <1>1, <1>2, <1>3, <1>4, <1>5, <1>6, <1>7, StepKinds

LEMMA StraysFitKept ==
    ASSUME TypeOK, GoroutineFits, StraysFit, NetworkKnownUnlessAbandoned, [Next]_vars
    PROVE  StraysFit' /\ NetworkKnownUnlessAbandoned'
<1> USE DEF StraysFit, NetworkKnownUnlessAbandoned, GoroutineFits, TypeOK, BeforeNetwork,
            BeforeVerdict, engineVars, runnerVars
<1>1. CASE Sends
  BY <1>1 DEF Sends
<1>2. CASE Aborts
  <2>1. (cancelled \/ faulted => cancelled' \/ faulted') /\ gResult' = Errored
    BY <1>2 DEF Aborts, Abort
  <2>2. stray' # {} => cancelled' \/ faulted'
    <3>1. CASE stray' = stray
      BY <2>1, <3>1
    <3>2. CASE cancelled \/ faulted'
      BY <1>2, <3>2 DEF Aborts
    <3> QED
      BY <1>2, <3>1, <3>2 DEF Aborts
  <2>3. UNCHANGED <<network, netKnown>>
    BY <1>2 DEF Aborts, Abort
  <2> QED
    BY <2>1, <2>2, <2>3
<1>3. CASE Advances
  BY <1>3 DEF Advances, NameChecked, NetworkCreated, GetsOn, VerdictRead, LogRead
<1>4. CASE Removes
  BY <1>4 DEF Removes, InspectNetwork, StopContainer, RemoveNetwork, RemovalFails, Removing
<1>5. CASE Runner
  BY <1>5 DEF Runner, ReceiveResult, HardTimeout, GraceExpires, Return, goroutineVars
<1>6. CASE Outside
  <2>1. CASE LandStray
    BY <2>1 DEF LandStray, outside
  <2> QED
    BY <1>6, <2>1 DEF Outside, CancelSuite, ProcessEnds, RequestService, LandService,
       Starts, StopService, ControllerExit, outside
<1>7. CASE UNCHANGED vars
  BY <1>7 DEF vars, goroutineVars
<1> QED
  BY <1>1, <1>2, <1>3, <1>4, <1>5, <1>6, <1>7, StepKinds

-----------------------------------------------------------------------------
(* The verdict *)

LEMMA VerdictFitsKept ==
    ASSUME TypeOK, GoroutineFits, StraysFit, VerdictFits, SuccessIsQuiet, [Next]_vars
    PROVE  VerdictFits'
<1> USE Results DEF VerdictFits
<1>1. CASE Sends
  BY <1>1 DEF Sends, engineVars
<1>2. CASE Aborts
  BY <1>2 DEF Aborts, Abort
<1>3. CASE Advances
  <2>1. CASE NameChecked \/ NetworkCreated \/ GetsOn
    <3>1. gResult' = Errored
      BY <2>1 DEF NameChecked, NetworkCreated, GetsOn, GoroutineFits, BeforeNetwork, BeforeVerdict
    <3> QED
      BY <3>1
  <2>2. CASE VerdictRead
    BY <1>3, <2>2 DEF Advances, VerdictRead, GoroutineFits, BeforeVerdict, Cleanup, Ended, engineVars
  <2>3. CASE LogRead
    BY <1>3, <2>3 DEF Advances, LogRead, Cleanup, Ended, engineVars
  <2> QED
    BY <1>3, <2>1, <2>2, <2>3 DEF Advances
<1>4. CASE Removes
  <2> USE DEF Cleanup, Ended
  <2>1. CASE InspectNetwork
    BY <2>1 DEF InspectNetwork, Removing, Running
  <2>2. CASE StopContainer
    BY <2>2, ContainersApart DEF StopContainer, Removing, TypeOK
  <2>3. CASE RemoveNetwork
    <3>1. gResult = Passed /\ ~faulted => Running = {}
      BY <2>3 DEF RemoveNetwork, SuccessIsQuiet, Running, Containers
    <3> QED
      BY <2>3, <3>1 DEF RemoveNetwork, Removing
  <2>4. CASE RemovalFails
    BY <2>4 DEF RemovalFails, Removing
  <2> QED
    BY <1>4, <2>1, <2>2, <2>3, <2>4 DEF Removes
<1>5. CASE Runner
  BY <1>5 DEF Runner, ReceiveResult, HardTimeout, GraceExpires, Return, goroutineVars, engineVars,
     Cleanup, Ended
<1>6. CASE Outside
  <2>1. CASE LandStray
    BY <2>1 DEF LandStray, outside, StraysFit
  <2>2. CASE CancelSuite \/ ProcessEnds
    BY <2>2 DEF CancelSuite, ProcessEnds, outside, engineVars, Cleanup, Ended
  <2>3. CASE \E s \in Services : RequestService(s) \/ LandService(s) \/ StopService(s)
    BY <2>3, ContainersApart DEF RequestService, LandService, StopService, Starts, outside, TypeOK
  <2>4. CASE \E code \in {0, 1} : ControllerExit(code)
    BY <2>4 DEF ControllerExit, outside
  <2> QED
    BY <1>6, <2>1, <2>2, <2>3, <2>4 DEF Outside
<1>7. CASE UNCHANGED vars
  BY <1>7 DEF vars, goroutineVars, engineVars
<1> QED
  BY <1>1, <1>2, <1>3, <1>4, <1>5, <1>6, <1>7, StepKinds

LEMMA SuccessIsQuietKept ==
    ASSUME TypeOK, SuccessIsQuiet, ListedWasStarted, [Next]_vars
    PROVE  SuccessIsQuiet'
<1> USE ContainersApart DEF SuccessIsQuiet
<1>1. CASE Sends
  BY <1>1 DEF Sends, engineVars
<1>2. CASE Aborts
  BY <1>2 DEF Aborts, engineVars
<1>3. CASE Advances
  <2>1. CASE GetsOn
    <3>1. box' = box \/ box'[Controller] \in {"created", "running"}
      BY <2>1 DEF GetsOn, TypeOK
    <3> QED
      BY <1>3, <2>1, <3>1 DEF Advances, GetsOn
  <2> QED
    BY <1>3, <2>1 DEF Advances, NameChecked, NetworkCreated, VerdictRead, LogRead, engineVars
<1>4. CASE Removes
  <2>1. CASE StopContainer
    <3>1. PICK c \in toStop :
              /\ box' = [box EXCEPT ![c] = "stopped"]
              /\ exitCode' = IF c = Controller /\ box[c] = "running" THEN 1 ELSE exitCode
      BY <2>1 DEF StopContainer
    <3>2. faulted' = faulted /\ box[c] \in {"running", "stopped"}
      BY <2>1 DEF StopContainer, Removing, ListedWasStarted
    <3> QED
      BY <3>1, <3>2 DEF TypeOK
  <2> QED
    BY <1>4, <2>1 DEF Removes, InspectNetwork, RemoveNetwork, RemovalFails, Removing
<1>5. CASE Runner
  BY <1>5 DEF Runner, ReceiveResult, HardTimeout, GraceExpires, engineVars
<1>6. CASE Outside
  <2>1. CASE LandStray
    <3>1. UNCHANGED <<exitCode, faulted>>
      BY <2>1 DEF LandStray, Starts, engineVars
    <3>2. box' = box \/ box'[Controller] \in {"created", "running"}
      BY <2>1 DEF LandStray, Starts, engineVars, TypeOK
    <3> QED
      BY <3>1, <3>2
  <2>2. CASE CancelSuite \/ ProcessEnds
    BY <2>2 DEF CancelSuite, ProcessEnds, engineVars
  <2>3. CASE \E s \in Services : RequestService(s) \/ LandService(s) \/ StopService(s)
    <3>1. PICK s \in Services : RequestService(s) \/ LandService(s) \/ StopService(s)
      BY <2>3
    <3>2. UNCHANGED <<exitCode, faulted>> /\ box'[Controller] = box[Controller]
      BY <3>1 DEF RequestService, LandService, StopService, Starts, TypeOK
    <3>3. CASE RequestService(s)
      BY <3>2, <3>3 DEF RequestService
    <3>4. CASE LandService(s)
      BY <3>2, <3>4 DEF LandService
    <3>5. CASE StopService(s)
      BY <3>2, <3>5 DEF StopService, TypeOK
    <3> QED
      BY <3>1, <3>3, <3>4, <3>5
  <2>4. CASE \E code \in {0, 1} : ControllerExit(code)
    <3>1. PICK code \in {0, 1} : ControllerExit(code)
      BY <2>4
    <3>2. code = 0 /\ ~faulted' => ~\E s \in Services : box[s] \in {"requested", "running"}
      BY <3>1 DEF ControllerExit
    <3> QED
      BY <3>1, <3>2 DEF ControllerExit, TypeOK
  <2> QED
    BY <1>6, <2>1, <2>2, <2>3, <2>4 DEF Outside
<1>7. CASE UNCHANGED vars
  BY <1>7 DEF vars, engineVars
<1> QED
  BY <1>1, <1>2, <1>3, <1>4, <1>5, <1>6, <1>7, StepKinds

-----------------------------------------------------------------------------
(* A test whose suite was cancelled before *)

LEMMA BornCancelledKept ==
    ASSUME TypeOK, GoroutineFits, BornCancelledFits, CancelledTestTouchesNothing, [Next]_vars
    PROVE  BornCancelledFits' /\ CancelledTestTouchesNothing'
<1> USE ContainersApart DEF BornCancelledFits, CancelledTestTouchesNothing
<1>0. bornCancelled' = bornCancelled
  BY StepKinds DEF Sends, Aborts, Advances, Removes, InspectNetwork, StopContainer, RemoveNetwork,
     RemovalFails, Removing, Runner, ReceiveResult, HardTimeout, GraceExpires, Outside, LandStray,
     CancelSuite, ProcessEnds, RequestService, LandService, StopService, ControllerExit, outside,
     vars
<1> SUFFICES ASSUME bornCancelled
             PROVE  BornCancelledFits' /\ CancelledTestTouchesNothing'
  BY <1>0
<1>1. ~Sends
  BY DEF Sends
<1>2. CASE Aborts
  BY <1>2 DEF Aborts, Abort, Ended, engineVars
<1>3. CASE Advances
  BY <1>3 DEF Advances, NameChecked, NetworkCreated, GetsOn, VerdictRead, LogRead, engineVars,
     BeforeNetwork, BeforeVerdict, Ended
<1>4. ~Removes
  BY DEF Removes, InspectNetwork, StopContainer, RemoveNetwork, RemovalFails, BeforeNetwork, Ended
<1>5. CASE Runner
  <2>1. /\ cancelled' /\ (g' = g \/ g' = "finished")
        /\ UNCHANGED <<asked, netKnown, stray, gResult, engineVars>>
    BY <1>5 DEF Runner, ReceiveResult, HardTimeout, GraceExpires, Return, goroutineVars
  <2> QED
    BY <2>1 DEF engineVars, Ended
<1>6. CASE Outside
  <2>1. ~LandStray
    BY DEF LandStray
  <2>2. \A s \in Services : ~RequestService(s) /\ ~LandService(s) /\ ~StopService(s)
    BY DEF RequestService, LandService, StopService
  <2>3. \A code : ~ControllerExit(code)
    BY DEF ControllerExit
  <2>4. /\ cancelled' /\ (g' = g \/ g' = "killed")
        /\ UNCHANGED <<asked, netKnown, stray, gResult, engineVars>>
    BY <1>6, <2>1, <2>2, <2>3 DEF Outside, CancelSuite, ProcessEnds, outside
  <2> QED
    BY <2>4 DEF engineVars, Ended
<1>7. CASE UNCHANGED vars
  BY <1>7 DEF vars, goroutineVars, engineVars
<1> QED
  BY <1>1, <1>2, <1>3, <1>4, <1>5, <1>6, <1>7, StepKinds

-----------------------------------------------------------------------------
(* What RemoveNetwork has to stop *)

LEMMA EveryRunningIsListedKept ==
    ASSUME TypeOK, EveryRunningIsListed, [Next]_vars
    PROVE  EveryRunningIsListed'
<1> USE DEF EveryRunningIsListed
<1>1. CASE Sends
  BY <1>1 DEF Sends, engineVars, Running
<1>2. CASE Aborts \/ Advances
  <2>1. g' # "stopping"
    BY <1>2 DEF Aborts, Abort, Advances, NameChecked, NetworkCreated, GetsOn, VerdictRead, LogRead,
       BeforeVerdict
  <2> QED
    BY <2>1
<1>3. CASE Removes
  BY <1>3 DEF Removes, InspectNetwork, StopContainer, RemoveNetwork, RemovalFails, Removing,
     Running, TypeOK
<1>4. CASE Runner
  BY <1>4 DEF Runner, ReceiveResult, HardTimeout, GraceExpires, goroutineVars, engineVars, Running
<1>5. CASE Outside
  <2>1. CASE UNCHANGED <<g, toStop>> /\ \E c \in Containers : Starts(c)
    BY <2>1 DEF Starts, Running, TypeOK
  <2>2. CASE /\ UNCHANGED <<g, toStop, missed>>
             /\ \/ box' = box
                \/ \E c \in Containers, state \in {"created", "requested", "stopped"} :
                      box' = [box EXCEPT ![c] = state]
    <3>1. Running' \subseteq Running
      BY <2>2 DEF Running, TypeOK
    <3> QED
      BY <2>2, <3>1
  <2>3. CASE LandStray
    BY <2>1, <2>2, <2>3, ContainersApart DEF LandStray, outside, engineVars
  <2>4. CASE ProcessEnds
    BY <2>4 DEF ProcessEnds
  <2>5. CASE CancelSuite \/ \E code \in {0, 1} : ControllerExit(code)
    BY <2>2, <2>5, ContainersApart DEF CancelSuite, ControllerExit, outside, engineVars
  <2>6. CASE \E s \in Services : RequestService(s) \/ LandService(s) \/ StopService(s)
    BY <2>1, <2>2, <2>6, ContainersApart DEF RequestService, LandService, StopService, outside
  <2> QED
    BY <1>5, <2>3, <2>4, <2>5, <2>6 DEF Outside
<1>6. CASE UNCHANGED vars
  BY <1>6 DEF vars, goroutineVars, engineVars, Running
<1> QED
  BY <1>1, <1>2, <1>3, <1>4, <1>5, <1>6, StepKinds

LEMMA ListedWasStartedKept ==
    ASSUME TypeOK, GoroutineFits, StartedOnce, ListedWasStarted, [Next]_vars
    PROVE  ListedWasStarted'
<1> USE DEF ListedWasStarted
<1>1. CASE Sends \/ UNCHANGED vars
  BY <1>1 DEF Sends, vars, goroutineVars, engineVars
<1>2. CASE Aborts \/ Advances
  <2>1. toStop' = {}
    BY <1>2 DEF Aborts, Abort, Advances, GoroutineFits, Body, Cleanup, Ended, BeforeNetwork,
       BeforeVerdict, NameChecked, NetworkCreated, GetsOn, VerdictRead, LogRead
  <2> QED
    BY <2>1
<1>3. CASE Removes
  BY <1>3 DEF Removes, InspectNetwork, StopContainer, RemoveNetwork, RemovalFails, Removing,
     Running, TypeOK
<1>4. CASE Runner
  BY <1>4 DEF Runner, ReceiveResult, HardTimeout, GraceExpires, goroutineVars, engineVars
<1>5. CASE Outside
  <2> USE DEF outside, TypeOK
  <2>1. CASE LandStray
    BY <2>1 DEF LandStray, Starts, StartedOnce, engineVars
  <2>2. CASE CancelSuite \/ ProcessEnds
    BY <2>2 DEF CancelSuite, ProcessEnds, engineVars
  <2>3. CASE \E s \in Services : RequestService(s) \/ LandService(s) \/ StopService(s)
    BY <2>3, ContainersApart DEF RequestService, LandService, StopService, Starts
  <2>4. CASE \E code \in {0, 1} : ControllerExit(code)
    BY <2>4 DEF ControllerExit
  <2> QED
    BY <1>5, <2>1, <2>2, <2>3, <2>4 DEF Outside
<1> QED
  BY <1>1, <1>2, <1>3, <1>4, <1>5, StepKinds

LEMMA StartedOnceKept ==
    ASSUME TypeOK, GoroutineFits, StartedOnce, ListedWasStarted, [Next]_vars
    PROVE  StartedOnce'
<1> USE ContainersApart
    DEF StartedOnce, BeforeContainer, BeforeNetwork, BeforeVerdict, TypeOK, engineVars
<1>1. CASE Sends \/ UNCHANGED vars
  BY <1>1 DEF Sends, vars, goroutineVars
<1>2. CASE Aborts
  <2>1. box' = box /\ g' \in {"inspect", "send"}
    BY <1>2 DEF Aborts, Abort
  <2>2. stray' \subseteq stray \cup {g}
    BY <1>2 DEF Aborts
  <2> QED
    BY <2>1, <2>2
<1>3. CASE Advances
  <2>1. stray' = stray
    BY <1>3 DEF Advances
  <2>2. CASE NameChecked \/ NetworkCreated \/ VerdictRead \/ LogRead
    BY <2>1, <2>2 DEF NameChecked, NetworkCreated, VerdictRead, LogRead
  <2>3. CASE GetsOn
    <3>1. stray = {}
      BY <2>3 DEF GetsOn, GoroutineFits
    <3> QED
      BY <2>1, <2>3, <3>1 DEF GetsOn
  <2> QED
    BY <1>3, <2>2, <2>3 DEF Advances
<1>4. CASE Removes
  BY <1>4 DEF Removes, InspectNetwork, StopContainer, RemoveNetwork, RemovalFails, Removing,
     ListedWasStarted
<1>5. CASE Runner
  BY <1>5 DEF Runner, ReceiveResult, HardTimeout, GraceExpires, goroutineVars
<1>6. CASE Outside
  <2> USE DEF outside
  <2>1. CASE LandStray
    <3>1. g \notin BeforeNetwork \cup BeforeVerdict
      BY <2>1 DEF LandStray, GoroutineFits
    <3> QED
      BY <2>1, <3>1 DEF LandStray, Starts
  <2>2. CASE CancelSuite \/ ProcessEnds
    BY <2>2 DEF CancelSuite, ProcessEnds
  <2>3. CASE \E s \in Services : RequestService(s) \/ LandService(s) \/ StopService(s)
    BY <2>3 DEF RequestService, LandService, StopService, Starts
  <2>4. CASE \E code \in {0, 1} : ControllerExit(code)
    BY <2>4 DEF ControllerExit
  <2> QED
    BY <1>6, <2>1, <2>2, <2>3, <2>4 DEF Outside
<1> QED
  BY <1>1, <1>2, <1>3, <1>4, <1>5, <1>6, StepKinds

-----------------------------------------------------------------------------
(* Theorems *)

LEMMA InitiallyHolds ==
    ASSUME Init
    PROVE  InductiveInvariant
<1>1. TypeOK
  BY Results, ExecutorAssumption DEF Init, TypeOK, GoroutinePcs
<1>2. GoroutineFits /\ RemovalAttemptedIffNetworkKnown
  BY DEF Init, GoroutineFits, RemovalAttemptedIffNetworkKnown, BeforeNetwork, BeforeVerdict,
     Cleanup, Ended
<1>3. RunnerFits /\ StraysFit /\ VerdictFits /\ NetworkKnownUnlessAbandoned
  BY Results DEF Init, RunnerFits, StraysFit, VerdictFits, NetworkKnownUnlessAbandoned
<1>4. SuccessIsQuiet /\ CancelledTestTouchesNothing
  BY ContainersApart DEF Init, SuccessIsQuiet, CancelledTestTouchesNothing
<1>5. BornCancelledFits /\ EveryRunningIsListed
  BY DEF Init, BornCancelledFits, EveryRunningIsListed, BeforeNetwork
<1>6. StartedOnce /\ ListedWasStarted
  BY ContainersApart DEF Init, StartedOnce, ListedWasStarted
<1> QED
  BY <1>1, <1>2, <1>3, <1>4, <1>5, <1>6 DEF InductiveInvariant

\* The invariant of runTest, its goroutine and the engine holds in every state, for
\* any number of services, whether or not the suite may be cancelled.
THEOREM InvariantHolds == Spec => []InductiveInvariant
<1>1. Init => InductiveInvariant
  BY InitiallyHolds
<1>2. InductiveInvariant /\ [Next]_vars => InductiveInvariant'
  BY TypesKept, GoroutineFitsKept, RunnerFitsKept, StraysFitKept, VerdictFitsKept,
     SuccessIsQuietKept, BornCancelledKept, EveryRunningIsListedKept, StartedOnceKept,
     ListedWasStartedKept DEF InductiveInvariant
<1> QED
  BY <1>1, <1>2, PTL DEF Spec

\* The variables have their types.
THEOREM TypeCorrect == Spec => []TypeOK
<1>1. InductiveInvariant => TypeOK
  BY DEF InductiveInvariant
<1> QED
  BY <1>1, InvariantHolds, PTL

\* runTest gives its worker what the parallel executor's model takes for granted: one
\* of the three outcomes, and the error only if the suite was cancelled before.
THEOREM AlwaysReturnsAllowedOutcome == Spec => []ReturnsAllowedOutcome
<1>1. InductiveInvariant => ReturnsAllowedOutcome
  BY Results DEF InductiveInvariant, RunnerFits, BornCancelledFits, ReturnsAllowedOutcome,
     RunTestOutcomes
<1> QED
  BY <1>1, InvariantHolds, PTL

\* A pass is never one that came after the hard timeout: its result was taken before, from a
\* controller that had ended by itself with exit code 0, after an attempt to remove the network.
THEOREM PassedAlwaysMeansControllerSucceeded == Spec => []PassedMeansControllerSucceeded
<1>1. InductiveInvariant => PassedMeansControllerSucceeded
  <2> SUFFICES ASSUME InductiveInvariant, runner = "returned", result = Passed
               PROVE  /\ ~overdue
                      /\ box[Controller] = "stopped" /\ exitCode = 0 /\ removal # "none"
    BY DEF PassedMeansControllerSucceeded
  <2>1. ~overdue /\ gResult = Passed /\ g = "finished"
    BY Results DEF InductiveInvariant, RunnerFits
  <2>2. box[Controller] = "stopped" /\ exitCode = 0
    BY <2>1, Results DEF InductiveInvariant, VerdictFits
  <2>3. removal # "none"
    BY <2>1, Results DEF InductiveInvariant, VerdictFits, RemovalAttemptedIffNetworkKnown
  <2> QED
    BY <2>1, <2>2, <2>3
<1> QED
  BY <1>1, InvariantHolds, PTL

\* A passed test without a failed call leaves no network, no container up, no request
\* in the air and no tempfile.
THEOREM PassedTestAlwaysLeavesNothing == Spec => []PassedTestLeavesNothing
<1>1. InductiveInvariant => PassedTestLeavesNothing
  <2> SUFFICES ASSUME InductiveInvariant, ~faulted, runner = "returned", result = Passed
               PROVE  /\ network = "removed"
                      /\ \A c \in Containers : box[c] \notin {"requested", "running"}
                      /\ stray = {} /\ ctlLog = "removed"
    BY DEF PassedTestLeavesNothing
  <2>1. gResult = Passed /\ g = "finished" /\ gResult # Errored
    BY Results DEF InductiveInvariant, RunnerFits
  <2>2. box[Controller] = "stopped" /\ exitCode = 0 /\ network = "removed" /\ ctlLog = "removed"
    BY <2>1 DEF InductiveInvariant, VerdictFits
  <2>3. \A c \in Containers : box[c] \notin {"requested", "running"}
    BY <2>2 DEF InductiveInvariant, SuccessIsQuiet, Containers
  <2> QED
    BY <2>1, <2>2, <2>3 DEF InductiveInvariant, StraysFit
<1> QED
  BY <1>1, InvariantHolds, PTL

\* Whichever call fails, a goroutine that got a network's ID ends only after an
\* attempt to remove the network.
THEOREM RemovalAlwaysAttemptedIffNetworkKnown == Spec => []RemovalAttemptedIffNetworkKnown
<1>1. InductiveInvariant => RemovalAttemptedIffNetworkKnown
  BY DEF InductiveInvariant
<1> QED
  BY <1>1, InvariantHolds, PTL

\* A test that a worker takes from the queue after the cancellation of the suite has
\* no effect on the engine.
THEOREM CancelledTestNeverTouchesAnything == Spec => []CancelledTestTouchesNothing
<1>1. InductiveInvariant => CancelledTestTouchesNothing
  BY DEF InductiveInvariant
<1> QED
  BY <1>1, InvariantHolds, PTL

\* A network without anybody to remove it comes of a cancelled or failed call only.
THEOREM NetworkAlwaysKnownUnlessAbandoned == Spec => []NetworkKnownUnlessAbandoned
<1>1. InductiveInvariant => NetworkKnownUnlessAbandoned
  BY DEF InductiveInvariant
<1> QED
  BY <1>1, InvariantHolds, PTL

\* Cancelling the context at the hard timeout does stop the goroutine from asking Docker
\* for more on behalf of the test.
THEOREM NeverAnythingNewAfterTimeout == Spec => NothingNewAfterTimeout
<1>1. InductiveInvariant /\ [Next]_vars => [runner # "waiting" => (asked' => asked)]_vars
  <2> SUFFICES ASSUME InductiveInvariant, [Next]_vars, runner # "waiting", ~asked
               PROVE  ~asked'
    OBVIOUS
  <2>1. cancelled
    BY DEF InductiveInvariant, RunnerFits
  <2>2. ~Sends
    BY <2>1 DEF Sends
  <2> QED
    BY <2>2, StepKinds DEF Aborts, Advances, Removes, InspectNetwork, StopContainer,
       RemoveNetwork, RemovalFails, Removing, Runner, ReceiveResult, HardTimeout, GraceExpires,
       goroutineVars, Outside, LandStray, CancelSuite, ProcessEnds, RequestService, LandService,
       StopService, ControllerExit, outside, vars
<1> QED
  BY <1>1, InvariantHolds, PTL DEF Spec, NothingNewAfterTimeout

\* A removal that fails while the engine works was defeated by a container that
\* started after RemoveNetwork made its list, and by nothing else.
THEOREM RefusalsOnlyForMissedContainers == Spec => RefusedOnlyForMissedContainer
<1>1. InductiveInvariant /\ [Next]_vars =>
        [removal' = "failed" /\ removal = "none" => faulted' \/ missed \cap Running # {}]_vars
  <2> SUFFICES ASSUME InductiveInvariant, [Next]_vars, removal' = "failed", removal = "none"
               PROVE  faulted' \/ missed \cap Running # {}
    OBVIOUS
  <2>1. RemoveNetwork \/ RemovalFails
    BY StepKinds DEF Sends, Aborts, Abort, Advances, Removes, InspectNetwork, StopContainer,
       Removing, Runner, ReceiveResult, HardTimeout, GraceExpires, goroutineVars, Outside,
       LandStray, CancelSuite, ProcessEnds, RequestService, LandService, StopService,
       ControllerExit, outside, vars
  <2>2. CASE RemoveNetwork
    <3>1. g = "stopping" /\ toStop = {} /\ Running # {}
      BY <2>2 DEF RemoveNetwork, Removing
    <3>2. Running \subseteq missed
      BY <3>1 DEF InductiveInvariant, EveryRunningIsListed
    <3> QED
      BY <3>1, <3>2
  <2>3. CASE RemovalFails
    BY <2>3 DEF RemovalFails
  <2> QED
    BY <2>1, <2>2, <2>3
<1> QED
  BY <1>1, InvariantHolds, PTL DEF Spec, RefusedOnlyForMissedContainer
=============================================================================
