------------------------- MODULE TestControllerProofs -------------------------
(***************************************************************************)
(* The inductive invariant of TestController and what follows from it.     *)
(*                                                                         *)
(* A step either moves one network call or the engine, and leaves the      *)
(* controller's own state alone, or it moves the controller, and leaves    *)
(* calls, nodes and containers alone (StepKinds).  ServiceNetworkProofs    *)
(* has what the first kind keeps by itself.                                *)
(***************************************************************************)
EXTENDS TestController, ServiceNetworkProofs

CallStep(th) ==
    \/ /\ InUserCode(th)
       /\ \E s \in ServiceIDs, configuration \in Configurations,
             dependencies \in SUBSET ServiceIDs :
                AddService(th, s, configuration, dependencies)
    \/ /\ InUserCode(th) \/ (th = "main" /\ mainPc = "removeAll")
       /\ \E s \in ServiceIDs : RemoveService(th, s)
    \/ CreateContainer(th) \/ RequestStart(th) \/ ServiceStarted(th) \/ AddServiceFails(th)
    \/ DeleteNode(th) \/ ServiceStopped(th) \/ StopFails(th)

EngineStep == \E c \in Ips : LandStart(c) \/ StartIsRefused(c) \/ ServiceEnds(c)

NetworkStep ==
    /\ UNCHANGED controllerVars
    /\ EngineStep \/ (Alive /\ \E th \in Threads : CallStep(th))

ControllerStep ==
    /\ UNCHANGED <<serviceNodes, handedOut, frame, box, forgotten>>
    /\ Alive' => Alive
    /\ timedOut => timedOut'
    /\ \/ UNCHANGED vars
       \/ Setup \/ Initialize \/ Wait \/ WrapFails \/ StartTest \/ ReceiveResult \/ Timeout
       \/ Exit \/ Probe \/ StartupDeadline \/ Test \/ Died \/ UserConfigures

\* Every step is of one kind.
LEMMA StepKinds ==
    ASSUME [Next]_vars
    PROVE  NetworkStep \/ ControllerStep
<1> USE DEF vars, networkVars, waitVars, testVars, controllerVars
<1>1. CASE Setup
  BY <1>1 DEF Setup, SetupFails, MakeBuilder, ConfigureFails, BuildNetwork, Build,
     ControllerStep, Alive
<1>2. CASE Initialize
  BY <1>2 DEF Initialize, InitializeFails, InitializeReturns, Return, BeginRemoveAll,
     ControllerStep, Alive
<1>3. CASE Wait \/ WrapFails \/ StartTest \/ Probe \/ StartupDeadline
  BY <1>3 DEF Wait, Poll, GiveUp, WaitForStartup, WrapFails, StartTest, Probe, ProbeReturns, ProbePanics,
     StartupDeadline, Return, BeginRemoveAll, ControllerStep, Alive
<1>4. CASE ReceiveResult \/ Timeout \/ Exit
  BY <1>4 DEF ReceiveResult, Timeout, Exit, Return, BeginRemoveAll, ControllerStep, Alive
<1>5. CASE Test \/ Died
  BY <1>5 DEF Test, TestEnds, PanicWithNonError, Died, ConcurrentMapAccess, Killed, Crash,
     ControllerStep, Alive
<1>6. CASE UserConfigures
  BY <1>6 DEF UserConfigures, AddConfiguration, ControllerStep, Alive
<1>7. CASE UNCHANGED vars
  BY <1>7 DEF ControllerStep, Alive
<1>8. CASE Engine
  BY <1>8 DEF Engine, NetworkStep, EngineStep
<1>9. CASE RemoveNext
  <2>1. PICK s \in Registered : RemoveService("main", s)
    BY <1>9 DEF RemoveNext, RemoveAllNext
  <2> QED
    BY <1>9, <2>1 DEF RemoveNext, Registered, NetworkStep, CallStep, Alive, Threads
<1>10. CASE \E th \in Threads : UserCalls(th)
  <2>1. PICK th \in Threads : UserCalls(th)
    BY <1>10
  <2>2. Alive
    BY <2>1 DEF UserCalls, InUserCode, Alive
  <2>3. CallStep(th)
    BY <2>1 DEF UserCalls, CallStep
  <2> QED
    BY <2>1, <2>2, <2>3 DEF UserCalls, NetworkStep
<1>11. CASE \E th \in Threads : CallGoesOn(th) \/ CallFails(th)
  BY <1>11 DEF CallGoesOn, CallFails, NetworkStep, CallStep
<1> QED
  BY <1>1, <1>2, <1>3, <1>4, <1>5, <1>6, <1>7, <1>8, <1>9, <1>10, <1>11
  DEF Next, Main, Finished, Threads

-----------------------------------------------------------------------------
(* Types, and the network's part *)

LEMMA NetworkPart ==
    ASSUME TypeOK, NetworkInvariant, [Next]_vars
    PROVE  NetworkTypeOK' /\ NetworkInvariant'
<1>1. NetworkTypeOK
  BY DEF TypeOK
<1>2. CASE NetworkStep
  <2>1. CASE EngineStep
    BY <1>1, <2>1, EngineKeeps DEF EngineStep
  <2>2. ASSUME NEW th \in Threads, CallStep(th)
        PROVE  NetworkTypeOK' /\ NetworkInvariant'
    BY <1>1, <2>2, AddServiceKeeps, CreateContainerKeeps, RequestStartKeeps,
       ServiceStartedKeeps, AddServiceFailsKeeps, RemoveServiceKeeps, DeleteNodeKeeps,
       ServiceStoppedKeeps, StopFailsKeeps DEF CallStep
  <2> QED
    BY <1>2, <2>1, <2>2 DEF NetworkStep
<1>3. CASE ControllerStep
  <2>1. \/ UNCHANGED networkVars
        \/ BeginRemoveAll
        \/ Build \/ \E c \in Configurations : AddConfiguration(c)
    BY <1>3 DEF ControllerStep, vars, Setup, SetupFails, MakeBuilder, ConfigureFails,
       BuildNetwork, Initialize, InitializeFails, InitializeReturns, Wait, Poll, GiveUp,
       WaitForStartup, WrapFails, StartTest, Probe, ProbeReturns, ProbePanics, StartupDeadline, Return,
       ReceiveResult, Timeout, Exit, Test, TestEnds, PanicWithNonError, Died,
       ConcurrentMapAccess, Killed, Crash, UserConfigures
  <2> QED
    BY <1>1, <2>1, StutterKeeps, BeginRemoveAllKeeps, BuilderKeeps
<1> QED
  BY <1>2, <1>3, StepKinds

\* The controller's own types.
LEMMA ControllerTypes ==
    ASSUME TypeOK, NetworkInvariant, [Next]_vars
    PROVE  TypeOK'
<1>1. NetworkTypeOK'
  BY NetworkPart
<1> USE DEF TypeOK
<1>2. CASE NetworkStep
  BY <1>1, <1>2 DEF NetworkStep, controllerVars, waitVars, testVars
<1>3. CASE ControllerStep
  <2> USE <1>1 DEF waitVars, testVars
  <2>1. CASE UNCHANGED vars \/ Setup \/ UserConfigures
    BY <2>1 DEF vars, Setup, SetupFails, MakeBuilder, ConfigureFails, BuildNetwork,
       UserConfigures, controllerVars
  <2>2. CASE Initialize
    BY <2>2 DEF Initialize, InitializeFails, InitializeReturns, Return, Registered
  <2>3. CASE Wait \/ WrapFails \/ StartTest
    BY <2>3 DEF Wait, Poll, GiveUp, WaitForStartup, Waiting, WrapFails, StartTest, Return
  <2>4. CASE Probe \/ StartupDeadline
    BY <2>4 DEF Probe, ProbeReturns, ProbePanics, Waiting, StartupDeadline, Return
  <2>5. CASE ReceiveResult \/ Timeout \/ Exit
    BY <2>5 DEF ReceiveResult, Timeout, Exit, Return
  <2>6. CASE Test \/ Died
    BY <2>6 DEF Test, TestEnds, PanicWithNonError, Died, ConcurrentMapAccess, Killed, Crash
  <2> QED
    BY <1>3, <2>1, <2>2, <2>3, <2>4, <2>5, <2>6 DEF ControllerStep
<1> QED
  BY <1>2, <1>3, StepKinds

-----------------------------------------------------------------------------
(* The calls as the controller sees them *)

\* A call begins: only user code adds a service.
LEMMA AddServiceEffect ==
    ASSUME NetworkTypeOK, NEW th \in Threads, NEW s \in ServiceIDs,
           NEW configuration \in Configurations, NEW dependencies \in SUBSET ServiceIDs,
           AddService(th, s, configuration, dependencies)
    PROVE  /\ frame[th].call = "none" /\ frame[th].ip = 0
           /\ frame'[th].call = "create"
           /\ frame'[th].service \notin Registered
           /\ frame'[th].dependencies \subseteq Registered
           /\ \A other \in Threads \ {th} : frame'[other] = frame[other]
           /\ UNCHANGED <<serviceNodes, toRemove, box, forgotten>>
  BY DEF AddService, TakeAddress, Idle, NetworkTypeOK

LEMMA RemoveServiceEffect ==
    ASSUME NetworkTypeOK, NEW th \in Threads, NEW s \in ServiceIDs, RemoveService(th, s)
    PROVE  /\ frame[th].call = "none" /\ frame[th].ip = 0
           /\ frame'[th].call = "deleting"
           /\ serviceNodes[frame'[th].service] = frame'[th].ip
           /\ \A other \in Threads \ {th} : frame'[other] = frame[other]
           /\ UNCHANGED <<serviceNodes, handedOut, toRemove, box, forgotten>>
  BY DEF RemoveService, Idle, NetworkTypeOK

\* A step of a call leaves the other goroutine's call alone, and a call stays what it is.
LEMMA CallEffect ==
    ASSUME NetworkTypeOK, NEW th \in Threads, CallStep(th)
    PROVE  /\ \A other \in Threads \ {th} : frame'[other] = frame[other]
           /\ frame'[th].call # "none" =>
                 \/ frame[th].call # "none"
                 \/ InUserCode(th)
                 \/ th = "main" /\ mainPc = "removeAll"
           /\ frame'[th].call \in Adding => frame[th].call \in Adding \/ InUserCode(th)
           /\ frame'[th].call \in {"none"} \cup Adding \cup Removing
           /\ handedOut' = handedOut \/ InUserCode(th)
<1> USE DEF Adding, Removing
<1>1. CASE \E s \in ServiceIDs, configuration \in Configurations,
              dependencies \in SUBSET ServiceIDs :
                 InUserCode(th) /\ AddService(th, s, configuration, dependencies)
  BY <1>1, AddServiceEffect
<1>2. CASE /\ InUserCode(th) \/ (th = "main" /\ mainPc = "removeAll")
           /\ \E s \in ServiceIDs : RemoveService(th, s)
  BY <1>2, RemoveServiceEffect
<1>3. CASE CreateContainer(th) \/ RequestStart(th)
  <2>1. \E from, to \in Adding : Proceed(th, from, to)
    BY <1>3 DEF CreateContainer, RequestStart
  <2> QED
    BY <1>3, <2>1, ProceedEffect DEF CreateContainer, RequestStart, Calls
<1>4. CASE DeleteNode(th)
  <2>1. Proceed(th, "deleting", "stopping")
    BY <1>4 DEF DeleteNode
  <2> QED
    BY <1>4, <2>1, ProceedEffect DEF DeleteNode, Calls
<1>5. CASE ServiceStarted(th) \/ AddServiceFails(th) \/ ServiceStopped(th) \/ StopFails(th)
  BY <1>5, LeaveEffect DEF ServiceStarted, AddServiceFails, ServiceStopped, StopFails
<1> QED
  BY <1>1, <1>2, <1>3, <1>4, <1>5 DEF CallStep

-----------------------------------------------------------------------------
(* The goroutines take turns until the timeout *)

LEMMA TakeTurnsKept ==
    ASSUME TypeOK, NetworkInvariant, TakeTurns, [Next]_vars
    PROVE  TakeTurns'
<1>1. NetworkTypeOK /\ TypeOK'
  BY ControllerTypes DEF TypeOK
<1>2. CASE NetworkStep
  <2>1. UNCHANGED <<mainPc, testPc, timedOut>>
    BY <1>2 DEF NetworkStep, controllerVars, testVars
  <2>2. CASE EngineStep
    BY <2>1, <2>2 DEF EngineStep, LandStart, StartIsRefused, ServiceEnds, SetContainer, TakeTurns
  <2>3. CASE CallStep("main")
    <3>1. frame'["test"] = frame["test"]
      BY <1>1, <2>3, CallEffect DEF Threads
    <3> QED
      BY <1>1, <2>1, <2>3, <3>1, CallEffect DEF TakeTurns, Threads, InUserCode, Adding, Removing
  <2>4. CASE CallStep("test")
    <3>1. frame'["main"] = frame["main"]
      BY <1>1, <2>4, CallEffect DEF Threads
    <3> QED
      BY <1>1, <2>1, <2>4, <3>1, CallEffect DEF TakeTurns, Threads, InUserCode
  <2> QED
    BY <1>2, <2>2, <2>3, <2>4 DEF NetworkStep, Threads
<1>3. CASE ControllerStep
  <2>1. UNCHANGED <<handedOut, frame>>
    BY <1>3 DEF ControllerStep
  <2> USE <1>1, <2>1 DEF TakeTurns, testVars, waitVars
  <2>2. CASE UNCHANGED vars \/ Setup \/ UserConfigures
    BY <2>2 DEF vars, Setup, SetupFails, MakeBuilder, ConfigureFails, BuildNetwork,
       UserConfigures, controllerVars
  <2>3. CASE Initialize
    BY <2>3 DEF Initialize, InitializeFails, InitializeReturns, Return, Idle
  <2>4. CASE Wait \/ WrapFails \/ StartTest
    BY <2>4 DEF Wait, Poll, GiveUp, WaitForStartup, Waiting, WrapFails, StartTest, Return
  <2>5. CASE Probe \/ StartupDeadline
    BY <2>5 DEF Probe, ProbeReturns, ProbePanics, Waiting, StartupDeadline, Return
  <2>6. CASE ReceiveResult \/ Timeout \/ Exit
    BY <2>6 DEF ReceiveResult, Timeout, Exit, Return, RemoveAllDone, Idle, Removing
  <2>7. CASE Test \/ Died
    BY <2>7 DEF Test, TestEnds, PanicWithNonError, Died, ConcurrentMapAccess, Killed, Crash,
       Alive, Idle
  <2> QED
    BY <1>3, <2>2, <2>3, <2>4, <2>5, <2>6, <2>7 DEF ControllerStep
<1> QED
  BY <1>2, <1>3, StepKinds

\* Whoever is in a call, the other goroutine is not.
LEMMA OtherIsIdle ==
    ASSUME TypeOK, TakeTurns, Alive, ~timedOut,
           NEW th \in Threads, CallStep(th), NEW other \in Threads \ {th}
    PROVE  /\ frame[other].call = "none" /\ frame'[other].call = "none"
           /\ frame'[other] = frame[other]
<1>1. NetworkTypeOK
  BY DEF TypeOK
<1>2. frame'[other] = frame[other]
  BY <1>1, CallEffect
<1>3. frame[th].call # "none" \/ InUserCode(th) \/ (th = "main" /\ mainPc = "removeAll")
  BY <1>1, CallEffect DEF CallStep, CreateContainer, RequestStart, ServiceStarted,
     AddServiceFails, DeleteNode, ServiceStopped, StopFails, Proceed
<1>4. frame[other].call = "none"
  BY <1>3 DEF Threads, TakeTurns, TypeOK, InUserCode, Alive
<1> QED
  BY <1>2, <1>4

-----------------------------------------------------------------------------
(* What was looked up holds, and what RemoveAll has to come to is what there is *)

LEMMA LookedUpHoldsKept ==
    ASSUME TypeOK, NetworkInvariant, TakeTurns, LookedUpHolds, [Next]_vars
    PROVE  LookedUpHolds'
<1>1. NetworkTypeOK
  BY DEF TypeOK
<1>2. CASE ControllerStep
  <2>1. Registered' = Registered
    BY <1>2 DEF ControllerStep, Registered
  <2> QED
    BY <1>2, <2>1 DEF ControllerStep, LookedUpHolds
<1>3. CASE NetworkStep
  <2>1. UNCHANGED <<mainPc, timedOut>>
    BY <1>3 DEF NetworkStep, controllerVars
  <2>2. CASE EngineStep
    <3>1. UNCHANGED <<serviceNodes, frame>> /\ Registered' = Registered
      BY <2>2 DEF EngineStep, LandStart, StartIsRefused, ServiceEnds, SetContainer, Registered
    <3> QED
      BY <2>1, <3>1 DEF LookedUpHolds, Alive
  <2>3. ASSUME NEW th \in Threads, CallStep(th), Alive', ~timedOut'
        PROVE  /\ frame'[th].call \in Adding =>
                     /\ frame'[th].service \notin Registered'
                     /\ frame'[th].dependencies \subseteq Registered'
               /\ frame'[th].call = "deleting" =>
                     serviceNodes'[frame'[th].service] = frame'[th].ip
    <3> USE <1>1, <2>3
    <3>0. Alive /\ ~timedOut
      BY <2>1 DEF Alive
    <3>1. CASE \E s \in ServiceIDs, configuration \in Configurations,
                  dependencies \in SUBSET ServiceIDs :
                     AddService(th, s, configuration, dependencies)
      BY <3>1, AddServiceEffect DEF Registered
    <3>2. CASE \E s \in ServiceIDs : RemoveService(th, s)
      BY <3>2, RemoveServiceEffect DEF Adding
    <3>3. CASE CreateContainer(th) \/ RequestStart(th)
      <4>1. \E from, to \in Adding : Proceed(th, from, to)
        BY <3>3 DEF CreateContainer, RequestStart, Adding
      <4>2. Registered' = Registered
        BY <3>3 DEF CreateContainer, RequestStart, Registered
      <4> QED
        BY <3>0, <4>1, <4>2, ProceedEffect DEF LookedUpHolds, Adding, Calls
    <3>4. CASE DeleteNode(th)
      BY <3>4, ProceedEffect DEF DeleteNode, Calls, Adding
    <3>5. CASE ServiceStarted(th) \/ AddServiceFails(th) \/ ServiceStopped(th) \/ StopFails(th)
      BY <3>5, LeaveEffect DEF ServiceStarted, AddServiceFails, ServiceStopped, StopFails, Adding
    <3> QED
      BY <3>1, <3>2, <3>3, <3>4, <3>5 DEF CallStep
  <2>4. ASSUME NEW th \in Threads, CallStep(th), Alive', ~timedOut',
               NEW other \in Threads \ {th}
        PROVE  frame'[other].call = "none"
    BY <2>1, <2>4, OtherIsIdle DEF Alive
  <2>5. CASE \E th \in Threads : CallStep(th)
    BY <2>3, <2>4, <2>5 DEF LookedUpHolds, Adding
  <2> QED
    BY <1>3, <2>2, <2>5 DEF NetworkStep
<1> QED
  BY <1>2, <1>3, StepKinds

LEMMA RemovesThemAllKept ==
    ASSUME TypeOK, NetworkInvariant, TakeTurns, RemovesThemAll, [Next]_vars
    PROVE  RemovesThemAll'
<1>1. NetworkTypeOK
  BY DEF TypeOK
<1> SUFFICES ASSUME mainPc' = "removeAll", ~timedOut'
             PROVE  toRemove' = Registered'
  BY DEF RemovesThemAll
<1>2. CASE NetworkStep
  <2>1. mainPc = "removeAll" /\ ~timedOut /\ toRemove = Registered /\ Alive
    BY <1>2 DEF NetworkStep, controllerVars, RemovesThemAll, Alive
  <2>2. CASE EngineStep
    BY <2>1, <2>2 DEF EngineStep, LandStart, StartIsRefused, ServiceEnds, SetContainer, Registered
  <2>3. ~CallStep("test")
    BY <2>1 DEF TakeTurns, CallStep, InUserCode, CreateContainer, RequestStart, ServiceStarted,
       AddServiceFails, DeleteNode, ServiceStopped, StopFails, Proceed
  <2>4. CASE CallStep("main")
    <3>1. frame["main"].call \in {"none"} \cup Removing /\ ~InUserCode("main")
      BY <2>1 DEF TakeTurns, InUserCode
    <3>2. \/ \E s \in ServiceIDs : RemoveService("main", s)
          \/ DeleteNode("main") \/ ServiceStopped("main") \/ StopFails("main")
      BY <2>4, <3>1 DEF CallStep, CreateContainer, RequestStart, ServiceStarted, AddServiceFails,
         Proceed, Removing
    <3>3. CASE DeleteNode("main")
      BY <1>1, <2>1, <3>3, NetworkAssumption DEF DeleteNode, NetworkTypeOK, Registered, Ips
    <3>4. CASE \/ \E s \in ServiceIDs : RemoveService("main", s)
               \/ ServiceStopped("main") \/ StopFails("main")
      BY <2>1, <3>4 DEF RemoveService, ServiceStopped, StopFails, Registered
    <3> QED
      BY <3>2, <3>3, <3>4
  <2> QED
    BY <1>2, <2>2, <2>3, <2>4 DEF NetworkStep, Threads
<1>3. CASE ControllerStep
  <2>1. serviceNodes' = serviceNodes /\ Registered' = Registered /\ ~timedOut
    BY <1>3 DEF ControllerStep, Registered
  <2> USE <2>1 DEF waitVars, testVars
  <2>2. CASE UNCHANGED vars \/ Setup \/ UserConfigures
    BY <2>2 DEF vars, networkVars, Setup, SetupFails, MakeBuilder, ConfigureFails, BuildNetwork,
       UserConfigures, AddConfiguration, controllerVars, RemovesThemAll
  <2>3. CASE Initialize
    BY <2>3 DEF Initialize, InitializeFails, InitializeReturns, Return, BeginRemoveAll
  <2>4. CASE Wait \/ WrapFails \/ StartTest
    BY <2>4 DEF Wait, Poll, GiveUp, WaitForStartup, Waiting, WrapFails, StartTest, Return,
       BeginRemoveAll
  <2>5. CASE Probe \/ StartupDeadline
    BY <2>5 DEF Probe, ProbeReturns, ProbePanics, StartupDeadline, Return, BeginRemoveAll
  <2>6. CASE ReceiveResult \/ Timeout \/ Exit
    BY <2>6 DEF ReceiveResult, Timeout, Exit, Return, BeginRemoveAll
  <2>7. CASE Test \/ Died
    BY <2>7 DEF networkVars, Test, TestEnds, PanicWithNonError, Died, ConcurrentMapAccess, Killed,
       Crash, RemovesThemAll
  <2> QED
    BY <1>3, <2>2, <2>3, <2>4, <2>5, <2>6, <2>7 DEF ControllerStep
<1> QED
  BY <1>2, <1>3, StepKinds

LEMMA OutcomeFitsKept ==
    ASSUME TypeOK, NetworkInvariant, TakeTurns, OutcomeFits, [Next]_vars
    PROVE  OutcomeFits'
<1>1. CASE NetworkStep
  BY <1>1 DEF NetworkStep, controllerVars, waitVars, testVars, OutcomeFits
<1>2. CASE ControllerStep
  <2> USE DEF OutcomeFits, TakeTurns, waitVars, testVars
  <2>1. CASE UNCHANGED vars \/ Setup \/ UserConfigures
    BY <2>1 DEF vars, Setup, SetupFails, MakeBuilder, ConfigureFails, BuildNetwork,
       UserConfigures, controllerVars
  <2>2. CASE Initialize
    BY <2>2 DEF Initialize, InitializeFails, InitializeReturns, Return
  <2>3. CASE Wait \/ WrapFails \/ StartTest
    BY <2>3 DEF Wait, Poll, GiveUp, WaitForStartup, Waiting, WrapFails, StartTest, Return
  <2>4. CASE Probe \/ StartupDeadline
    BY <2>4 DEF Probe, ProbeReturns, ProbePanics, Waiting, StartupDeadline, Return
  <2>5. CASE ReceiveResult \/ Timeout \/ Exit
    BY <2>5 DEF ReceiveResult, Timeout, Exit, Return, Recovered
  <2>6. CASE Test \/ Died
    BY <2>6 DEF Test, TestEnds, PanicWithNonError, Died, ConcurrentMapAccess, Killed, Crash, Alive
  <2> QED
    BY <1>2, <2>1, <2>2, <2>3, <2>4, <2>5, <2>6 DEF ControllerStep
<1> QED
  BY <1>1, <1>2, StepKinds

-----------------------------------------------------------------------------
(* No container is lost *)

\* What a step of a call does to who owns the containers that are up.
LEMMA OwnershipKept ==
    ASSUME TypeOK, NetworkInvariant, TakeTurns, LookedUpHolds, EveryContainerIsOwned,
           [Next]_vars
    PROVE  EveryContainerIsOwned'
<1>1. NetworkTypeOK /\ FramesFit
  BY DEF TypeOK, NetworkInvariant
<1> SUFFICES ASSUME Alive', ~timedOut', NEW c \in Ips, c \in Up', c \notin forgotten'
             PROVE  \/ \E s \in Registered' : serviceNodes'[s] = c
                    \/ \E th \in Threads : frame'[th].ip = c
  BY DEF EveryContainerIsOwned, Up, Ips
<1>2. CASE ControllerStep
  <2>1. Registered' = Registered /\ Up' = Up
    BY <1>2 DEF ControllerStep, Registered, Up
  <2> QED
    BY <1>2, <2>1 DEF ControllerStep, EveryContainerIsOwned
<1>3. CASE NetworkStep
  <2>1. Alive /\ ~timedOut
    BY <1>3 DEF NetworkStep, controllerVars, Alive
  <2>2. c >= 1 /\ c \in Nat
    BY NetworkAssumption DEF Ips
  <2>3. CASE EngineStep
    <3>1. UNCHANGED <<serviceNodes, frame, forgotten>> /\ Registered' = Registered /\ c \in Up
      BY <1>1, <2>3 DEF EngineStep, LandStart, StartIsRefused, ServiceEnds, SetContainer,
         Registered, Up, NetworkTypeOK
    <3> QED
      BY <2>1, <3>1 DEF EveryContainerIsOwned
  <2>4. ASSUME NEW th \in Threads, CallStep(th)
        PROVE  \/ \E s \in Registered' : serviceNodes'[s] = c
               \/ \E t \in Threads : frame'[t].ip = c
    <3> USE <1>1, <2>4
    <3>1. \A other \in Threads \ {th} : frame'[other] = frame[other]
      BY CallEffect
    <3>2. ASSUME Registered' = Registered, serviceNodes' = serviceNodes, c \in Up, c \notin forgotten,
                 frame[th].ip = 0 \/ frame'[th].ip = frame[th].ip \/ frame[th].ip # c
          PROVE  \/ \E s \in Registered' : serviceNodes'[s] = c
                 \/ \E t \in Threads : frame'[t].ip = c
      BY <2>1, <2>2, <3>1, <3>2 DEF EveryContainerIsOwned
    <3>3. CASE \E s \in ServiceIDs, configuration \in Configurations,
                  dependencies \in SUBSET ServiceIDs :
                     AddService(th, s, configuration, dependencies)
      BY <3>2, <3>3, AddServiceEffect DEF Registered, Up
    <3>4. CASE \E s \in ServiceIDs : RemoveService(th, s)
      BY <3>2, <3>4, RemoveServiceEffect DEF Registered, Up
    <3>5. CASE CreateContainer(th) \/ RequestStart(th)
      <4>1. PICK from, to \in Adding : Proceed(th, from, to) /\ frame[th].call \in {"create", "start"}
        BY <3>5 DEF CreateContainer, RequestStart, Adding, Proceed
      <4>2. frame'[th].ip = frame[th].ip
        BY <4>1, ProceedEffect DEF Adding, Calls
      <4>3. CASE frame[th].ip = c
        BY <4>2, <4>3
      <4>4. CASE frame[th].ip # c
        <5>1. c \in Up /\ Registered' = Registered /\ UNCHANGED <<serviceNodes, forgotten>>
          BY <3>5, <4>1, <4>4, ContainerOfCall
             DEF CreateContainer, RequestStart, SetBox, Container, Up, Registered, NetworkTypeOK
        <5> QED
          BY <3>2, <4>2, <5>1
      <4> QED
        BY <4>3, <4>4
    <3>6. CASE ServiceStarted(th)
      <4>1. /\ frame[th].service \in ServiceIDs /\ frame[th].service \notin Registered
            /\ frame[th].ip \in Ips /\ frame[th].ip # NoNode
        BY <2>1, <3>6, ContainerOfCall, NetworkAssumption
           DEF ServiceStarted, LookedUpHolds, Adding, Container, Ips
      <4>2. /\ serviceNodes' = [serviceNodes EXCEPT ![frame[th].service] = frame[th].ip]
            /\ UNCHANGED <<box, forgotten>>
        BY <3>6 DEF ServiceStarted, Container
      <4>3. \A s \in Registered : s \in Registered' /\ serviceNodes'[s] = serviceNodes[s]
        BY <4>1, <4>2 DEF Registered, NetworkTypeOK
      <4>4. frame[th].service \in Registered' /\ serviceNodes'[frame[th].service] = frame[th].ip
        BY <4>1, <4>2 DEF Registered, NetworkTypeOK
      <4>5. c \in Up /\ c \notin forgotten
        BY <4>2 DEF Up
      <4> QED
        BY <2>1, <3>1, <4>3, <4>4, <4>5 DEF EveryContainerIsOwned
    <3>7. CASE AddServiceFails(th)
      <4>1. CASE frame[th].call = "starting"
        <5>1. frame[th].ip # c
          BY <3>7, <4>1 DEF AddServiceFails, Container
        <5>2. c \in Up /\ Registered' = Registered /\ serviceNodes' = serviceNodes
          BY <3>7 DEF AddServiceFails, Up, Registered
        <5> QED
          BY <3>2, <3>7, <5>1, <5>2 DEF AddServiceFails
      <4>2. CASE frame[th].call # "starting"
        <5>1. frame[th].call \in {"create", "start"} /\ forgotten' = forgotten
          BY <3>7, <4>2 DEF AddServiceFails
        <5>2. frame[th].ip \notin Up
          BY <5>1 DEF FramesFit, Up
        <5>3. c \in Up /\ Registered' = Registered /\ serviceNodes' = serviceNodes
          BY <3>7 DEF AddServiceFails, Up, Registered
        <5> QED
          BY <3>2, <5>1, <5>2, <5>3
      <4> QED
        BY <4>1, <4>2
    <3>8. CASE DeleteNode(th)
      <4>1. /\ frame[th].call = "deleting" /\ frame'[th].ip = frame[th].ip
            /\ UNCHANGED <<box, forgotten>>
        BY <3>8, ProceedEffect DEF DeleteNode, Calls
      <4>2. serviceNodes[frame[th].service] = frame[th].ip
        BY <2>1, <4>1 DEF LookedUpHolds
      <4>3. \A s \in Registered : s # frame[th].service =>
               s \in Registered' /\ serviceNodes'[s] = serviceNodes[s]
        BY <3>8 DEF DeleteNode, Registered, NetworkTypeOK
      <4>4. c \in Up /\ c \notin forgotten
        BY <4>1 DEF Up
      <4> QED
        BY <2>1, <3>1, <4>1, <4>2, <4>3, <4>4 DEF EveryContainerIsOwned
    <3>9. CASE ServiceStopped(th)
      <4>1. frame[th].call = "stopping" /\ frame[th].ip \in Ips
        BY <3>9, ContainerOfCall DEF ServiceStopped, Container
      <4>2. frame[th].ip # c /\ c \in Up
        BY <3>9, <4>1 DEF ServiceStopped, SetBox, Container, FramesFit, Removing, Up,
           NetworkTypeOK
      <4>3. Registered' = Registered /\ UNCHANGED <<serviceNodes, forgotten>>
        BY <3>9 DEF ServiceStopped, Registered
      <4> QED
        BY <3>2, <4>2, <4>3
    <3>10. CASE StopFails(th)
      <4>1. frame[th].ip # c /\ c \notin forgotten
        BY <3>10 DEF StopFails, Container
      <4>2. c \in Up /\ Registered' = Registered /\ serviceNodes' = serviceNodes
        BY <3>10 DEF StopFails, Up, Registered
      <4> QED
        BY <3>2, <4>1, <4>2
    <3> QED
      BY <3>3, <3>4, <3>5, <3>6, <3>7, <3>8, <3>9, <3>10 DEF CallStep
  <2> QED
    BY <1>3, <2>3, <2>4 DEF NetworkStep
<1> QED
  BY <1>2, <1>3, StepKinds

\* The controller is left by an error before anything was started, by its end, when
\* what it removed was all there was, or by a crash.
LEMMA TornDownKept ==
    ASSUME TypeOK, NetworkInvariant, TakeTurns, RemovesThemAll, EveryContainerIsOwned,
           TornDownUnlessTimedOut, [Next]_vars
    PROVE  TornDownUnlessTimedOut'
<1>1. NetworkTypeOK
  BY DEF TypeOK
<1> SUFFICES ASSUME ~Alive', ~crashed', ~timedOut'
             PROVE  Up' \subseteq forgotten'
  BY DEF TornDownUnlessTimedOut
<1>2. CASE NetworkStep
  <2>1. ~Alive /\ ~crashed /\ ~timedOut
    BY <1>2 DEF NetworkStep, controllerVars, Alive
  <2>2. EngineStep
    BY <1>2, <2>1 DEF NetworkStep
  <2>3. Up' \subseteq Up /\ forgotten' = forgotten
    BY <1>1, <2>2 DEF EngineStep, LandStart, StartIsRefused, ServiceEnds, SetContainer, Up,
       NetworkTypeOK
  <2> QED
    BY <2>1, <2>3 DEF TornDownUnlessTimedOut
<1>3. CASE ControllerStep
  <2>1. Up' = Up /\ forgotten' = forgotten /\ ~timedOut
    BY <1>3 DEF ControllerStep, Up
  <2>2. CASE SetupFails \/ ConfigureFails
    BY <1>1, <2>1, <2>2 DEF SetupFails, ConfigureFails, TakeTurns, NetworkInvariant,
       FreshAddresses, Up, Ips
  <2>3. CASE Exit
    <3>1. Registered = {} /\ frame["main"] = Idle /\ mainPc = "removeAll"
      BY <2>1, <2>3 DEF Exit, RemoveAllDone, RemovesThemAll
    <3>2. frame["test"].call = "none"
      BY <2>1, <3>1 DEF TakeTurns
    <3>3. \A th \in Threads : frame[th].ip = 0
      BY <3>1, <3>2 DEF NetworkInvariant, FramesFit, Threads, Idle
    <3> QED
      BY <2>1, <3>1, <3>3, NetworkAssumption DEF EveryContainerIsOwned, Alive, Up, Ips
  <2>4. CASE ~Alive /\ ~crashed
    BY <2>1, <2>4 DEF TornDownUnlessTimedOut
  <2>5. SetupFails \/ ConfigureFails \/ Exit \/ (~Alive /\ ~crashed)
    <3> USE <1>3 DEF ControllerStep, Alive
    <3>1. CASE UNCHANGED vars \/ UserConfigures
      BY <3>1 DEF vars, UserConfigures, controllerVars
    <3>2. CASE Setup \/ Initialize
      BY <3>2 DEF Setup, SetupFails, MakeBuilder, ConfigureFails, BuildNetwork, Initialize,
         InitializeFails, InitializeReturns, Return
    <3>3. CASE Wait \/ WrapFails \/ StartTest \/ Probe \/ StartupDeadline
      BY <3>3 DEF Wait, Poll, GiveUp, WaitForStartup, WrapFails, StartTest, Probe, ProbeReturns, ProbePanics,
         StartupDeadline, Return
    <3>4. CASE ReceiveResult \/ Timeout \/ Test \/ Died
      BY <3>4 DEF ReceiveResult, Timeout, Return, Test, TestEnds, PanicWithNonError, Died,
         ConcurrentMapAccess, Killed, Crash
    <3> QED
      BY <3>1, <3>2, <3>3, <3>4
  <2> QED
    BY <2>2, <2>3, <2>4, <2>5
<1> QED
  BY <1>2, <1>3, StepKinds

-----------------------------------------------------------------------------
(* Theorems *)

LEMMA InitiallyHolds ==
    ASSUME Init
    PROVE  InductiveInvariant
<1>1. NetworkTypeOK /\ NetworkInvariant
  BY NewNetworkFits DEF Init
<1>2. /\ frame = [th \in Threads |-> Idle] /\ Idle.call = "none"
      /\ Up = {} /\ handedOut = 0
  BY DEF Init, NewNetwork, Idle, Up
<1> QED
  BY <1>1, <1>2 DEF Init, InductiveInvariant, TypeOK, TakeTurns, LookedUpHolds, RemovesThemAll,
     OutcomeFits, EveryContainerIsOwned, TornDownUnlessTimedOut, Threads, Adding

LEMMA InvariantKept ==
    ASSUME InductiveInvariant, [Next]_vars
    PROVE  InductiveInvariant'
  BY NetworkPart, ControllerTypes, TakeTurnsKept, LookedUpHoldsKept, RemovesThemAllKept,
     OutcomeFitsKept, OwnershipKept, TornDownKept DEF InductiveInvariant

\* The invariant of the controller holds in every state, for any number of services,
\* addresses and configurations: before the test's timeout at most one goroutine is in a
\* network call, and what that call has looked up in the map stays true.
THEOREM InvariantHolds == Spec => []InductiveInvariant
<1>1. Init => InductiveInvariant
  BY InitiallyHolds
<1>2. InductiveInvariant /\ [Next]_vars => InductiveInvariant'
  BY InvariantKept
<1> QED
  BY <1>1, <1>2, PTL DEF Spec

\* The variables have their types: no address outside of the subnet is ever handed out.
THEOREM TypeCorrect == Spec => []TypeOK
<1>1. InductiveInvariant => TypeOK
  BY DEF InductiveInvariant
<1> QED
  BY <1>1, InvariantHolds, PTL

\* GetService gives a node whose container was started and is no other node's, whatever
\* the two goroutines do with the map, the timeout included.
THEOREM NodesAlwaysDescribeContainers == Spec => []NodesDescribeContainers
<1>1. InductiveInvariant => NodesDescribeContainers
  BY DEF InductiveInvariant, NetworkInvariant, NodesFit, OneNodePerContainer, FramesOffNodes,
     NodesDescribeContainers
<1> QED
  BY <1>1, InvariantHolds, PTL

\* Until the timeout AddService and RemoveService lose no container that runs, or is about
\* to, but the one whose own start or stop has just failed; the others are still owned then.
THEOREM ContainersAreAlwaysOwned == Spec => []EveryContainerIsOwned
<1>1. InductiveInvariant => EveryContainerIsOwned
  BY DEF InductiveInvariant
<1> QED
  BY <1>1, InvariantHolds, PTL

\* On any return of RunTest but that of the timeout, what the deferred RemoveAll leaves up
\* are containers of calls that failed, an AddService after it requested the start or a stop,
\* and no others: a failed call costs its own container only.
THEOREM AlwaysTornDownUnlessTimedOut == Spec => []TornDownUnlessTimedOut
<1>1. InductiveInvariant => TornDownUnlessTimedOut
  BY DEF InductiveInvariant
<1> QED
  BY <1>1, InvariantHolds, PTL

\* Exit code 0 is given only after the awaited services were up and the test ended
\* without an error and in time.
THEOREM PassAlwaysMeansTestSucceeded == Spec => []PassMeansTestSucceeded
<1>1. InductiveInvariant => PassMeansTestSucceeded
  BY DEF InductiveInvariant, OutcomeFits, TakeTurns, PassMeansTestSucceeded, ExitZero
<1> QED
  BY <1>1, InvariantHolds, PTL

\* AddService checks the dependencies long before the container is started; until the
\* timeout they are still in the network then.
THEOREM AlwaysStartsWithDependencies == Spec => StartsWithDependencies
<1>1. InductiveInvariant /\ [Next]_vars =>
        [\A th \in Threads :
            frame[th].call = "start" /\ frame'[th].call = "starting" /\ ~timedOut
               => frame[th].dependencies \subseteq Registered]_vars
  <2> SUFFICES ASSUME InductiveInvariant, [Next]_vars, NEW th \in Threads,
                      frame[th].call = "start", frame'[th].call = "starting", ~timedOut
               PROVE  frame[th].dependencies \subseteq Registered
    OBVIOUS
  <2>1. NetworkStep
    BY StepKinds DEF ControllerStep
  <2>2. Alive
    <3>1. ~EngineStep
      BY DEF EngineStep, LandStart, StartIsRefused, ServiceEnds, SetContainer
    <3> QED
      BY <2>1, <3>1 DEF NetworkStep
  <2> QED
    BY <2>2 DEF InductiveInvariant, LookedUpHolds, Adding
<1> QED
  BY <1>1, InvariantHolds, PTL DEF Spec, StartsWithDependencies

-----------------------------------------------------------------------------
\* Once the process has exited only the engine moves, and what went wrong before stays.
LEMMA NothingChangesAfterExit ==
    ASSUME [Next]_vars, ~Alive
    PROVE  UNCHANGED <<forgotten, timedOut, crashed>>
<1>1. CASE NetworkStep
  BY <1>1 DEF NetworkStep, EngineStep, LandStart, StartIsRefused, ServiceEnds, SetContainer,
     controllerVars
<1>2. CASE ControllerStep
  BY <1>2 DEF ControllerStep, vars, Alive, UserConfigures, controllerVars, Setup, SetupFails,
     MakeBuilder, ConfigureFails, BuildNetwork, Initialize, InitializeFails, InitializeReturns,
     Wait, Poll, GiveUp, WaitForStartup, WrapFails, StartTest, Probe, ProbeReturns, ProbePanics,
     StartupDeadline, ReceiveResult, Timeout, Exit, Test, TestEnds, PanicWithNonError, Died,
     ConcurrentMapAccess, Killed
<1> QED
  BY <1>1, <1>2, StepKinds

-----------------------------------------------------------------------------
(* The controller implements its contract *)

\* A container that changes its state, as the contract sees it.
LEMMA ContainerBecomes ==
    ASSUME NetworkTypeOK, NEW c \in Ips,
           NEW from \in {"created", "requested", "running"},
           NEW to \in {"requested", "running", "stopped"},
           box[c] = from, box' = [box EXCEPT ![c] = to],
           UNCHANGED <<mainPc, outcome, crashed, forgotten>>
    PROVE  Contract!Become(c, IF from = "created" THEN "none" ELSE from, to)
  BY DEF NetworkTypeOK, Contract!Become, Alive, ExitZero

LEMMA CallImplements ==
    ASSUME InductiveInvariant, Alive, UNCHANGED controllerVars,
           NEW th \in Threads, CallStep(th)
    PROVE  [Contract!Next]_(Contract!vars)
<1>1. NetworkTypeOK /\ FramesFit
  BY DEF InductiveInvariant, TypeOK, NetworkInvariant
<1>2. UNCHANGED <<mainPc, outcome, crashed>> /\ Alive' = Alive /\ ExitZero' = ExitZero
  BY DEF controllerVars, Alive, ExitZero
<1>3. CASE UNCHANGED <<box, forgotten>>
  BY <1>2, <1>3 DEF Contract!vars
<1>4. CASE CreateContainer(th)
  <2>1. box[Container(th)] = "none" /\ Container(th) \in Ips /\ forgotten' = forgotten
    BY <1>1, <1>4, ContainerOfCall DEF CreateContainer, Proceed, FramesFit, Container
  <2>2. \A c \in Ips : (IF box'[c] = "created" THEN "none" ELSE box'[c])
                         = (IF box[c] = "created" THEN "none" ELSE box[c])
    BY <1>1, <1>4, <2>1 DEF CreateContainer, SetBox, NetworkTypeOK
  <2> QED
    BY <1>2, <2>1, <2>2 DEF Contract!vars
<1>5. CASE RequestStart(th)
  <2>1. box[Container(th)] = "created" /\ Container(th) \in Ips
    BY <1>1, <1>5, ContainerOfCall DEF RequestStart, Proceed, FramesFit, Container
  <2>2. Contract!Become(Container(th), "none", "requested")
    BY <1>1, <1>2, <1>5, <2>1, ContainerBecomes DEF RequestStart, SetBox
  <2> QED
    BY <2>1, <2>2 DEF Contract!Next, Contract!RequestService
<1>6. CASE AddServiceFails(th) \/ StopFails(th)
  <2>1. box' = box /\ (forgotten' = forgotten \/ forgotten' # {})
    BY <1>6 DEF AddServiceFails, StopFails
  <2>2. (forgotten' # {}) = TRUE => Contract!Fault
    BY <1>2, <2>1 DEF Contract!Fault
  <2> QED
    BY <1>3, <2>1, <2>2 DEF Contract!Next
<1>7. CASE ServiceStopped(th)
  <2>1. Container(th) \in Ips /\ forgotten' = forgotten
    BY <1>1, <1>7, ContainerOfCall DEF ServiceStopped
  <2>2. CASE box[Container(th)] = "running"
    <3>1. Contract!Become(Container(th), "running", "stopped")
      BY <1>1, <1>2, <1>7, <2>1, <2>2, ContainerBecomes DEF ServiceStopped, SetBox
    <3> QED
      BY <2>1, <3>1 DEF Contract!Next, Contract!StopService
  <2>3. CASE box[Container(th)] # "running"
    BY <1>3, <1>7, <2>1, <2>3 DEF ServiceStopped
  <2> QED
    BY <2>2, <2>3
<1>8. CASE \/ \E s \in ServiceIDs, configuration \in Configurations,
                 dependencies \in SUBSET ServiceIDs :
                    AddService(th, s, configuration, dependencies)
           \/ \E s \in ServiceIDs : RemoveService(th, s)
           \/ DeleteNode(th) \/ ServiceStarted(th)
  BY <1>3, <1>8 DEF AddService, TakeAddress, RemoveService, DeleteNode, ServiceStarted
<1> QED
  BY <1>4, <1>5, <1>6, <1>7, <1>8 DEF CallStep

LEMMA ControllerStepImplements ==
    ASSUME InductiveInvariant, InductiveInvariant', ControllerStep
    PROVE  [Contract!Next]_(Contract!vars)
<1>1. UNCHANGED <<box, forgotten>> /\ (Alive' => Alive)
  BY DEF ControllerStep
<1>2. CASE Alive'
  BY <1>1, <1>2 DEF Contract!vars, Alive, ExitZero
<1>3. CASE ~Alive
  <2>1. UNCHANGED <<outcome, crashed>>
    BY <1>3 DEF ControllerStep, vars, Alive, UserConfigures, controllerVars, Setup, SetupFails,
       MakeBuilder, ConfigureFails, BuildNetwork, Initialize, InitializeFails, InitializeReturns,
       Wait, Poll, GiveUp, WaitForStartup, WrapFails, StartTest, Probe, ProbeReturns, ProbePanics,
       StartupDeadline, ReceiveResult, Timeout, Exit, Test, TestEnds, PanicWithNonError, Died,
       ConcurrentMapAccess, Killed
  <2>2. Alive' = Alive /\ ExitZero' = ExitZero
    BY <1>1, <1>3, <2>1 DEF Alive, ExitZero
  <2> QED
    BY <1>1, <2>2 DEF Contract!vars
<1>4. CASE Alive /\ ~Alive'
  <2>1. ExitZero' => forgotten # {} \/ Up' = {}
    BY <1>1, <1>4 DEF InductiveInvariant, OutcomeFits, TornDownUnlessTimedOut, ExitZero
  <2>2. Up' = {} => \A c \in Ips : box[c] \notin {"requested", "running"}
    BY <1>1 DEF Up
  <2>3. ExitZero' \in BOOLEAN /\ Alive = TRUE /\ Alive' = FALSE
    BY <1>4 DEF ExitZero, Alive
  <2>4. Contract!Exit(ExitZero')
    BY <1>1, <2>1, <2>2, <2>3 DEF Contract!Exit
  <2> QED
    BY <2>3, <2>4 DEF Contract!Next
<1> QED
  BY <1>1, <1>2, <1>3, <1>4

LEMMA StepImplements ==
    ASSUME InductiveInvariant, InductiveInvariant', [Next]_vars
    PROVE  [Contract!Next]_(Contract!vars)
<1>1. NetworkTypeOK
  BY DEF InductiveInvariant, TypeOK
<1>2. CASE NetworkStep /\ EngineStep
  <2>1. UNCHANGED <<mainPc, outcome, crashed>>
    BY <1>2 DEF NetworkStep, controllerVars
  <2>2. PICK c \in Ips : LandStart(c) \/ StartIsRefused(c) \/ ServiceEnds(c)
    BY <1>2 DEF EngineStep
  <2>3. \/ Contract!Become(c, "requested", "running")
        \/ Contract!Become(c, "requested", "stopped")
        \/ Contract!Become(c, "running", "stopped")
    BY <1>1, <2>1, <2>2, ContainerBecomes DEF LandStart, StartIsRefused, ServiceEnds, SetContainer
  <2> QED
    BY <2>3 DEF Contract!Next, Contract!LandService, Contract!StopService
<1>3. CASE NetworkStep /\ ~EngineStep
  BY <1>3, CallImplements DEF NetworkStep
<1> QED
  BY <1>2, <1>3, StepKinds, ControllerStepImplements

\* A controller, with any number of services, does nothing that the controller of the
\* initializer's model could not do: exit code 0 with a service up needs a failed call.
THEOREM ControllerImplementsContract == Spec => ImplementsContract
<1>1. Init => Contract!Init
  BY DEF Init, NewNetwork, Contract!Init, Alive, ExitZero
<1>2. InductiveInvariant /\ InductiveInvariant' /\ [Next]_vars
        => [Contract!Next]_(Contract!vars)
  BY StepImplements
<1> QED
  BY <1>1, <1>2, InvariantHolds, PTL DEF Spec, Contract!Spec, ImplementsContract
=============================================================================
