------------------------- MODULE ServiceNetworkProofs -------------------------
(***************************************************************************)
(* Every step of a network call, by whichever goroutine, and every step of *)
(* the engine keeps the types and NetworkInvariant.                        *)
(***************************************************************************)
EXTENDS ServiceNetwork, TLAPS

\* A frame that is given another call, or that is left.
LEMMA ProceedEffect ==
    ASSUME NetworkTypeOK, NEW th \in Threads, NEW from, NEW to \in Calls,
           Proceed(th, from, to)
    PROVE  /\ frame' \in [Threads -> Frames]
           /\ frame[th].call = from
           /\ frame'[th].call = to
           /\ frame'[th].service = frame[th].service
           /\ frame'[th].ip = frame[th].ip
           /\ frame'[th].dependencies = frame[th].dependencies
           /\ \A other \in Threads \ {th} : frame'[other] = frame[other]
<1>1. frame \in [Threads -> Frames]
  BY DEF NetworkTypeOK
<1>2. frame[th] \in Frames
  BY <1>1
<1>3. frame' = [frame EXCEPT ![th] = [frame[th] EXCEPT !.call = to]]
  BY DEF Proceed
<1>4. [frame[th] EXCEPT !.call = to] \in Frames
  BY <1>2 DEF Frames
<1>5. frame'[th] = [frame[th] EXCEPT !.call = to]
  BY <1>1, <1>3
<1>6. /\ frame'[th].call = to
      /\ frame'[th].service = frame[th].service
      /\ frame'[th].ip = frame[th].ip
      /\ frame'[th].dependencies = frame[th].dependencies
  BY <1>2, <1>5 DEF Frames
<1>7. frame' \in [Threads -> Frames] /\ \A other \in Threads \ {th} : frame'[other] = frame[other]
  BY <1>1, <1>3, <1>4
<1> QED
  BY <1>6, <1>7 DEF Proceed

LEMMA LeaveEffect ==
    ASSUME NetworkTypeOK, NEW th \in Threads, Leave(th)
    PROVE  /\ frame' \in [Threads -> Frames]
           /\ frame'[th] = Idle /\ frame'[th].call = "none" /\ frame'[th].ip = 0
           /\ \A other \in Threads \ {th} : frame'[other] = frame[other]
<1>1. Idle \in Frames /\ Idle.call = "none" /\ Idle.ip = 0
  BY NetworkAssumption DEF Idle, Frames, Calls
<1> QED
  BY <1>1 DEF NetworkTypeOK, Leave

\* A container that changes its state, alone.
LEMMA BoxEffect ==
    ASSUME NetworkTypeOK, NEW c \in Ips,
           NEW state \in {"none", "created", "requested", "running", "stopped"},
           box' = [box EXCEPT ![c] = state]
    PROVE  /\ box' \in [Ips -> {"none", "created", "requested", "running", "stopped"}]
           /\ box'[c] = state
           /\ \A other \in Ips \ {c} : box'[other] = box[other]
  BY DEF NetworkTypeOK

LEMMA FrameTypes ==
    ASSUME NetworkTypeOK, NEW th \in Threads
    PROVE  /\ frame[th].call \in Calls
           /\ frame[th].service \in ServiceIDs \cup {NoService}
           /\ frame[th].ip \in 0..Capacity
           /\ frame[th].dependencies \in SUBSET ServiceIDs
  BY DEF NetworkTypeOK, Frames

\* The container of a call that is under way is one of the subnet.
LEMMA ContainerOfCall ==
    ASSUME NetworkTypeOK, FramesFit, NEW th \in Threads, frame[th].call # "none"
    PROVE  Container(th) \in Ips /\ frame[th].service \in ServiceIDs
  BY FrameTypes, NetworkAssumption DEF FramesFit, Container, Ips, NetworkTypeOK

LEMMA NodeTypes ==
    ASSUME NetworkTypeOK, NEW s \in Registered
    PROVE  s \in ServiceIDs /\ serviceNodes[s] \in Ips /\ serviceNodes[s] \in 1..Capacity
  BY DEF NetworkTypeOK, Registered, Ips

-----------------------------------------------------------------------------
(* AddService *)

LEMMA AddServiceKeeps ==
    ASSUME NetworkTypeOK, NetworkInvariant, NEW th \in Threads, NEW s \in ServiceIDs,
           NEW configuration \in Configurations, NEW dependencies \in SUBSET ServiceIDs,
           AddService(th, s, configuration, dependencies)
    PROVE  NetworkTypeOK' /\ NetworkInvariant'
<1>1. /\ handedOut \in Nat /\ handedOut < Capacity /\ handedOut' = handedOut + 1
      /\ Capacity \in Nat
  BY NetworkAssumption DEF NetworkTypeOK, AddService, TakeAddress
<1> DEFINE new == [call |-> "create", service |-> s, ip |-> handedOut + 1,
                   dependencies |-> dependencies]
<1>2. new \in Frames
  BY <1>1 DEF Frames, Calls
<1>3. frame' = [frame EXCEPT ![th] = new] /\ frame \in [Threads -> Frames]
  BY DEF NetworkTypeOK, AddService, TakeAddress
<1>4. /\ frame' \in [Threads -> Frames]
      /\ frame'[th] = new
      /\ \A other \in Threads \ {th} : frame'[other] = frame[other]
  BY <1>2, <1>3
<1>5. /\ frame'[th].call = "create" /\ frame'[th].service = s
      /\ frame'[th].ip = handedOut + 1
  BY <1>4
<1> HIDE DEF new
<1>6. /\ UNCHANGED <<serviceNodes, box, toRemove, builderConfigurations, configurations,
                     forgotten>>
      /\ Registered' = Registered
  BY DEF AddService, TakeAddress, Registered
<1>7. NetworkTypeOK'
  BY <1>1, <1>4, <1>6 DEF NetworkTypeOK
<1>8. FramesFit'
  <2>1. box'[handedOut + 1] = "none"
    BY <1>1, <1>6 DEF NetworkInvariant, FreshAddresses, Ips
  <2> QED
    BY <2>1, <1>1, <1>4, <1>5, <1>6, FrameTypes DEF NetworkInvariant, FramesFit, Removing
<1>9. FreshAddresses' /\ NodesFit'
  BY <1>1, <1>6, NodeTypes DEF NetworkInvariant, FreshAddresses, NodesFit, Ips
<1>10. OneNodePerContainer'
  BY <1>6 DEF NetworkInvariant, OneNodePerContainer
<1>11. FramesOffNodes'
  <2>1. \A r \in Registered : serviceNodes[r] # handedOut + 1
    BY <1>1, NodeTypes DEF NetworkInvariant, NodesFit
  <2> QED
    BY <2>1, <1>4, <1>5, <1>6 DEF NetworkInvariant, FramesOffNodes
<1>12. FramesApart'
  <2>1. \A other \in Threads : frame[other].ip # handedOut + 1
    BY <1>1, FrameTypes DEF NetworkInvariant, FramesFit
  <2> QED
    BY <2>1, <1>4, <1>5 DEF NetworkInvariant, FramesApart
<1> QED
  BY <1>7, <1>8, <1>9, <1>10, <1>11, <1>12 DEF NetworkInvariant

\* A step of an addition: its container changes, and nobody else is concerned.
LEMMA AdditionKeeps ==
    ASSUME NetworkTypeOK, NetworkInvariant, NEW th \in Threads,
           NEW from \in {"create", "start"}, NEW to \in {"start", "starting"},
           NEW state \in {"created", "requested"},
           to = "start" <=> state = "created",
           Proceed(th, from, to), SetBox(th, state),
           UNCHANGED <<builderConfigurations, configurations, serviceNodes, handedOut,
                       toRemove, forgotten>>
    PROVE  NetworkTypeOK' /\ NetworkInvariant'
<1>1. /\ frame' \in [Threads -> Frames]
      /\ frame[th].call = from /\ frame'[th].call = to
      /\ frame'[th].service = frame[th].service
      /\ frame'[th].ip = frame[th].ip
      /\ \A other \in Threads \ {th} : frame'[other] = frame[other]
  BY ProceedEffect DEF Calls
<1> DEFINE c == frame[th].ip
<1>2. c \in Ips /\ c \in 1..handedOut /\ frame[th].service \in ServiceIDs
  BY <1>1, ContainerOfCall DEF NetworkInvariant, Container, FramesFit
<1>3. /\ box' \in [Ips -> {"none", "created", "requested", "running", "stopped"}]
      /\ box'[c] = state
      /\ \A other \in Ips \ {c} : box'[other] = box[other]
  BY <1>2, BoxEffect DEF SetBox, Container
<1>4. Registered' = Registered
  BY DEF Registered
<1>5. \A other \in Threads \ {th} : frame[other].ip # c
  BY <1>1 DEF NetworkInvariant, FramesApart, Adding
<1>6. \A s \in Registered : serviceNodes[s] # c
  BY <1>1 DEF NetworkInvariant, FramesOffNodes
<1>7. NetworkTypeOK'
  BY <1>1, <1>3 DEF NetworkTypeOK
<1>8. FramesFit'
  <2>1. ASSUME NEW t \in Threads, t # th, frame[t].call # "none"
        PROVE  box'[frame[t].ip] = box[frame[t].ip]
    BY <2>1, <1>3, <1>5, ContainerOfCall DEF NetworkInvariant, Container
  <2>2. ASSUME NEW t \in Threads, t # th
        PROVE  /\ frame'[t] = frame[t]
               /\ frame[t].call # "none" => box'[frame'[t].ip] = box[frame[t].ip]
    BY <2>1, <2>2, <1>1
  <2>3. ASSUME NEW t \in Threads, t # th
        PROVE  FramesFit!(t)'
    BY <2>2, <2>3 DEF NetworkInvariant, FramesFit, Removing
  <2>4. FramesFit!(th)'
    BY <1>1, <1>2, <1>3 DEF FramesFit, Removing
  <2> QED
    BY <2>3, <2>4 DEF FramesFit
<1>9. FreshAddresses'
  BY <1>2, <1>3 DEF NetworkInvariant, FreshAddresses, Ips, NetworkTypeOK
<1>10. NodesFit'
  BY <1>3, <1>4, <1>6, NodeTypes DEF NetworkInvariant, NodesFit
<1>11. OneNodePerContainer'
  BY <1>4 DEF NetworkInvariant, OneNodePerContainer
<1>12. FramesOffNodes'
  BY <1>1, <1>4, <1>6 DEF NetworkInvariant, FramesOffNodes
<1>13. FramesApart'
  BY <1>1, <1>5 DEF NetworkInvariant, FramesApart, Adding
<1> QED
  BY <1>7, <1>8, <1>9, <1>10, <1>11, <1>12, <1>13 DEF NetworkInvariant

LEMMA CreateContainerKeeps ==
    ASSUME NetworkTypeOK, NetworkInvariant, NEW th \in Threads, CreateContainer(th)
    PROVE  NetworkTypeOK' /\ NetworkInvariant'
  BY AdditionKeeps DEF CreateContainer

LEMMA RequestStartKeeps ==
    ASSUME NetworkTypeOK, NetworkInvariant, NEW th \in Threads, RequestStart(th)
    PROVE  NetworkTypeOK' /\ NetworkInvariant'
  BY AdditionKeeps DEF RequestStart

\* A call that is left: the containers stay as they are.
LEMMA LeavingKeepsFrames ==
    ASSUME NetworkTypeOK, NetworkInvariant, NEW th \in Threads, Leave(th),
           UNCHANGED <<handedOut, box>>
    PROVE  FramesFit' /\ FramesApart'
<1>1. /\ frame'[th].call = "none" /\ frame'[th].ip = 0
      /\ \A other \in Threads \ {th} : frame'[other] = frame[other]
  BY LeaveEffect
<1>2. FramesFit'
  BY <1>1 DEF NetworkInvariant, FramesFit, Removing
<1>3. FramesApart'
  <2>1. \A other \in Threads : frame[other].call \in Adding => frame[other].ip # 0
    BY FrameTypes, NetworkAssumption DEF NetworkInvariant, FramesFit, NetworkTypeOK, Adding
  <2> QED
    BY <1>1, <2>1 DEF NetworkInvariant, FramesApart, Adding
<1> QED
  BY <1>2, <1>3

LEMMA ServiceStartedKeeps ==
    ASSUME NetworkTypeOK, NetworkInvariant, NEW th \in Threads, ServiceStarted(th)
    PROVE  NetworkTypeOK' /\ NetworkInvariant'
<1> DEFINE c == frame[th].ip
           s == frame[th].service
<1>1. /\ frame[th].call = "starting" /\ Leave(th)
      /\ box[c] \in {"running", "stopped"}
      /\ serviceNodes' = [serviceNodes EXCEPT ![s] = c]
      /\ UNCHANGED <<builderConfigurations, configurations, handedOut, toRemove, box,
                     forgotten>>
  BY DEF ServiceStarted, Container
<1>2. /\ frame' \in [Threads -> Frames]
      /\ frame'[th].call = "none" /\ frame'[th].ip = 0
      /\ \A other \in Threads \ {th} : frame'[other] = frame[other]
  BY <1>1, LeaveEffect
<1>3. c \in Ips /\ c \in 1..handedOut /\ s \in ServiceIDs
  BY <1>1, ContainerOfCall DEF NetworkInvariant, Container, FramesFit
<1>4. /\ serviceNodes' \in [ServiceIDs -> Ips \cup {NoNode}]
      /\ serviceNodes'[s] = c
      /\ \A r \in ServiceIDs \ {s} : serviceNodes'[r] = serviceNodes[r]
  BY <1>1, <1>3 DEF NetworkTypeOK
<1>5. Registered' = Registered \cup {s}
  BY <1>3, <1>4, NetworkAssumption DEF Registered, Ips
<1>6. \A r \in Registered : serviceNodes[r] # c
  BY <1>1 DEF NetworkInvariant, FramesOffNodes
<1>7. \A other \in Threads \ {th} : frame[other].ip # c
  BY <1>1 DEF NetworkInvariant, FramesApart, Adding
<1>8. NetworkTypeOK'
  BY <1>1, <1>2, <1>4 DEF NetworkTypeOK
<1>9. FramesFit' /\ FramesApart'
  BY <1>1, LeavingKeepsFrames
<1>10. FreshAddresses'
  BY <1>1 DEF NetworkInvariant, FreshAddresses
<1>11. NodesFit'
  BY <1>1, <1>3, <1>4, <1>5 DEF NetworkInvariant, NodesFit, Registered
<1>12. OneNodePerContainer'
  BY <1>3, <1>4, <1>5, <1>6 DEF NetworkInvariant, OneNodePerContainer, Registered
<1>13. FramesOffNodes'
  <2>1. ASSUME NEW r \in Registered', frame'[th].ip = serviceNodes'[r]
        PROVE  FALSE
    BY <1>2, <1>3, <1>4, <1>5, <2>1, NodeTypes DEF Registered, Ips
  <2>2. ASSUME NEW other \in Threads \ {th}, NEW r \in Registered',
               frame'[other].ip = serviceNodes'[r]
        PROVE  frame'[other].call = "deleting" /\ frame'[other].service = r
    <3>1. r # s
      BY <2>2, <1>2, <1>4, <1>7
    <3>2. r \in Registered /\ serviceNodes'[r] = serviceNodes[r]
      BY <3>1, <1>4, <1>5 DEF Registered
    <3> QED
      BY <2>2, <3>2, <1>2 DEF NetworkInvariant, FramesOffNodes
  <2> QED
    BY <2>1, <2>2 DEF FramesOffNodes
<1> QED
  BY <1>8, <1>9, <1>10, <1>11, <1>12, <1>13 DEF NetworkInvariant

\* A call that ends without a change of the map.
LEMMA LeavingKeeps ==
    ASSUME NetworkTypeOK, NetworkInvariant, NEW th \in Threads, Leave(th),
           forgotten' \subseteq Ips,
           UNCHANGED <<builderConfigurations, configurations, serviceNodes, handedOut,
                       toRemove, box>>
    PROVE  NetworkTypeOK' /\ NetworkInvariant'
<1>1. /\ frame' \in [Threads -> Frames]
      /\ frame'[th].call = "none" /\ frame'[th].ip = 0
      /\ \A other \in Threads \ {th} : frame'[other] = frame[other]
      /\ Registered' = Registered
  BY LeaveEffect DEF Registered
<1>2. NetworkTypeOK'
  BY <1>1 DEF NetworkTypeOK
<1>3. FramesFit' /\ FramesApart'
  BY LeavingKeepsFrames
<1>4. FreshAddresses' /\ NodesFit' /\ OneNodePerContainer'
  BY <1>1 DEF NetworkInvariant, FreshAddresses, NodesFit, OneNodePerContainer
<1>5. FramesOffNodes'
  BY <1>1, NodeTypes DEF NetworkInvariant, FramesOffNodes
<1> QED
  BY <1>2, <1>3, <1>4, <1>5 DEF NetworkInvariant

LEMMA AddServiceFailsKeeps ==
    ASSUME NetworkTypeOK, NetworkInvariant, NEW th \in Threads, AddServiceFails(th)
    PROVE  NetworkTypeOK' /\ NetworkInvariant'
<1>1. frame[th].call # "none" /\ Leave(th)
  BY DEF AddServiceFails
<1>2. forgotten' \subseteq Ips
  BY <1>1, ContainerOfCall DEF AddServiceFails, NetworkTypeOK, NetworkInvariant
<1> QED
  BY <1>1, <1>2, LeavingKeeps DEF AddServiceFails

-----------------------------------------------------------------------------
(* RemoveService *)

LEMMA RemoveServiceKeeps ==
    ASSUME NetworkTypeOK, NetworkInvariant, NEW th \in Threads, NEW s \in ServiceIDs,
           RemoveService(th, s)
    PROVE  NetworkTypeOK' /\ NetworkInvariant'
<1> DEFINE new == [call |-> "deleting", service |-> s, ip |-> serviceNodes[s],
                   dependencies |-> {}]
<1>1. /\ s \in Registered
      /\ frame' = [frame EXCEPT ![th] = new]
      /\ UNCHANGED <<builderConfigurations, configurations, serviceNodes, handedOut,
                     toRemove, box, forgotten>>
      /\ Registered' = Registered
  BY DEF RemoveService, Registered
<1>2. serviceNodes[s] \in 1..Capacity /\ serviceNodes[s] \in Ips
  BY <1>1, NodeTypes
<1>3. /\ new \in Frames
      /\ new.call = "deleting" /\ new.service = s /\ new.ip = serviceNodes[s]
  BY <1>2 DEF Frames, Calls
<1> HIDE DEF new
<1>4. /\ frame' \in [Threads -> Frames]
      /\ frame'[th].call = "deleting" /\ frame'[th].service = s
      /\ frame'[th].ip = serviceNodes[s]
      /\ \A other \in Threads \ {th} : frame'[other] = frame[other]
  BY <1>1, <1>3 DEF NetworkTypeOK
<1>5. NetworkTypeOK'
  BY <1>1, <1>4 DEF NetworkTypeOK
<1>6. FramesFit'
  <2>1. serviceNodes[s] \in 1..handedOut /\ box[serviceNodes[s]] \in {"running", "stopped"}
    BY <1>1, <1>2, NetworkAssumption DEF NetworkInvariant, NodesFit, NetworkTypeOK
  <2> QED
    BY <1>1, <1>4, <2>1 DEF NetworkInvariant, FramesFit, Removing
<1>7. FreshAddresses' /\ NodesFit' /\ OneNodePerContainer'
  BY <1>1 DEF NetworkInvariant, FreshAddresses, NodesFit, OneNodePerContainer
<1>8. FramesOffNodes'
  BY <1>1, <1>4 DEF NetworkInvariant, FramesOffNodes, OneNodePerContainer
<1>9. FramesApart'
  <2>1. \A other \in Threads : frame[other].call \in Adding => frame[other].ip # serviceNodes[s]
    BY <1>1 DEF NetworkInvariant, FramesOffNodes, Adding
  <2> QED
    BY <1>4, <2>1 DEF NetworkInvariant, FramesApart, Adding
<1> QED
  BY <1>5, <1>6, <1>7, <1>8, <1>9 DEF NetworkInvariant

LEMMA DeleteNodeKeeps ==
    ASSUME NetworkTypeOK, NetworkInvariant, NEW th \in Threads, DeleteNode(th)
    PROVE  NetworkTypeOK' /\ NetworkInvariant'
<1> DEFINE s == frame[th].service
<1>1. /\ Proceed(th, "deleting", "stopping")
      /\ serviceNodes' = [serviceNodes EXCEPT ![s] = NoNode]
      /\ toRemove' = toRemove \ {s}
      /\ UNCHANGED <<builderConfigurations, configurations, handedOut, box, forgotten>>
  BY DEF DeleteNode
<1>2. /\ frame' \in [Threads -> Frames]
      /\ frame[th].call = "deleting" /\ frame'[th].call = "stopping"
      /\ frame'[th].service = s
      /\ frame'[th].ip = frame[th].ip
      /\ \A other \in Threads \ {th} : frame'[other] = frame[other]
  BY <1>1, ProceedEffect DEF Calls
<1>3. s \in ServiceIDs
  BY <1>2, ContainerOfCall DEF NetworkInvariant
<1>4. /\ serviceNodes' \in [ServiceIDs -> Ips \cup {NoNode}]
      /\ \A r \in ServiceIDs \ {s} : serviceNodes'[r] = serviceNodes[r]
      /\ Registered' = Registered \ {s}
  BY <1>1, <1>3 DEF NetworkTypeOK, Registered
<1>5. NetworkTypeOK'
  BY <1>1, <1>2, <1>4 DEF NetworkTypeOK
<1>6. FramesFit'
  BY <1>1, <1>2 DEF NetworkInvariant, FramesFit, Removing
<1>7. FreshAddresses' /\ NodesFit' /\ OneNodePerContainer'
  BY <1>1, <1>4 DEF NetworkInvariant, FreshAddresses, NodesFit, OneNodePerContainer, Registered
<1>8. FramesOffNodes'
  <2>1. ASSUME NEW t \in Threads, NEW r \in Registered', frame'[t].ip = serviceNodes'[r]
        PROVE  frame'[t].call = "deleting" /\ frame'[t].service = r
    <3>1. r \in Registered /\ r # s /\ serviceNodes'[r] = serviceNodes[r]
      BY <1>4 DEF Registered
    <3>2. frame[t].ip = serviceNodes[r]
      BY <2>1, <3>1, <1>2
    <3>3. frame[t].call = "deleting" /\ frame[t].service = r
      BY <3>1, <3>2 DEF NetworkInvariant, FramesOffNodes
    <3> QED
      BY <3>1, <3>3, <1>2
  <2> QED
    BY <2>1 DEF FramesOffNodes
<1>9. FramesApart'
  BY <1>2 DEF NetworkInvariant, FramesApart, Adding
<1> QED
  BY <1>5, <1>6, <1>7, <1>8, <1>9 DEF NetworkInvariant

\* A container that no call is about to start ends or starts: the calls in progress
\* and the nodes are content with either.
LEMMA ContainerKeeps ==
    ASSUME NetworkTypeOK, NetworkInvariant, NEW c \in Ips,
           box[c] \in {"requested", "running"}, NEW state \in {"running", "stopped"},
           box' = [box EXCEPT ![c] = state],
           UNCHANGED <<builderConfigurations, configurations, serviceNodes, handedOut,
                       frame, toRemove, forgotten>>
    PROVE  NetworkTypeOK' /\ NetworkInvariant'
<1>1. /\ box' \in [Ips -> {"none", "created", "requested", "running", "stopped"}]
      /\ box'[c] = state
      /\ \A other \in Ips \ {c} : box'[other] = box[other]
      /\ Registered' = Registered
  BY BoxEffect DEF Registered
<1>2. NetworkTypeOK'
  BY <1>1 DEF NetworkTypeOK
<1>3. FramesFit'
  <2>1. ASSUME NEW t \in Threads, frame[t].call # "none"
        PROVE  frame[t].ip \in Ips
    BY <2>1, ContainerOfCall DEF NetworkInvariant, Container
  <2>2. ASSUME NEW t \in Threads
        PROVE  FramesFit!(t)'
    BY <1>1, <2>1 DEF NetworkInvariant, FramesFit, Removing
  <2> QED
    BY <2>2 DEF FramesFit
<1>4. FreshAddresses'
  BY <1>1 DEF NetworkInvariant, FreshAddresses
<1>5. NodesFit'
  BY <1>1, NodeTypes DEF NetworkInvariant, NodesFit
<1>6. OneNodePerContainer' /\ FramesOffNodes' /\ FramesApart'
  BY <1>1 DEF NetworkInvariant, OneNodePerContainer, FramesOffNodes, FramesApart
<1> QED
  BY <1>2, <1>3, <1>4, <1>5, <1>6 DEF NetworkInvariant

LEMMA EngineKeeps ==
    ASSUME NetworkTypeOK, NetworkInvariant, NEW c \in Ips,
           LandStart(c) \/ StartIsRefused(c) \/ ServiceEnds(c)
    PROVE  NetworkTypeOK' /\ NetworkInvariant'
  BY ContainerKeeps DEF LandStart, StartIsRefused, ServiceEnds, SetContainer

\* Leaving a stop that was carried out: the container ends, then the call.
LEMMA ServiceStoppedKeeps ==
    ASSUME NetworkTypeOK, NetworkInvariant, NEW th \in Threads, ServiceStopped(th)
    PROVE  NetworkTypeOK' /\ NetworkInvariant'
<1> DEFINE c == frame[th].ip
<1>1. /\ frame[th].call = "stopping" /\ Leave(th)
      /\ \/ box[c] = "running" /\ box' = [box EXCEPT ![c] = "stopped"]
         \/ UNCHANGED box
      /\ UNCHANGED <<builderConfigurations, configurations, serviceNodes, handedOut,
                     toRemove, forgotten>>
  BY DEF ServiceStopped, SetBox, Container
<1>2. CASE UNCHANGED box
  BY <1>1, <1>2, LeavingKeeps DEF NetworkTypeOK
<1>3. CASE box[c] = "running" /\ box' = [box EXCEPT ![c] = "stopped"]
  <2>1. c \in Ips
    BY <1>1, ContainerOfCall DEF NetworkInvariant, Container
  <2>2. /\ box' \in [Ips -> {"none", "created", "requested", "running", "stopped"}]
        /\ box'[c] = "stopped"
        /\ \A other \in Ips \ {c} : box'[other] = box[other]
    BY <1>3, <2>1, BoxEffect
  <2>3. /\ frame' \in [Threads -> Frames]
        /\ frame'[th].call = "none" /\ frame'[th].ip = 0
        /\ \A other \in Threads \ {th} : frame'[other] = frame[other]
        /\ Registered' = Registered
    BY <1>1, LeaveEffect DEF Registered
  <2>4. NetworkTypeOK'
    BY <1>1, <2>2, <2>3 DEF NetworkTypeOK
  <2>5. FramesFit'
    <3>1. ASSUME NEW t \in Threads, frame[t].call # "none"
          PROVE  frame[t].ip \in Ips
      BY <3>1, ContainerOfCall DEF NetworkInvariant, Container
    <3>2. ASSUME NEW t \in Threads \ {th}
          PROVE  FramesFit!(t)'
      BY <1>1, <1>3, <2>2, <2>3, <3>1 DEF NetworkInvariant, FramesFit, Removing
    <3>3. FramesFit!(th)'
      BY <2>3 DEF FramesFit, Removing
    <3> QED
      BY <3>2, <3>3 DEF FramesFit
  <2>6. FreshAddresses'
    BY <1>1, <1>3, <2>2 DEF NetworkInvariant, FreshAddresses
  <2>7. NodesFit'
    BY <1>1, <2>2, <2>3, NodeTypes DEF NetworkInvariant, NodesFit
  <2>8. OneNodePerContainer'
    BY <1>1, <2>3 DEF NetworkInvariant, OneNodePerContainer
  <2>9. FramesOffNodes'
    BY <1>1, <2>3, NodeTypes DEF NetworkInvariant, FramesOffNodes
  <2>10. FramesApart'
    <3>1. \A other \in Threads : frame[other].call \in Adding => frame[other].ip # 0
      BY FrameTypes, NetworkAssumption DEF NetworkInvariant, FramesFit, NetworkTypeOK, Adding
    <3> QED
      BY <2>3, <3>1 DEF NetworkInvariant, FramesApart, Adding
  <2> QED
    BY <2>4, <2>5, <2>6, <2>7, <2>8, <2>9, <2>10 DEF NetworkInvariant
<1> QED
  BY <1>1, <1>2, <1>3

LEMMA StopFailsKeeps ==
    ASSUME NetworkTypeOK, NetworkInvariant, NEW th \in Threads, StopFails(th)
    PROVE  NetworkTypeOK' /\ NetworkInvariant'
<1>1. frame[th].call # "none" /\ Leave(th)
  BY DEF StopFails
<1>2. forgotten' \subseteq Ips
  BY <1>1, ContainerOfCall DEF StopFails, NetworkTypeOK, NetworkInvariant
<1> QED
  BY <1>1, <1>2, LeavingKeeps DEF StopFails

-----------------------------------------------------------------------------
(* What moves no call and no container *)

LEMMA BookkeepingKeeps ==
    ASSUME NetworkTypeOK, NetworkInvariant,
           builderConfigurations' \subseteq Configurations,
           configurations' \subseteq builderConfigurations',
           toRemove' \subseteq ServiceIDs,
           UNCHANGED <<serviceNodes, handedOut, frame, box, forgotten>>
    PROVE  NetworkTypeOK' /\ NetworkInvariant'
<1>1. Registered' = Registered
  BY DEF Registered
<1>2. NetworkTypeOK'
  BY DEF NetworkTypeOK
<1> QED
  BY <1>1, <1>2 DEF NetworkInvariant, FramesFit, FreshAddresses, NodesFit,
     OneNodePerContainer, FramesOffNodes, FramesApart

LEMMA BuilderKeeps ==
    ASSUME NetworkTypeOK, NetworkInvariant,
           Build \/ \E c \in Configurations : AddConfiguration(c)
    PROVE  NetworkTypeOK' /\ NetworkInvariant'
  BY BookkeepingKeeps DEF Build, AddConfiguration, NetworkTypeOK

LEMMA BeginRemoveAllKeeps ==
    ASSUME NetworkTypeOK, NetworkInvariant, BeginRemoveAll
    PROVE  NetworkTypeOK' /\ NetworkInvariant'
  BY BookkeepingKeeps DEF BeginRemoveAll, NetworkTypeOK, Registered

LEMMA StutterKeeps ==
    ASSUME NetworkTypeOK, NetworkInvariant, UNCHANGED networkVars
    PROVE  NetworkTypeOK' /\ NetworkInvariant'
  BY BookkeepingKeeps DEF networkVars, NetworkTypeOK

LEMMA NewNetworkFits == NewNetwork => NetworkTypeOK /\ NetworkInvariant
<1> SUFFICES ASSUME NewNetwork
             PROVE  NetworkTypeOK /\ NetworkInvariant
  OBVIOUS
<1>1. /\ Idle \in Frames /\ Idle.call = "none" /\ Idle.ip = 0
      /\ 0 \in 0..Capacity
  BY NetworkAssumption DEF Idle, Frames, Calls
<1>2. NetworkTypeOK
  BY <1>1 DEF NewNetwork, NetworkTypeOK
<1>3. Registered = {}
  BY DEF NewNetwork, Registered
<1>4. \A th \in Threads : frame[th].call = "none" /\ frame[th].ip = 0
  BY <1>1 DEF NewNetwork
<1> QED
  BY <1>2, <1>3, <1>4 DEF NewNetwork, NetworkInvariant, FramesFit, FreshAddresses, NodesFit,
     OneNodePerContainer, FramesOffNodes, FramesApart, Adding, Removing
=============================================================================
