---------------------------- MODULE ServiceNetwork ----------------------------
(***************************************************************************)
(* The network of services of one test, inside its controller: the builder *)
(* of configurations, ServiceNetwork with its map of nodes, the service    *)
(* initializer and the Docker calls it makes, and the service containers.  *)
(*                                                                         *)
(* Two goroutines use the object without a lock: the main one, which       *)
(* initializes the network and removes it, and the one that runs the test. *)
(* A call in progress is a frame of its goroutine.  The actions below are  *)
(* the steps of the calls; the controller conjoins them with its own state.*)
(*                                                                         *)
(* A service's address is also the name of its container: AddService takes *)
(* the lowest free address, and none is given back (TestNetworkAddresses). *)
(***************************************************************************)
EXTENDS Integers

CONSTANTS
    ServiceIDs,
    Configurations,
    Capacity,        \* host addresses the subnet has left for services
    NoNode,          \* the service ID is not in the map
    NoService

ASSUME NetworkAssumption ==
    /\ Capacity \in Nat
    /\ NoNode \notin Nat
    /\ NoService \notin ServiceIDs

Ips == 1..Capacity
Threads == {"main", "test"}

VARIABLES
    builderConfigurations, configurations,  \* of the builder, of the network
    serviceNodes,
    handedOut,       \* addresses 1..handedOut are taken
    frame,           \* the network call each goroutine is in
    toRemove,        \* what the range loop of RemoveAll has to come to
    box,             \* the engine: the container of each address
    forgotten        \* history: containers whose addition gave up after the start was
                     \* requested, or whose stop failed

networkVars == <<builderConfigurations, configurations, serviceNodes, handedOut,
                 frame, toRemove, box, forgotten>>

Calls  == {"none", "create", "start", "starting", "deleting", "stopping"}
Frames == [call : Calls, service : ServiceIDs \cup {NoService}, ip : 0..Capacity,
           dependencies : SUBSET ServiceIDs]
Idle   == [call |-> "none", service |-> NoService, ip |-> 0, dependencies |-> {}]

Registered == {s \in ServiceIDs : serviceNodes[s] # NoNode}

\* Containers that run, or will when the engine gets to it.
Up == {c \in Ips : box[c] \in {"requested", "running"}}

NewNetwork ==
    /\ builderConfigurations = {} /\ configurations = {}
    /\ serviceNodes = [s \in ServiceIDs |-> NoNode]
    /\ handedOut = 0
    /\ frame = [th \in Threads |-> Idle]
    /\ toRemove = {}
    /\ box = [c \in Ips |-> "none"]
    /\ forgotten = {}

-----------------------------------------------------------------------------
(* ServiceNetworkBuilder *)

\* The user may keep the builder, and use it after Build.
AddConfiguration(c) ==
    /\ c \notin builderConfigurations
    /\ builderConfigurations' = builderConfigurations \cup {c}
    /\ UNCHANGED <<configurations, serviceNodes, handedOut, frame, toRemove, box,
                   forgotten>>

\* The network gets a copy.
Build ==
    /\ configurations' = builderConfigurations
    /\ UNCHANGED <<builderConfigurations, serviceNodes, handedOut, frame, toRemove,
                   box, forgotten>>

-----------------------------------------------------------------------------
(* AddService, up to the registration of the node *)

\* Mutation variant: no check of what the subnet has left.
TakeAnyAddress(th, s, dependencies) ==
    /\ handedOut' = handedOut + 1
    /\ frame' = [frame EXCEPT ![th] = [call |-> "create", service |-> s,
                    ip |-> handedOut + 1, dependencies |-> dependencies]]
    /\ UNCHANGED <<builderConfigurations, configurations, serviceNodes, toRemove,
                   box, forgotten>>

TakeAddress(th, s, dependencies) ==
    /\ handedOut < Capacity
    /\ handedOut' = handedOut + 1
    /\ frame' = [frame EXCEPT ![th] = [call |-> "create", service |-> s,
                    ip |-> handedOut + 1, dependencies |-> dependencies]]
    /\ UNCHANGED <<builderConfigurations, configurations, serviceNodes, toRemove,
                   box, forgotten>>

\* Mutation variants: a service ID is not checked, or the dependencies are not.
AddServiceAgain(th, s, configuration, dependencies) ==
    /\ frame[th] = Idle
    /\ configuration \in configurations
    /\ dependencies \subseteq Registered
    /\ TakeAddress(th, s, dependencies)

AddServiceBeforeDependencies(th, s, configuration, dependencies) ==
    /\ frame[th] = Idle
    /\ configuration \in configurations
    /\ s \notin Registered
    /\ TakeAddress(th, s, dependencies)

\* The error returns before the address is taken change nothing.
AddService(th, s, configuration, dependencies) ==
    /\ frame[th] = Idle
    /\ configuration \in configurations
    /\ s \notin Registered
    /\ dependencies \subseteq Registered
    /\ TakeAddress(th, s, dependencies)

Container(th) == frame[th].ip

Proceed(th, from, to) ==
    /\ frame[th].call = from
    /\ frame' = [frame EXCEPT ![th].call = to]

Leave(th) == frame' = [frame EXCEPT ![th] = Idle]

SetBox(th, state) == box' = [box EXCEPT ![Container(th)] = state]

\* CreateService up to ContainerCreate, with the connection to the network.
\* The files are created before; an error of InitializeMountedFiles is
\* overwritten, so it makes no difference.
CreateContainer(th) ==
    /\ Proceed(th, "create", "start")
    /\ SetBox(th, "created")
    /\ UNCHANGED <<builderConfigurations, configurations, serviceNodes, handedOut,
                   toRemove, forgotten>>

RequestStart(th) ==
    /\ Proceed(th, "start", "starting")
    /\ SetBox(th, "requested")
    /\ UNCHANGED <<builderConfigurations, configurations, serviceNodes, handedOut,
                   toRemove, forgotten>>

\* Mutation variant: the node is registered before the engine has answered.
RegisterEarly(th) ==
    /\ frame[th].call = "starting"
    /\ serviceNodes' = [serviceNodes EXCEPT ![frame[th].service] = Container(th)]
    /\ Leave(th)
    /\ UNCHANGED <<builderConfigurations, configurations, handedOut, toRemove, box,
                   forgotten>>

\* ContainerStart is answered; the container may have ended by then.
ServiceStarted(th) ==
    /\ frame[th].call = "starting"
    /\ box[Container(th)] \in {"running", "stopped"}
    /\ serviceNodes' = [serviceNodes EXCEPT ![frame[th].service] = Container(th)]
    /\ Leave(th)
    /\ UNCHANGED <<builderConfigurations, configurations, handedOut, toRemove, box,
                   forgotten>>

\* A directory, a file, the start command, the engine, or, once the container
\* runs, the user's GetServiceFromIp: the address and the container are forgotten.
\* A request that was sent may be carried out all the same.
AddServiceFails(th) ==
    /\ frame[th].call \in {"create", "start", "starting"}
    /\ forgotten' = forgotten \cup (IF frame[th].call = "starting" THEN {Container(th)} ELSE {})
    /\ Leave(th)
    /\ UNCHANGED <<builderConfigurations, configurations, serviceNodes, handedOut,
                   toRemove, box>>

-----------------------------------------------------------------------------
(* RemoveService: the node is deleted first, the stop is a best effort *)

\* The node is read here and deleted in the next step: another goroutine may come
\* between the two.
RemoveService(th, s) ==
    /\ frame[th] = Idle
    /\ s \in Registered
    /\ frame' = [frame EXCEPT ![th] = [call |-> "deleting", service |-> s,
                    ip |-> serviceNodes[s], dependencies |-> {}]]
    /\ UNCHANGED <<builderConfigurations, configurations, serviceNodes, handedOut,
                   toRemove, box, forgotten>>

\* Mutation variant: the node is kept.
KeepNode(th) ==
    /\ Proceed(th, "deleting", "stopping")
    /\ UNCHANGED <<builderConfigurations, configurations, serviceNodes, handedOut,
                   toRemove, box, forgotten>>

\* An entry that is deleted is no longer owed to a range loop in progress.
DeleteNode(th) ==
    /\ Proceed(th, "deleting", "stopping")
    /\ serviceNodes' = [serviceNodes EXCEPT ![frame[th].service] = NoNode]
    /\ toRemove' = toRemove \ {frame[th].service}
    /\ UNCHANGED <<builderConfigurations, configurations, handedOut, box, forgotten>>

\* Stopping a container that does not run is no error and does nothing.
ServiceStopped(th) ==
    /\ frame[th].call = "stopping"
    /\ IF box[Container(th)] = "running" THEN SetBox(th, "stopped") ELSE UNCHANGED box
    /\ Leave(th)
    /\ UNCHANGED <<builderConfigurations, configurations, serviceNodes, handedOut,
                   toRemove, forgotten>>

\* The error is printed and dropped.
StopFails(th) ==
    /\ frame[th].call = "stopping"
    /\ forgotten' = forgotten \cup {Container(th)}
    /\ Leave(th)
    /\ UNCHANGED <<builderConfigurations, configurations, serviceNodes, handedOut,
                   toRemove, box>>

-----------------------------------------------------------------------------
(* RemoveAll: it ranges over the map it deletes from *)

BeginRemoveAll ==
    /\ toRemove' = Registered
    /\ UNCHANGED <<builderConfigurations, configurations, serviceNodes, handedOut,
                   frame, box, forgotten>>

\* An entry added meanwhile may be produced or left out.
RemoveAllNext == \E s \in Registered : RemoveService("main", s)

\* Mutation variant: the loop ends with nodes left to remove.
StopsRemovingEarly == frame["main"] = Idle

RemoveAllDone == frame["main"] = Idle /\ toRemove = {}

-----------------------------------------------------------------------------
(* The engine *)

SetContainer(c, from, to) ==
    /\ box[c] = from
    /\ box' = [box EXCEPT ![c] = to]
    /\ UNCHANGED <<builderConfigurations, configurations, serviceNodes, handedOut,
                   frame, toRemove, forgotten>>

LandStart(c) == SetContainer(c, "requested", "running")

\* The network was removed meanwhile: the container does not start.
StartIsRefused(c) == SetContainer(c, "requested", "stopped")

\* A service ends by itself, or because of a stop nobody waits for.
ServiceEnds(c) == SetContainer(c, "running", "stopped")

-----------------------------------------------------------------------------
NetworkTypeOK ==
    /\ builderConfigurations \subseteq Configurations
    /\ configurations \subseteq builderConfigurations
    /\ serviceNodes \in [ServiceIDs -> Ips \cup {NoNode}]
    /\ handedOut \in 0..Capacity
    /\ frame \in [Threads -> Frames]
    /\ toRemove \subseteq ServiceIDs
    /\ box \in [Ips -> {"none", "created", "requested", "running", "stopped"}]
    /\ forgotten \subseteq Ips

-----------------------------------------------------------------------------
(* What the network's own steps keep, whatever the two goroutines do with it *)

Adding   == {"create", "start", "starting"}
Removing == {"deleting", "stopping"}

\* The container a call is about is as far as the call is.
FramesFit ==
    \A th \in Threads :
        /\ frame[th].call = "none" => frame[th].ip = 0
        /\ frame[th].call # "none" =>
              frame[th].service \in ServiceIDs /\ frame[th].ip \in 1..handedOut
        /\ frame[th].call = "create" => box[frame[th].ip] = "none"
        /\ frame[th].call = "start" => box[frame[th].ip] = "created"
        /\ frame[th].call = "starting" =>
              box[frame[th].ip] \in {"requested", "running", "stopped"}
        /\ frame[th].call \in Removing => box[frame[th].ip] \in {"running", "stopped"}

FreshAddresses == \A c \in Ips : c > handedOut => box[c] = "none"

NodesFit ==
    \A s \in Registered :
        /\ serviceNodes[s] <= handedOut
        /\ box[serviceNodes[s]] \in {"running", "stopped"}

OneNodePerContainer ==
    \A s, t \in Registered : serviceNodes[s] = serviceNodes[t] => s = t

\* A container that is registered is in no call but one that is about to delete it.
FramesOffNodes ==
    \A th \in Threads, s \in Registered :
        frame[th].ip = serviceNodes[s] => frame[th].call = "deleting" /\ frame[th].service = s

\* A container that is being added is in one call only.
FramesApart ==
    \A th, other \in Threads :
        th # other /\ frame[th].call \in Adding => frame[other].ip # frame[th].ip

NetworkInvariant ==
    FramesFit /\ FreshAddresses /\ NodesFit /\ OneNodePerContainer /\ FramesOffNodes
      /\ FramesApart
=============================================================================
