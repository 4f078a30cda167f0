------------------------- MODULE TestNetworkAddresses -------------------------
(***************************************************************************)
(* Who gets which IP address.  buildTestParams cuts one subnet per test.   *)
(* For each test the initializer makes a FreeIpAddrTracker of the subnet   *)
(* and takes the gateway's and the controller's address from it; the       *)
(* controller, another process, makes its own tracker, told of these two   *)
(* addresses only, and takes one address for every service it adds.        *)
(*                                                                         *)
(* Addresses are uint32 numbers: AddressSpace is 2^32, and networkSize is  *)
(* 2^networkWidthBits, which the user chooses, in the code.                *)
(***************************************************************************)
EXTENDS Integers, FiniteSets, Functions

CONSTANTS
    Tests,
    AddressSpace,
    NetworkSizes,    \* bound: the network sizes users choose
    SubnetStart,     \* SUBNET_START_ADDR
    NoIp

Addresses == 0..AddressSpace - 1

ASSUME AddressesAssumption ==
    /\ IsFiniteSet(Tests)
    /\ AddressSpace \in Nat \ {0} /\ NetworkSizes \subseteq Nat \ {0}
    /\ SubnetStart \in Addresses
    /\ NoIp \notin Addresses

VARIABLES
    networkSize,
    subnetStart,       \* test -> the address written in its subnet mask
    stage,             \* test -> how far it is
    gatewayIp, controllerIp,
    initializerTaken,  \* test -> takenIps of the initializer's tracker
    controllerTaken,   \* test -> takenIps of the controller's tracker
    refused,           \* test -> a tracker found all addresses taken
    users              \* address -> how many gateways and containers have it

vars == <<networkSize, subnetStart, stage, gatewayIp, controllerIp, initializerTaken,
          controllerTaken, refused, users>>

\* ParseCIDR: the network that an address lies in.
NetworkOf(ip) == (ip \div networkSize) * networkSize

Subnet(t) == NetworkOf(subnetStart[t])

\* Mutation variant: the next subnet starts at the last address of this one.
SubnetMasksTooClose(index) ==
    [t \in Tests |-> (SubnetStart + index[t] * (networkSize - 1)) % AddressSpace]

\* buildTestParams; index is the position of the test in the range over the map.
SubnetMasks(index) ==
    [t \in Tests |-> (SubnetStart + index[t] * networkSize) % AddressSpace]

Init ==
    /\ networkSize \in NetworkSizes
    /\ \E index \in Injection(Tests, 0..Cardinality(Tests) - 1) :
          subnetStart = SubnetMasks(index)
    /\ stage = [t \in Tests |-> "queued"]
    /\ gatewayIp = [t \in Tests |-> NoIp]
    /\ controllerIp = [t \in Tests |-> NoIp]
    /\ initializerTaken = [t \in Tests |-> {}]
    /\ controllerTaken = [t \in Tests |-> {}]
    /\ refused = [t \in Tests |-> FALSE]
    /\ users = [a \in Addresses |-> 0]

-----------------------------------------------------------------------------
(* FreeIpAddrTracker.GetFreeIpAddr *)

Start(network)  == (network + 1) % AddressSpace

\* Mutation variant: the last address is counted from the first one.
FinishFromStart(network) == Start(network) + networkSize - 1

Finish(network) == NetworkOf(Start(network)) + networkSize - 1

\* Mutation variant: the loop stops one address early.
FreeBelow(network, taken) == (Start(network)..(Finish(network) - 1)) \ taken

\* What the loop from Start to Finish would find free.
Free(network, taken) == (Start(network)..Finish(network)) \ taken

\* In the last network of the address space i <= finish is always true: the
\* loop counter wraps and the search goes on from address 0.
Wraps(network) == Finish(network) = AddressSpace - 1

Found(network, taken) ==
    IF Free(network, taken) = {} /\ Wraps(network) THEN Addresses \ taken
    ELSE Free(network, taken)

GetFreeIpAddr(network, taken, ip) ==
    /\ ip \in Found(network, taken)
    /\ \A other \in Found(network, taken) : ip <= other

AllTaken(network, taken) == Found(network, taken) = {} /\ ~Wraps(network)

-----------------------------------------------------------------------------
(* runTestGoroutine *)

Stage(t, from, to) == stage[t] = from /\ stage' = [stage EXCEPT ![t] = to]

\* A container or the gateway holds the address.
Use(ip) == users' = [users EXCEPT ![ip] = @ + 1]

Refuse(t) ==
    /\ refused' = [refused EXCEPT ![t] = TRUE]
    /\ UNCHANGED <<gatewayIp, controllerIp, initializerTaken, controllerTaken, users>>

\* A fresh tracker always has an address.
GetGatewayIp(t) ==
    /\ Stage(t, "queued", "network")
    /\ \E ip \in Addresses :
          /\ GetFreeIpAddr(Subnet(t), initializerTaken[t], ip)
          /\ gatewayIp' = [gatewayIp EXCEPT ![t] = ip]
          /\ initializerTaken' = [initializerTaken EXCEPT ![t] = @ \cup {ip}]
          /\ Use(ip)
    /\ UNCHANGED <<networkSize, subnetStart, controllerIp, controllerTaken, refused>>

GetControllerIp(t) ==
    /\ \/ /\ Stage(t, "network", "launched")
          /\ \E ip \in Addresses :
                /\ GetFreeIpAddr(Subnet(t), initializerTaken[t], ip)
                /\ controllerIp' = [controllerIp EXCEPT ![t] = ip]
                /\ initializerTaken' = [initializerTaken EXCEPT ![t] = @ \cup {ip}]
                /\ Use(ip)
          /\ UNCHANGED <<gatewayIp, controllerTaken, refused>>
       \/ /\ Stage(t, "network", "ended")
          /\ AllTaken(Subnet(t), initializerTaken[t])
          /\ Refuse(t)
    /\ UNCHANGED <<networkSize, subnetStart>>

-----------------------------------------------------------------------------
(* The controller *)

\* Mutation variant: the controller forgets its own address.
MakeTrackerWithoutController(t) ==
    /\ Stage(t, "launched", "running")
    /\ controllerTaken' = [controllerTaken EXCEPT ![t] = {gatewayIp[t]}]
    /\ UNCHANGED <<networkSize, subnetStart, gatewayIp, controllerIp, initializerTaken,
                   refused, users>>

MakeTracker(t) ==
    /\ Stage(t, "launched", "running")
    /\ controllerTaken' = [controllerTaken EXCEPT ![t] = {gatewayIp[t], controllerIp[t]}]
    /\ UNCHANGED <<networkSize, subnetStart, gatewayIp, controllerIp, initializerTaken,
                   refused, users>>

\* AddService: the address stays taken when CreateService fails, and a failed
\* CreateService may have started the container.
AddService(t) ==
    /\ stage[t] = "running"
    /\ \/ /\ \E ip \in Addresses :
                /\ GetFreeIpAddr(Subnet(t), controllerTaken[t], ip)
                /\ controllerTaken' = [controllerTaken EXCEPT ![t] = @ \cup {ip}]
                /\ Use(ip) \/ UNCHANGED users
          /\ UNCHANGED <<gatewayIp, controllerIp, initializerTaken, refused>>
       \/ AllTaken(Subnet(t), controllerTaken[t]) /\ Refuse(t)
    /\ UNCHANGED <<networkSize, subnetStart, stage>>

\* Mutation variant: a service is stopped twice.
RemoveServiceTwice(t) ==
    /\ stage[t] = "running"
    /\ \E ip \in controllerTaken[t] \ {gatewayIp[t], controllerIp[t]} :
          users' = [users EXCEPT ![ip] = @ - 1]
    /\ UNCHANGED <<networkSize, subnetStart, stage, gatewayIp, controllerIp,
                   initializerTaken, controllerTaken, refused>>

\* RemoveService, when the container does stop.  The tracker is not told.
RemoveService(t) ==
    /\ stage[t] = "running"
    /\ \E ip \in controllerTaken[t] \ {gatewayIp[t], controllerIp[t]} :
          /\ users[ip] > 0
          /\ users' = [users EXCEPT ![ip] = @ - 1]
    /\ UNCHANGED <<networkSize, subnetStart, stage, gatewayIp, controllerIp, initializerTaken,
                   controllerTaken, refused>>

Finished == (\A t \in Tests : stage[t] = "ended") /\ UNCHANGED vars

Next ==
    \/ \E t \in Tests :
          \/ GetGatewayIp(t) \/ GetControllerIp(t)
          \/ MakeTracker(t) \/ AddService(t) \/ RemoveService(t)
    \/ Finished

Spec == Init /\ [][Next]_vars

-----------------------------------------------------------------------------
(* Properties *)

\* The types of the variables.
TypeOK ==
    /\ networkSize \in NetworkSizes
    /\ subnetStart \in [Tests -> Addresses]
    /\ stage \in [Tests -> {"queued", "network", "launched", "running", "ended"}]
    /\ gatewayIp \in [Tests -> Addresses \cup {NoIp}]
    /\ controllerIp \in [Tests -> Addresses \cup {NoIp}]
    /\ initializerTaken \in [Tests -> SUBSET Addresses]
    /\ controllerTaken \in [Tests -> SUBSET Addresses]
    /\ refused \in [Tests -> BOOLEAN]
    /\ users \in [Addresses -> Nat]

\* The subnets of all tests end before the address space does, and each has an
\* address besides its network's.  buildTestParams does not check it.
SuiteFits ==
    /\ networkSize >= 2
    /\ SubnetStart + Cardinality(Tests) * networkSize < AddressSpace

\* No address is held twice, by whatever gateways, controllers and services of
\* whatever tests, though two processes hand out the addresses of a network.
NoAddressHeldTwice == SuiteFits => \A a \in Addresses : users[a] <= 1

\* The addresses of a test's network, its own address left out.
HostAddresses(t) == (Subnet(t) + 1)..(Subnet(t) + networkSize - 1)

\* "An IP from the subnet the tracker was initialized with": what either tracker
\* of a test hands out is a host address of that test's network.
AddressesFromOwnSubnet ==
    SuiteFits => \A t \in Tests : initializerTaken[t] \cup controllerTaken[t] \subseteq HostAddresses(t)

\* A tracker reports that all are taken only if every host address of the
\* network has been handed out.
RefusedOnlyWhenAllTaken ==
    SuiteFits => \A t \in Tests : refused[t] =>
        HostAddresses(t) \subseteq initializerTaken[t] \cup controllerTaken[t]

-----------------------------------------------------------------------------
(* The inductive invariant behind the three *)

SubnetsApart ==
    SuiteFits =>
        /\ \A t \in Tests : Subnet(t) + networkSize < AddressSpace
        /\ \A s, t \in Tests : s # t =>
              \/ Subnet(s) + networkSize <= Subnet(t)
              \/ Subnet(t) + networkSize <= Subnet(s)

\* The controller's tracker knows what the initializer's has handed out.
TrackersAgree ==
    \A t \in Tests :
        /\ stage[t] = "queued" => initializerTaken[t] = {}
        /\ stage[t] = "network" => initializerTaken[t] = {gatewayIp[t]}
        /\ stage[t] \in {"launched", "running"} =>
              initializerTaken[t] = {gatewayIp[t], controllerIp[t]}
        /\ stage[t] = "running" => initializerTaken[t] \subseteq controllerTaken[t]
        /\ stage[t] # "running" => controllerTaken[t] = {}

UsedAddressesAreTaken ==
    \A a \in Addresses : users[a] > 0 =>
        \E t \in Tests : a \in initializerTaken[t] \cup controllerTaken[t]

\* An address in use is taken in the tracker of its own test, which is the only
\* one that searches its subnet, so the address found free has no user.
InductiveInvariant ==
    /\ TypeOK
    /\ SubnetsApart
    /\ TrackersAgree
    /\ UsedAddressesAreTaken
    /\ NoAddressHeldTwice
    /\ AddressesFromOwnSubnet
    /\ RefusedOnlyWhenAllTaken
=============================================================================
