---------------------- MODULE TestNetworkAddressesProofs ----------------------
(***************************************************************************)
(* Proofs about TestNetworkAddresses, for any number of tests, any network *)
(* size and any size of the address space.                                 *)
(***************************************************************************)
EXTENDS TestNetworkAddresses, FiniteSetTheorems, TLAPS

-----------------------------------------------------------------------------
(* Arithmetic of the masks *)

\* The quotient is the only number that brackets the dividend.
LEMMA QuotientIsUnique ==
    ASSUME NEW a \in Nat, NEW n \in Nat \ {0}, NEW q \in Nat,
           q * n <= a, a < q * n + n
    PROVE  a \div n = q
<1>1. a \div n \in Nat /\ n * (a \div n) <= a /\ a < n * (a \div n) + n
    BY Z3
<1> DEFINE d == a \div n
<1>2. d \in Nat /\ n * d <= a /\ a < n * d + n
    BY <1>1
<1> HIDE DEF d
<1>3. ~(d < q)
    BY <1>2, Z3
<1>4. ~(q < d)
    BY <1>2, Z3
<1>5. d = q
    BY <1>2, <1>3, <1>4
<1> QED
    BY <1>5 DEF d

\* Moving an address up by i networks moves its network up by i.
LEMMA QuotientOfMultiple ==
    ASSUME NEW a \in Nat, NEW n \in Nat \ {0}, NEW i \in Nat
    PROVE  (a + i * n) \div n = a \div n + i
<1> DEFINE d == a \div n
<1>1. d \in Nat /\ n * d <= a /\ a < n * d + n
    BY Z3
<1> HIDE DEF d
<1>2. a + i * n \in Nat /\ d + i \in Nat
    BY <1>1, Z3
<1>3. (d + i) * n <= a + i * n /\ a + i * n < (d + i) * n + n
    BY <1>1, Z3
<1>4. (a + i * n) \div n = d + i
    BY <1>2, <1>3, QuotientIsUnique
<1>5. QED
    BY <1>4 DEF d

\* A network starts at or below each of its addresses.
LEMMA NetworkBelowAddress ==
    ASSUME NEW a \in Nat, networkSize \in Nat \ {0}
    PROVE  NetworkOf(a) \in Nat /\ NetworkOf(a) <= a
BY Z3 DEF NetworkOf

\* The loop of GetFreeIpAddr runs over the host addresses of the network, and
\* its bound is not the last address there is.
LEMMA LoopBounds ==
    ASSUME TypeOK, SuiteFits, SubnetsApart, NEW t \in Tests
    PROVE  /\ Subnet(t) \in Nat
           /\ Start(Subnet(t)) = Subnet(t) + 1
           /\ Finish(Subnet(t)) = Subnet(t) + networkSize - 1
           /\ ~Wraps(Subnet(t))
<1>1. networkSize \in Nat \ {0} /\ networkSize >= 2 /\ AddressSpace \in Nat \ {0}
    BY AddressesAssumption DEF TypeOK, SuiteFits
<1>2. subnetStart[t] \in Nat
    BY AddressesAssumption DEF TypeOK, Addresses
<1> DEFINE q == subnetStart[t] \div networkSize
<1>3. q \in Nat
    BY <1>1, <1>2, Z3
<1>4. Subnet(t) = q * networkSize
    BY DEF Subnet, NetworkOf
<1> HIDE DEF q
<1>5. Subnet(t) \in Nat /\ Subnet(t) + 1 \in Nat
    BY <1>1, <1>3, <1>4, Z3
<1>6. Subnet(t) + networkSize < AddressSpace
    BY DEF SubnetsApart
<1>7. Start(Subnet(t)) = Subnet(t) + 1
    BY <1>1, <1>5, <1>6 DEF Start
<1>8. (Subnet(t) + 1) \div networkSize = q
    <2>1. q * networkSize <= Subnet(t) + 1 /\ Subnet(t) + 1 < q * networkSize + networkSize
        BY <1>1, <1>3, <1>4, <1>5
    <2>2. QED
        BY <2>1, <1>1, <1>3, <1>5, QuotientIsUnique
<1>9. Finish(Subnet(t)) = Subnet(t) + networkSize - 1
    BY <1>4, <1>7, <1>8 DEF Finish, NetworkOf
<1>10. ~Wraps(Subnet(t))
    BY <1>1, <1>5, <1>6, <1>9 DEF Wraps
<1>11. QED
    BY <1>5, <1>7, <1>9, <1>10

\* What a tracker finds is a free host address of its network, and it reports
\* that all are taken only when there is none.
LEMMA TrackerFinds ==
    ASSUME TypeOK, SuiteFits, SubnetsApart, NEW t \in Tests, NEW taken
    PROVE  /\ \A ip : GetFreeIpAddr(Subnet(t), taken, ip) =>
                 ip \in HostAddresses(t) /\ ip \notin taken
           /\ AllTaken(Subnet(t), taken) => HostAddresses(t) \subseteq taken
<1>1. Found(Subnet(t), taken) = HostAddresses(t) \ taken
    BY LoopBounds DEF Found, Free, HostAddresses
<1>2. QED
    BY <1>1 DEF GetFreeIpAddr, AllTaken

-----------------------------------------------------------------------------
(* The initial states *)

\* Subnets cut at different positions of the address space do not touch.
LEMMA SubnetsApartInit == Init => SubnetsApart
<1> SUFFICES ASSUME Init, SuiteFits
             PROVE  /\ \A t \in Tests : Subnet(t) + networkSize < AddressSpace
                    /\ \A s, t \in Tests : s # t =>
                          \/ Subnet(s) + networkSize <= Subnet(t)
                          \/ Subnet(t) + networkSize <= Subnet(s)
    BY DEF SubnetsApart
<1>1. /\ networkSize \in Nat \ {0} /\ AddressSpace \in Nat \ {0} /\ SubnetStart \in Nat
      /\ Cardinality(Tests) \in Nat
    BY AddressesAssumption, FS_CardinalityType DEF Init, Addresses
<1>2. PICK index \in Injection(Tests, 0..Cardinality(Tests) - 1) :
          subnetStart = SubnetMasks(index)
    BY DEF Init
<1>3. /\ \A t \in Tests : index[t] \in Nat /\ index[t] + 1 <= Cardinality(Tests)
      /\ \A s, t \in Tests : s # t => index[s] # index[t]
    BY <1>1, <1>2 DEF Injection, IsInjective
<1> DEFINE q == SubnetStart \div networkSize
<1>4. q \in Nat /\ q * networkSize <= SubnetStart
    BY <1>1, Z3
<1>5. \A t \in Tests : Subnet(t) = (q + index[t]) * networkSize
    <2> TAKE t \in Tests
    <2>1. index[t] * networkSize + networkSize <= Cardinality(Tests) * networkSize
        BY <1>1, <1>3, Z3
    <2>2. SubnetStart + index[t] * networkSize < AddressSpace
        BY <1>1, <1>3, <2>1 DEF SuiteFits
    <2>3. SubnetStart + index[t] * networkSize \in Nat
        BY <1>1, <1>3, Z3
    <2>4. subnetStart[t] = SubnetStart + index[t] * networkSize
        BY <1>1, <1>2, <2>2, <2>3, Z3 DEF SubnetMasks
    <2>5. subnetStart[t] \div networkSize = q + index[t]
        <3>1. (SubnetStart + index[t] * networkSize) \div networkSize
                 = SubnetStart \div networkSize + index[t]
            <4>1. index[t] \in Nat
                BY <1>3
            <4>2. QED
                BY <1>1, <4>1, QuotientOfMultiple, Zenon
        <3>2. QED
            BY <2>4, <3>1
    <2>6. QED
        BY <2>5 DEF Subnet, NetworkOf
<1> HIDE DEF q
<1>6. \A t \in Tests : Subnet(t) + networkSize < AddressSpace
    <2> TAKE t \in Tests
    <2> DEFINE i == index[t]
               c == Cardinality(Tests)
    <2>1. i \in Nat /\ c \in Nat /\ i + 1 <= c
        BY <1>1, <1>3
    <2>2. Subnet(t) = (q + i) * networkSize
        BY <1>5
    <2>3. SubnetStart + c * networkSize < AddressSpace
        BY DEF SuiteFits
    <2> HIDE DEF i, c
    <2>4. (q + i) * networkSize + networkSize <= q * networkSize + c * networkSize
        BY <1>1, <1>4, <2>1, Z3
    <2>5. q * networkSize \in Nat /\ c * networkSize \in Nat
        BY <1>1, <1>4, <2>1, Z3
    <2>6. QED
        BY <1>1, <1>4, <2>1, <2>2, <2>3, <2>4, <2>5, Z3
<1>7. \A i, j \in Nat : i < j => (q + i) * networkSize + networkSize <= (q + j) * networkSize
    BY <1>1, <1>4, Z3
<1>8. \A s, t \in Tests : s # t =>
          \/ Subnet(s) + networkSize <= Subnet(t)
          \/ Subnet(t) + networkSize <= Subnet(s)
    <2> TAKE s, t \in Tests
    <2> HAVE s # t
    <2>1. index[s] < index[t] \/ index[t] < index[s]
        BY <1>3
    <2>2. QED
        BY <1>3, <1>5, <1>7, <2>1
<1>9. QED
    BY <1>6, <1>8

\* Before the first tracker is made nothing is taken, used or refused.
LEMMA InvariantInit == Init => InductiveInvariant
<1> SUFFICES ASSUME Init PROVE InductiveInvariant
    OBVIOUS
<1>1. TypeOK
    <2>1. PICK index \in Injection(Tests, 0..Cardinality(Tests) - 1) :
              subnetStart = SubnetMasks(index)
        BY DEF Init
    <2>2. \A t \in Tests : index[t] \in Nat
        BY <2>1, AddressesAssumption, FS_CardinalityType DEF Injection
    <2>3. networkSize \in Nat /\ SubnetStart \in Nat /\ AddressSpace \in Nat \ {0}
        BY AddressesAssumption DEF Init, Addresses
    <2>4. \A t \in Tests : SubnetStart + index[t] * networkSize \in Nat
        BY <2>2, <2>3, Z3
    <2>5. \A a \in Nat : a % AddressSpace \in Addresses
        BY <2>3 DEF Addresses
    <2>6. subnetStart \in [Tests -> Addresses]
        BY <2>1, <2>4, <2>5 DEF SubnetMasks
    <2>7. QED
        BY <2>6 DEF Init, TypeOK
<1>2. SubnetsApart
    BY SubnetsApartInit
<1>3. TrackersAgree /\ AddressesFromOwnSubnet /\ RefusedOnlyWhenAllTaken
    BY DEF Init, TrackersAgree, AddressesFromOwnSubnet, RefusedOnlyWhenAllTaken
<1>4. UsedAddressesAreTaken /\ NoAddressHeldTwice
    BY DEF Init, UsedAddressesAreTaken, NoAddressHeldTwice
<1>5. QED
    BY <1>1, <1>2, <1>3, <1>4 DEF InductiveInvariant

-----------------------------------------------------------------------------
(* The steps *)

\* The subnets are cut once and for all.
LEMMA NetworksAreFixed ==
    ASSUME [Next]_vars
    PROVE  /\ networkSize' = networkSize /\ subnetStart' = subnetStart
           /\ SuiteFits' = SuiteFits
           /\ \A t : Subnet(t)' = Subnet(t) /\ HostAddresses(t)' = HostAddresses(t)
<1>1. networkSize' = networkSize /\ subnetStart' = subnetStart
    BY DEF Next, vars, GetGatewayIp, GetControllerIp, MakeTracker, AddService,
           RemoveService, Finished
<1>2. QED
    BY <1>1 DEF SuiteFits, Subnet, HostAddresses, NetworkOf

\* The addresses a tracker is told of are addresses it was given.
LEMMA TypedStep == InductiveInvariant /\ [Next]_vars => TypeOK'
<1> SUFFICES ASSUME InductiveInvariant, [Next]_vars PROVE TypeOK'
    OBVIOUS
<1> USE DEF InductiveInvariant
<1>1. networkSize' \in NetworkSizes /\ subnetStart' \in [Tests -> Addresses]
    BY NetworksAreFixed DEF TypeOK
<1>2. ASSUME NEW t \in Tests, GetGatewayIp(t) PROVE TypeOK'
    BY <1>1, <1>2 DEF TypeOK, GetGatewayIp, Stage, Use
<1>3. ASSUME NEW t \in Tests, GetControllerIp(t) PROVE TypeOK'
    <2>1. CASE \E ip \in Addresses :
                  /\ controllerIp' = [controllerIp EXCEPT ![t] = ip]
                  /\ initializerTaken' = [initializerTaken EXCEPT ![t] = @ \cup {ip}]
                  /\ Use(ip)
                  /\ UNCHANGED <<gatewayIp, controllerTaken, refused>>
                  /\ Stage(t, "network", "launched")
        <3>1. PICK ip \in Addresses :
                  /\ controllerIp' = [controllerIp EXCEPT ![t] = ip]
                  /\ initializerTaken' = [initializerTaken EXCEPT ![t] = @ \cup {ip}]
                  /\ Use(ip)
            BY <2>1
        <3>2. users' \in [Addresses -> Nat]
            BY <3>1 DEF TypeOK, Use
        <3>3. QED
            BY <1>1, <2>1, <3>1, <3>2 DEF TypeOK, Stage
    <2>2. CASE Refuse(t) /\ Stage(t, "network", "ended")
        BY <1>1, <2>2 DEF TypeOK, Stage, Refuse
    <2>3. QED
        BY <1>3, <2>1, <2>2 DEF GetControllerIp
<1>4. ASSUME NEW t \in Tests, MakeTracker(t) PROVE TypeOK'
    <2>1. {gatewayIp[t], controllerIp[t]} \subseteq Addresses
        BY <1>4 DEF TypeOK, TrackersAgree, MakeTracker, Stage
    <2>2. QED
        BY <1>1, <1>4, <2>1 DEF TypeOK, MakeTracker, Stage
<1>5. ASSUME NEW t \in Tests, AddService(t) PROVE TypeOK'
    <2>1. CASE Refuse(t)
        BY <1>1, <1>5, <2>1 DEF TypeOK, AddService, Refuse
    <2>2. CASE ~Refuse(t)
        <3>1. PICK ip \in Addresses :
                  /\ controllerTaken' = [controllerTaken EXCEPT ![t] = @ \cup {ip}]
                  /\ Use(ip) \/ UNCHANGED users
            BY <1>5, <2>2 DEF AddService
        <3>2. users' \in [Addresses -> Nat]
            BY <3>1 DEF TypeOK, Use
        <3>3. UNCHANGED <<stage, gatewayIp, controllerIp, initializerTaken, refused>>
            BY <1>5, <2>2 DEF AddService
        <3>4. QED
            BY <1>1, <3>1, <3>2, <3>3 DEF TypeOK
    <2>3. QED
        BY <2>1, <2>2
<1>6. ASSUME NEW t \in Tests, RemoveService(t) PROVE TypeOK'
    BY <1>1, <1>6 DEF TypeOK, RemoveService
<1>7. CASE Finished \/ UNCHANGED vars
    BY <1>7 DEF TypeOK, Finished, vars
<1>8. QED
    BY <1>2, <1>3, <1>4, <1>5, <1>6, <1>7 DEF Next

\* The controller's tracker starts with all the initializer's has handed out,
\* and the initializer's hands out nothing after that.
LEMMA TrackersAgreeStep == InductiveInvariant /\ [Next]_vars => TrackersAgree'
<1> SUFFICES ASSUME InductiveInvariant, [Next]_vars PROVE TrackersAgree'
    OBVIOUS
<1> USE DEF InductiveInvariant, TrackersAgree
<1>1. ASSUME NEW t \in Tests, GetGatewayIp(t) PROVE TrackersAgree'
    BY <1>1 DEF TypeOK, GetGatewayIp, Stage
<1>2. ASSUME NEW t \in Tests, GetControllerIp(t) PROVE TrackersAgree'
    BY <1>2 DEF TypeOK, GetControllerIp, Stage, Refuse
<1>3. ASSUME NEW t \in Tests, MakeTracker(t) PROVE TrackersAgree'
    BY <1>3 DEF TypeOK, MakeTracker, Stage
<1>4. ASSUME NEW t \in Tests, AddService(t) PROVE TrackersAgree'
    BY <1>4 DEF TypeOK, AddService, Refuse
<1>5. ASSUME NEW t \in Tests, RemoveService(t) PROVE TrackersAgree'
    BY <1>5 DEF RemoveService
<1>6. CASE Finished \/ UNCHANGED vars
    BY <1>6 DEF Finished, vars
<1>7. QED
    BY <1>1, <1>2, <1>3, <1>4, <1>5, <1>6 DEF Next

\* Each tracker finds host addresses of its own test's network, and refuses
\* when they are used up.
LEMMA OwnSubnetStep ==
    InductiveInvariant /\ [Next]_vars => AddressesFromOwnSubnet' /\ RefusedOnlyWhenAllTaken'
<1> SUFFICES ASSUME InductiveInvariant, [Next]_vars, SuiteFits
             PROVE  \A t \in Tests :
                       /\ (initializerTaken[t] \cup controllerTaken[t] \subseteq HostAddresses(t))'
                       /\ (refused[t] => HostAddresses(t) \subseteq initializerTaken[t] \cup controllerTaken[t])'
    BY NetworksAreFixed DEF AddressesFromOwnSubnet, RefusedOnlyWhenAllTaken
<1> DEFINE Goal(u, taken, full) ==
              /\ taken \subseteq HostAddresses(u)
              /\ full => HostAddresses(u) \subseteq taken
<1> SUFFICES \A u \in Tests :
                Goal(u, initializerTaken'[u] \cup controllerTaken'[u], refused'[u])
    BY NetworksAreFixed
<1>0. \A u \in Tests : Goal(u, initializerTaken[u] \cup controllerTaken[u], refused[u])
    BY DEF InductiveInvariant, AddressesFromOwnSubnet, RefusedOnlyWhenAllTaken
<1>a. TypeOK /\ SubnetsApart /\ TrackersAgree
    BY DEF InductiveInvariant
<1>b. ASSUME NEW t \in Tests, NEW taken
      PROVE  /\ \A ip : GetFreeIpAddr(Subnet(t), taken, ip) => ip \in HostAddresses(t)
             /\ AllTaken(Subnet(t), taken) => HostAddresses(t) \subseteq taken
    BY <1>a, TrackerFinds
<1>1. ASSUME NEW t \in Tests, GetGatewayIp(t)
      PROVE  \A u \in Tests :
                Goal(u, initializerTaken'[u] \cup controllerTaken'[u], refused'[u])
    <2>1. PICK ip \in Addresses :
              /\ GetFreeIpAddr(Subnet(t), initializerTaken[t], ip)
              /\ initializerTaken' = [initializerTaken EXCEPT ![t] = @ \cup {ip}]
        BY <1>1 DEF GetGatewayIp
    <2>2. controllerTaken' = controllerTaken /\ refused' = refused
        BY <1>1 DEF GetGatewayIp
    <2>3. ip \in HostAddresses(t)
        BY <1>b, <2>1
    <2>4. QED
        BY <1>0, <1>a, <2>1, <2>2, <2>3 DEF TypeOK
<1>2. ASSUME NEW t \in Tests, GetControllerIp(t)
      PROVE  \A u \in Tests :
                Goal(u, initializerTaken'[u] \cup controllerTaken'[u], refused'[u])
    <2>1. CASE \E ip \in Addresses :
                  /\ GetFreeIpAddr(Subnet(t), initializerTaken[t], ip)
                  /\ initializerTaken' = [initializerTaken EXCEPT ![t] = @ \cup {ip}]
                  /\ controllerTaken' = controllerTaken /\ refused' = refused
        <3>1. PICK ip \in HostAddresses(t) :
                  initializerTaken' = [initializerTaken EXCEPT ![t] = @ \cup {ip}]
            BY <1>b, <2>1
        <3>2. QED
            BY <1>0, <1>a, <2>1, <3>1 DEF TypeOK
    <2>2. CASE AllTaken(Subnet(t), initializerTaken[t]) /\ Refuse(t)
        <3>1. HostAddresses(t) \subseteq initializerTaken[t]
            BY <1>b, <2>2
        <3>2. QED
            BY <1>0, <1>a, <2>2, <3>1 DEF Refuse, TypeOK
    <2>3. QED
        BY <1>2, <2>1, <2>2 DEF GetControllerIp
<1>3. ASSUME NEW t \in Tests, MakeTracker(t)
      PROVE  \A u \in Tests :
                Goal(u, initializerTaken'[u] \cup controllerTaken'[u], refused'[u])
    <2>1. /\ controllerTaken[t] = {} /\ initializerTaken[t] = {gatewayIp[t], controllerIp[t]}
          /\ initializerTaken' = initializerTaken /\ refused' = refused
          /\ controllerTaken' = [controllerTaken EXCEPT ![t] = {gatewayIp[t], controllerIp[t]}]
        BY <1>3, <1>a DEF MakeTracker, Stage, TrackersAgree
    <2>2. QED
        BY <1>0, <1>a, <2>1 DEF TypeOK
<1>4. ASSUME NEW t \in Tests, AddService(t)
      PROVE  \A u \in Tests :
                Goal(u, initializerTaken'[u] \cup controllerTaken'[u], refused'[u])
    <2>1. CASE \E ip \in Addresses :
                  /\ GetFreeIpAddr(Subnet(t), controllerTaken[t], ip)
                  /\ controllerTaken' = [controllerTaken EXCEPT ![t] = @ \cup {ip}]
                  /\ initializerTaken' = initializerTaken /\ refused' = refused
        <3>1. PICK ip \in HostAddresses(t) :
                  controllerTaken' = [controllerTaken EXCEPT ![t] = @ \cup {ip}]
            BY <1>b, <2>1
        <3>2. QED
            BY <1>0, <1>a, <2>1, <3>1 DEF TypeOK
    <2>2. CASE AllTaken(Subnet(t), controllerTaken[t]) /\ Refuse(t)
        <3>1. HostAddresses(t) \subseteq controllerTaken[t]
            BY <1>b, <2>2
        <3>2. QED
            BY <1>0, <1>a, <2>2, <3>1 DEF Refuse, TypeOK
    <2>3. QED
        BY <1>4, <2>1, <2>2 DEF AddService
<1>5. ASSUME NEW t \in Tests, RemoveService(t)
      PROVE  \A u \in Tests :
                Goal(u, initializerTaken'[u] \cup controllerTaken'[u], refused'[u])
    BY <1>0, <1>5 DEF RemoveService
<1>6. CASE Finished \/ UNCHANGED vars
    BY <1>0, <1>6 DEF Finished, vars
<1>7. QED
    BY <1>1, <1>2, <1>3, <1>4, <1>5, <1>6 DEF Next

\* An address that a tracker finds free has no user: a user would have taken it
\* in this test, where it would not be free, or in a subnet that is not this one.
LEMMA FreeMeansUnused ==
    ASSUME InductiveInvariant, SuiteFits, NEW t \in Tests, NEW ip \in Addresses, NEW taken,
           initializerTaken[t] \cup controllerTaken[t] \subseteq taken,
           GetFreeIpAddr(Subnet(t), taken, ip)
    PROVE  users[ip] = 0
<1>1. ip \in HostAddresses(t) /\ ip \notin taken
    BY TrackerFinds DEF InductiveInvariant
<1>2. SUFFICES ASSUME users[ip] > 0 PROVE FALSE
    BY DEF InductiveInvariant, TypeOK
<1>3. PICK s \in Tests : ip \in initializerTaken[s] \cup controllerTaken[s]
    BY <1>2 DEF InductiveInvariant, UsedAddressesAreTaken
<1>4. s # t
    BY <1>1, <1>3
<1>5. ip \in HostAddresses(s)
    BY <1>3 DEF InductiveInvariant, AddressesFromOwnSubnet
<1>6. \/ Subnet(s) + networkSize <= Subnet(t)
      \/ Subnet(t) + networkSize <= Subnet(s)
    BY <1>4 DEF InductiveInvariant, SubnetsApart
<1>7. Subnet(s) \in Nat /\ Subnet(t) \in Nat /\ networkSize \in Nat
    BY LoopBounds, AddressesAssumption DEF InductiveInvariant, TypeOK
<1>8. QED
    BY <1>1, <1>5, <1>6, <1>7 DEF HostAddresses

\* An address comes into use only as it is taken, by a holder that is alone.
LEMMA UsersStep ==
    InductiveInvariant /\ [Next]_vars => UsedAddressesAreTaken' /\ NoAddressHeldTwice'
<1> SUFFICES ASSUME InductiveInvariant, [Next]_vars
             PROVE  UsedAddressesAreTaken' /\ NoAddressHeldTwice'
    OBVIOUS
<1>0. TypeOK /\ TrackersAgree /\ UsedAddressesAreTaken /\ NoAddressHeldTwice
    BY DEF InductiveInvariant
<1>a. SuiteFits' = SuiteFits
    BY NetworksAreFixed
<1>b. ASSUME NEW t \in Tests, NEW ip \in Addresses, NEW taken,
             initializerTaken[t] \cup controllerTaken[t] \subseteq taken,
             GetFreeIpAddr(Subnet(t), taken, ip),
             Use(ip) \/ UNCHANGED users,
             \A s \in Tests : initializerTaken[s] \cup controllerTaken[s]
                                \subseteq initializerTaken'[s] \cup controllerTaken'[s],
             ip \in initializerTaken'[t] \cup controllerTaken'[t]
      PROVE  UsedAddressesAreTaken' /\ NoAddressHeldTwice'
    <2>1. \A a \in Addresses : users'[a] = users[a] \/ (a = ip /\ users'[a] = users[a] + 1)
        BY <1>0, <1>b DEF Use, TypeOK
    <2>2. UsedAddressesAreTaken'
        BY <1>0, <1>b, <2>1 DEF UsedAddressesAreTaken
    <2>3. SuiteFits => users[ip] = 0
        BY <1>b, FreeMeansUnused
    <2>4. NoAddressHeldTwice'
        BY <1>0, <1>a, <2>1, <2>3 DEF NoAddressHeldTwice
    <2>5. QED
        BY <2>2, <2>4
<1>c. ASSUME \A a \in Addresses : users'[a] = users[a] \/ (users[a] > 0 /\ users'[a] = users[a] - 1),
             \A s \in Tests : initializerTaken[s] \cup controllerTaken[s]
                                \subseteq initializerTaken'[s] \cup controllerTaken'[s]
      PROVE  UsedAddressesAreTaken' /\ NoAddressHeldTwice'
    <2>1. UsedAddressesAreTaken'
        BY <1>0, <1>c DEF UsedAddressesAreTaken, TypeOK
    <2>2. NoAddressHeldTwice'
        BY <1>0, <1>a, <1>c DEF NoAddressHeldTwice, TypeOK
    <2>3. QED
        BY <2>1, <2>2
<1>1. ASSUME NEW t \in Tests, GetGatewayIp(t)
      PROVE  UsedAddressesAreTaken' /\ NoAddressHeldTwice'
    <2>1. PICK ip \in Addresses :
              /\ GetFreeIpAddr(Subnet(t), initializerTaken[t], ip)
              /\ initializerTaken' = [initializerTaken EXCEPT ![t] = @ \cup {ip}]
              /\ Use(ip)
        BY <1>1 DEF GetGatewayIp
    <2>2. controllerTaken[t] = {} /\ controllerTaken' = controllerTaken
        BY <1>0, <1>1 DEF GetGatewayIp, Stage, TrackersAgree
    <2>3. initializerTaken[t] \cup controllerTaken[t] \subseteq initializerTaken[t]
        BY <2>2
    <2>4. ip \in initializerTaken'[t] \cup controllerTaken'[t]
        BY <1>0, <2>1 DEF TypeOK
    <2>5. \A s \in Tests : initializerTaken[s] \cup controllerTaken[s]
                               \subseteq initializerTaken'[s] \cup controllerTaken'[s]
        BY <1>0, <2>1, <2>2 DEF TypeOK
    <2>6. QED
        BY <1>b, <2>1, <2>3, <2>4, <2>5
<1>2. ASSUME NEW t \in Tests, GetControllerIp(t)
      PROVE  UsedAddressesAreTaken' /\ NoAddressHeldTwice'
    <2>1. CASE Refuse(t)
        BY <1>c, <2>1 DEF Refuse
    <2>2. CASE ~Refuse(t)
        <3>1. PICK ip \in Addresses :
                  /\ GetFreeIpAddr(Subnet(t), initializerTaken[t], ip)
                  /\ initializerTaken' = [initializerTaken EXCEPT ![t] = @ \cup {ip}]
                  /\ Use(ip)
            BY <1>2, <2>2 DEF GetControllerIp
        <3>2. controllerTaken[t] = {} /\ controllerTaken' = controllerTaken
            BY <1>0, <1>2, <2>2 DEF GetControllerIp, Stage, TrackersAgree
        <3>3. initializerTaken[t] \cup controllerTaken[t] \subseteq initializerTaken[t]
            BY <3>2
        <3>4. ip \in initializerTaken'[t] \cup controllerTaken'[t]
            BY <1>0, <3>1 DEF TypeOK
        <3>5. \A s \in Tests : initializerTaken[s] \cup controllerTaken[s]
                                   \subseteq initializerTaken'[s] \cup controllerTaken'[s]
            BY <1>0, <3>1, <3>2 DEF TypeOK
        <3>6. QED
            BY <1>b, <3>1, <3>3, <3>4, <3>5
    <2>3. QED
        BY <2>1, <2>2
<1>3. ASSUME NEW t \in Tests, MakeTracker(t)
      PROVE  UsedAddressesAreTaken' /\ NoAddressHeldTwice'
    <2>1. controllerTaken[t] = {} /\ UNCHANGED <<users, initializerTaken>>
        BY <1>0, <1>3 DEF MakeTracker, Stage, TrackersAgree
    <2>2. \A s \in Tests : controllerTaken[s] \subseteq controllerTaken'[s]
        BY <1>0, <1>3, <2>1 DEF MakeTracker, TypeOK
    <2>3. QED
        BY <1>c, <2>1, <2>2
<1>4. ASSUME NEW t \in Tests, AddService(t)
      PROVE  UsedAddressesAreTaken' /\ NoAddressHeldTwice'
    <2>1. CASE Refuse(t)
        BY <1>c, <2>1 DEF Refuse
    <2>2. CASE ~Refuse(t)
        <3>1. PICK ip \in Addresses :
                  /\ GetFreeIpAddr(Subnet(t), controllerTaken[t], ip)
                  /\ controllerTaken' = [controllerTaken EXCEPT ![t] = @ \cup {ip}]
                  /\ Use(ip) \/ UNCHANGED users
            BY <1>4, <2>2 DEF AddService
        <3>2. initializerTaken' = initializerTaken
            BY <1>4, <2>2 DEF AddService
        <3>3. initializerTaken[t] \cup controllerTaken[t] \subseteq controllerTaken[t]
            BY <1>0, <1>4 DEF AddService, TrackersAgree
        <3>4. ip \in initializerTaken'[t] \cup controllerTaken'[t]
            BY <1>0, <3>1 DEF TypeOK
        <3>5. \A s \in Tests : initializerTaken[s] \cup controllerTaken[s]
                                   \subseteq initializerTaken'[s] \cup controllerTaken'[s]
            BY <1>0, <3>1, <3>2 DEF TypeOK
        <3>6. QED
            BY <1>b, <3>1, <3>3, <3>4, <3>5
    <2>3. QED
        BY <2>1, <2>2
<1>5. ASSUME NEW t \in Tests, RemoveService(t)
      PROVE  UsedAddressesAreTaken' /\ NoAddressHeldTwice'
    <2>1. \A a \in Addresses :
              users'[a] = users[a] \/ (users[a] > 0 /\ users'[a] = users[a] - 1)
        BY <1>0, <1>5 DEF RemoveService, TypeOK
    <2>2. UNCHANGED <<initializerTaken, controllerTaken>>
        BY <1>5 DEF RemoveService
    <2>3. QED
        BY <1>c, <2>1, <2>2
<1>6. CASE Finished \/ UNCHANGED vars
    BY <1>c, <1>6 DEF Finished, vars
<1>7. QED
    BY <1>1, <1>2, <1>3, <1>4, <1>5, <1>6 DEF Next

\* No step of any test breaks the invariant.
LEMMA InvariantStep == InductiveInvariant /\ [Next]_vars => InductiveInvariant'
<1> SUFFICES ASSUME InductiveInvariant, [Next]_vars PROVE InductiveInvariant'
    OBVIOUS
<1>1. SubnetsApart'
    BY NetworksAreFixed DEF InductiveInvariant, SubnetsApart
<1>2. QED
    BY <1>1, TypedStep, TrackersAgreeStep, OwnSubnetStep, UsersStep DEF InductiveInvariant

-----------------------------------------------------------------------------
(* The theorems *)

\* In every state reached, for any number of tests and any network size, the
\* inductive invariant holds.
THEOREM InvariantHolds == Spec => []InductiveInvariant
<1>1. Init => InductiveInvariant
    BY InvariantInit
<1>2. InductiveInvariant /\ [Next]_vars => InductiveInvariant'
    BY InvariantStep
<1>3. QED
    BY <1>1, <1>2, PTL DEF Spec

\* The variables have their types: the wrap-around of the masks and the bounds of the search
\* loop keep every subnet and every address handed out within uint32.
THEOREM TypesHold == Spec => []TypeOK
<1>1. InductiveInvariant => TypeOK
    BY DEF InductiveInvariant
<1>2. QED
    BY <1>1, InvariantHolds, PTL

\* Two containers or gateways of a suite that fits into the address space never
\* share an address, though each network has two trackers in two processes.
THEOREM NoAddressEverHeldTwice == Spec => []NoAddressHeldTwice
<1>1. InductiveInvariant => NoAddressHeldTwice
    BY DEF InductiveInvariant
<1>2. QED
    BY <1>1, InvariantHolds, PTL

\* Whatever the order of tests and the size of their networks, a tracker hands
\* out host addresses of its own test's network only.
THEOREM AddressesAlwaysFromOwnSubnet == Spec => []AddressesFromOwnSubnet
<1>1. InductiveInvariant => AddressesFromOwnSubnet
    BY DEF InductiveInvariant
<1>2. QED
    BY <1>1, InvariantHolds, PTL

\* A refusal always means that every host address of the network was handed out.
THEOREM RefusalsAreJustified == Spec => []RefusedOnlyWhenAllTaken
<1>1. InductiveInvariant => RefusedOnlyWhenAllTaken
    BY DEF InductiveInvariant
<1>2. QED
    BY <1>1, InvariantHolds, PTL
=============================================================================
