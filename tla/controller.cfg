SPECIFICATION Spec
CONSTANTS
    ServiceIDs = {s1, s2}
    Configurations = {c1}
    Capacity = 3
    NoNode = NoNode
    NoService = NoService
    s1 = s1
    s2 = s2
    c1 = c1
INVARIANTS
    TypeOK
    InductiveInvariant
    NodesDescribeContainers
    EveryContainerIsOwned
    TornDownUnlessTimedOut
    PassMeansTestSucceeded
PROPERTIES
    StartsWithDependencies
    ImplementsContract
    ControllerExits
    StartupWaitEnds
