SPECIFICATION Spec
CONSTANTS
    Services = {s1, s2}
    Controller = Controller
    Interruptible = TRUE
    s1 = s1
    s2 = s2
INVARIANTS
    TypeOK
    InductiveInvariant
    ReturnsAllowedOutcome
    PassedMeansControllerSucceeded
    PassedTestLeavesNothing
    RemovalAttemptedIffNetworkKnown
    CancelledTestTouchesNothing
    NetworkKnownUnlessAbandoned
PROPERTIES
    NothingNewAfterTimeout
    RefusedOnlyForMissedContainer
    RunTestReturns
    KnownNetworkIsRemoved
