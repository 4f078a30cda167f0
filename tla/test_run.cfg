SPECIFICATION RunSpec
CONSTANTS
    Services = {1, 2}
    Controller = Controller
    Interruptible = FALSE
    ServiceIDs = {s1}
    Configurations = {c1}
    Capacity = 2
    NoNode = NoNode
    NoService = NoService
    s1 = s1
    c1 = c1
INVARIANTS
    PassedTestEndedWithoutError
    VerdictLeavesNothing
