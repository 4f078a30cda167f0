SPECIFICATION Spec
CONSTANTS
    ServiceIDs = {s1}
    Configurations = {c1}
    Capacity = 1
    NoNode = NoNode
    NoService = NoService
    s1 = s1
    c1 = c1
INVARIANTS
    FatalFailsTheTest
