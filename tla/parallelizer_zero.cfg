SPECIFICATION Spec
CONSTANTS
    Tests = {t1, t2}
    Parallelism = 0
    NoTest = NoTest
    MaxSignals = 0
    MaxSystemLogs = 0
    t1 = t1
    t2 = t2
INVARIANTS
    TrueIffAllTestsPassed
