SPECIFICATION Spec
CONSTANTS
    Tests = {t1}
    Parallelism = 1
    NoTest = NoTest
    MaxSignals = 1
    MaxSystemLogs = 0
    t1 = t1
INVARIANTS
    SignalsHandledNicely
