SPECIFICATION FairSpec
CONSTANTS
    Tests = {t1, t2}
    Parallelism = 2
    NoTest = NoTest
    MaxSignals = 1
    MaxSystemLogs = 0
    t1 = t1
    t2 = t2
PROPERTIES
    SuiteTerminates
    CancelledSuiteNeverPasses
    ImplementsSuiteRun
