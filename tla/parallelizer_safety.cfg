SPECIFICATION Spec
CONSTANTS
    Tests = {t1, t2, t3}
    Parallelism = 2
    NoTest = NoTest
    MaxSignals = 2
    MaxSystemLogs = 1
    t1 = t1
    t2 = t2
    t3 = t3
SYMMETRY Symmetry
INVARIANTS
    TypeOK
    InductiveInvariant
    RunOnce
    VerdictIsHonest
    OneWholeBlockPerTest
    SystemLogsHeldThenShown
    UnlockedBodiesRunAlone
    NoTempfileOutlivesRun
