SPECIFICATION Spec
CONSTANTS
    Services = {s1}
    Controller = Controller
    Interruptible = FALSE
    s1 = s1
INVARIANTS
    FinishedTestLeavesNoTempfile
