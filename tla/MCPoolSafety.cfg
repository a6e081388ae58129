SPECIFICATION Spec
CONSTANTS
    N = 3
    Cpus = 2
    HasAlarm = TRUE
    Prompt = FALSE
    Faults <- MCAllFaults
INVARIANTS
    TypeOK
    Accounted
    Attribution
    HeadInWork
    NoIdleSlot
    AtMostOnce
    LeavesNoProcess
PROPERTIES
    Earned
    KeepsPromise
