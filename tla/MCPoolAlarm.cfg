SPECIFICATION Spec
CONSTANTS
    N = 2
    Cpus = 2
    HasAlarm = TRUE
    Prompt = TRUE
    Faults = {}
INVARIANTS
    AlarmOnlyOrphans
