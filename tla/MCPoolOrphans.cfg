SPECIFICATION OrphanLive
CONSTANTS
    N = 3
    Cpus = 2
    HasAlarm = TRUE
    Prompt = FALSE
    Faults <- MCOrphanFaults
PROPERTIES
    OrphansEnd
    ShutdownEnds
