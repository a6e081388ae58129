SPECIFICATION Live
CONSTANTS
    N = 3
    Cpus = 2
    HasAlarm = TRUE
    Prompt = FALSE
    Faults <- MCLiveFaults
PROPERTIES
    GivesUpOnFailure
    BatchCompletes
