SPECIFICATION Spec
CONSTANTS
    N = 3
    Unwalked = 1
    Modes = {TRUE, FALSE}
    Faults = {"stdout", "full", "stderr", "poolerror"}
INVARIANTS
    TypeOK
    NothingSilent
    ExitExplains
