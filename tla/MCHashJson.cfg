SPECIFICATION Spec
CONSTANTS
    N = 2
    Unwalked = 0
    Modes = {TRUE}
    Faults = {"stdout"}
INVARIANTS
    RefusalOutlivesReader
