SPECIFICATION Spec
CONSTANTS
    N = 2
    Unwalked = 0
    Modes = {FALSE}
    Faults = {"poolpipe"}
INVARIANTS
    OkMeansDigested
