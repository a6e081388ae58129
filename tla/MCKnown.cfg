SPECIFICATION Spec
CONSTANTS
    PERMUTATIONS = 2
    SLOTS = 4
    Sketches <- MCSketches
    Given <- MCGiven
    Minimums <- MCMinimums
    Tops = {0, 2}
    MaxLines = 4
INVARIANTS
    TypeOK
    LabelsFit
    CrossCoversPairs
    RankedBest
    ComparesAlike
    ContainmentSound
CHECK_DEADLOCK FALSE
