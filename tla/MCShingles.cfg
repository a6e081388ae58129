SPECIFICATION Spec
CONSTANTS
    Mnemonics = {1, 2, 3}
    Root <- MCRoot
    COMPACT_FLOOR = 2
    Length = 6
    h64 <- MCh64
    BASE = 8
    HEADROOM = 8
    PERMUTATIONS = 8
    Coefficients <- MCCoefficients
INVARIANTS
    TypeOK
    ShinglesExact
    KeysBounded
    DigestFaithful
    SketchFaithful
CHECK_DEADLOCK FALSE
