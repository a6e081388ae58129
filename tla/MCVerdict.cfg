SPECIFICATION Spec
CONSTANTS
    Size = 6
    Lengths = {0, 3, 6}
    MaxRegions = 2
    SECTION_HEADER_SIZE = 2
    MaxCount = 3
    RawSizes = {0, 2, 3, 18}
    Pointers = {0, 3, 5, 7}
INVARIANTS
    TypeOK
    CopiedWithinFile
    DigestSpeaksForCode
    LoadedWhole
    RefusalFitsFile
CHECK_DEADLOCK FALSE
