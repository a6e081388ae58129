SPECIFICATION Spec
CONSTANTS
    Dirs = {top, sub}
    Files = {f, g}
    Cwd = top
    Absent = Absent
    Names = {1, 2}
    Arguments <- MCArguments
    MaxChanges = 1
SYMMETRY MCSymmetry
INVARIANTS
    TypeOK
    
    OnceEach
