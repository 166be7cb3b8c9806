SPECIFICATION Spec
CONSTANTS
    Paths = {p, q}
    FileLimits = {1, 2}
    MaxChanged = 2
    MaxCount = 2
    MaxLines = 8
    None = None
SYMMETRY Symmetry
INVARIANTS
    TypeOK
    AcceptedIsPatch
    RefusedIsNone
PROPERTIES
    NeverLoops
