SPECIFICATION Spec
CONSTANTS
    Ids = {a, b}
    Floats = {f, g}
    Stamp = stamp
    MaxDim = 2
    Page = 5
    MaxWrites = 4
    MaxOpens = 3
SYMMETRY Symmetry
INVARIANTS
    Persistent
CHECK_DEADLOCK FALSE
