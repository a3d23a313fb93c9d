SPECIFICATION Spec
CONSTANTS
    Ids = {0, 1, 2}
    Vectors = {v, w}
    PageSize = 1
    MaxPages = 2
    FineMaxSize = 2
    FineLRUSize = 2
    FinePromoteThreshold = 1
    SearchCoarseK = 3
    Ks = {2, 3}
    MaxInserts = 3
    MaxOpens = 2
SYMMETRY Symmetry
INVARIANTS TypeOK   OnePagePerId 
 
CHECK_DEADLOCK FALSE
