SPECIFICATION Spec
CONSTANTS
    Ids = {i1, i2}
    VecDocs = {v}
    TextDocs = {t}
    BareDocs = {b}
    Searchers = {s1, s2}
    Kinds = {"hnsw"}
    Engines = {"memory", "persistent"}
    MaxBatch = 2
    MaxSlots = 3
    NoId = NoId
    NoDoc = NoDoc
    Empty = Empty
    NoOne = NoOne
SYMMETRY Symmetry
INVARIANTS TypeOK MapsAgree  LoneSearchNamesRight 
PROPERTY NoNodeReused
