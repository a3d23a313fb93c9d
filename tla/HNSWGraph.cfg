SPECIFICATION Spec
CONSTANTS
    Ids = {1, 2, 3}
    Threads = {t1, t2}
    Vectors <- Squares
    Queries = {0}
    Draws <- AnyLevel
    Deletable = {2}
    Ms = {1, 2}
    Ef = 3
    LevelCap = 1
    NoNode = NoNode
    NoThread = NoThread
SYMMETRY Symmetry
INVARIANTS TypeOK DegreeBounded AllReachable SettledAreFound NoCircularWait
