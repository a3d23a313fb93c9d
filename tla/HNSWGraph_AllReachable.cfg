SPECIFICATION Spec
CONSTANTS
    Ids = {1, 2, 3, 4}
    Threads = {t1, t2}
    Vectors <- Spread
    Queries = {}
    Draws <- Stairs
    Deletable = {}
    Ms = {2}
    Ef = 4
    LevelCap = 2
    NoNode = NoNode
    NoThread = NoThread
SYMMETRY Symmetry
INVARIANTS AllReachable
