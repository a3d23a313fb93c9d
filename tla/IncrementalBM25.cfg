SPECIFICATION Spec
CONSTANTS
    Words = {a, b, c}
    Documents = {{a}, {a, b}, {b, c}}
    Threads = {t1}
    MaxVocabSize = 2
    MinDocFreq = 1
    MaxDocPercent = 100
    MaxDocs = 2
    MaxUpdates = 3
INVARIANTS
    TypeOK
    
    UndisturbedIsExact
    CachedIsCurrent
CHECK_DEADLOCK FALSE
