SPECIFICATION Spec
CONSTANTS
    Ids = {i1, i2}
    Vals = {v1, v2}
    NoVal = NoVal
    MaxLog = 3
    LosesUnsynced = FALSE
SYMMETRY Symmetry
INVARIANT AcknowledgedSurvives
