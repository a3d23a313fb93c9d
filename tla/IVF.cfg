SPECIFICATION Spec
CONSTANTS
    Docs = {a, b, c, d}
    Searches = {s, t}
    NoName = NoName
    NoOne = NoOne
    NumClusters = 2
    Threshold = 3
    MaxVectors = 6
    MaxRebuilds = 1
SYMMETRY Symmetry
INVARIANTS
    NamesRight
    SearchedAreFound
