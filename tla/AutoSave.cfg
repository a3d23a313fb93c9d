SPECIFICATION AutoSaveSpec
CONSTANTS
    MaxLoops = 2
INVARIANTS AutoSaveTypeOK  NeverWedged
PROPERTIES QuietAfterClose DirtyIsSaved
