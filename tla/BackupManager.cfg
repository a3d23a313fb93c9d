SPECIFICATION Spec
CONSTANTS
    Writers = {1, 2}
    Callers = {2}
    MaxLoops = 1
    MaxStops = 1
    MaxBackups = 1
    Retention = 1
    MaxClock = 2
    MaxFailures = 1
INVARIANTS
    TypeOK
    
    CountBounded
PROPERTIES
    OnlyTheOldAreDeleted
    StoppedLoopEnds
CHECK_DEADLOCK FALSE
