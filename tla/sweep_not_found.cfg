SPECIFICATION Spec
CONSTANTS
    Experiments <- NotFound
    MaxAttempts = 2
    MaxRuns = 6
    MaxStarts = 2
INVARIANT NoCellTwice
CHECK_DEADLOCK FALSE
