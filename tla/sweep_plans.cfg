SPECIFICATION Spec
CONSTANTS
    Experiments <- Plans
    MaxAttempts = 2
    MaxRuns = 8
    MaxStarts = 3
INVARIANTS TypeOK RecognisedCellsOnce OkMeansEveryCell RowsMatchTheirImage
CHECK_DEADLOCK FALSE
