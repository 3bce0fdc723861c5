SPECIFICATION FairSpec
CONSTANTS
    Submits = {s1, s2}
    Stops = {t1}
    Pids = {1, 2}
    Queues <- TwoSeconds
    NoQueue = none
    Foreign = TRUE
INVARIANTS TypeOK OneQueueAtATime OneRunnerEach
PROPERTY StopEndsTheRunner
CHECK_DEADLOCK FALSE
