SPECIFICATION Spec
CONSTANTS
    Workers = {w1}
    Conns = {c1, c2}
    Total = 1
    BlockSize = 3
    ObjectSize = 7
    Word = 8
    Stub = FALSE
    Ends <- Served
INVARIANT EveryClockStarted
