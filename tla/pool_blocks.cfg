SPECIFICATION FairSpec
CONSTANTS
    Workers = {w1, w2}
    Conns = {c1, c2}
    Total = 3
    BlockSize = 4
    ObjectSize = 7
    Word = 8
    Stub = FALSE
    Ends <- ServedOrReset
INVARIANTS TypeOK EachBlockOnce NoDialBeforeTheBarrier WindowEndsWithThePool CompleteMeansEveryBlock RequestsInObject
PROPERTIES AlwaysAVerdict ImplementsWorkPool
