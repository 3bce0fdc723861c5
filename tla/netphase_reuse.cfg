SPECIFICATION Spec
CONSTANTS
    Threads = {i1, i2}
    Fds = {f1, f2}
    MaxTime = 4
    MaxConns = 3
SYMMETRY Symmetry
INVARIANTS TypeOK ExchangesAddUp WindowHoldsEveryReceive
