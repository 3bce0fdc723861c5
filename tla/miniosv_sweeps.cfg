SPECIFICATION Spec
CONSTANTS
    Zones = {a, b}
    Clis = {c1, c2}
    MaxServers = 2
    Flaky = TRUE
    Sweeps <- AllSweeps
    MaxNoise = 1
SYMMETRY Alike
INVARIANTS TypeOK ServersHaveAnOwner RowsNameTheirServer ValidIsOfItsCell NothingLeftUnsaid
CHECK_DEADLOCK FALSE
