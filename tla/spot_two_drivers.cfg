SPECIFICATION Spec
CONSTANTS
    Drivers = {d1, d2}
    Zones = {z1, z2}
    Limit = 1
    Flaky = {"terminate", "list", "describe", "cancel"}
    MaxRequests = 3
SYMMETRY Symmetry
INVARIANTS TypeOK RunningIsOnRecord LeaksHaveACause
