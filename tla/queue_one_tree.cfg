SPECIFICATION Spec
CONSTANTS
    N = 2
    Group <- OneGroup
    Reps <- OneRep
    Points <- OnePoint
    Bench <- OwnBench
    Tree <- OneTree
    Log <- OwnLog
    Deploys = {1, 2}
    Unrecognised = {}
    Modes = {"sequential", "interleave", "concurrent"}
    MaxTroubled <- NeverTroubled
    MaxLaunch = 2
INVARIANT OneArmPerTree
