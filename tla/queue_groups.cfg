SPECIFICATION FairSpec
CONSTANTS
    N = 3
    Group <- TwoGroups
    Reps <- UnevenReps
    Points <- UnevenPoints
    Bench <- LastSharesFirstBench
    Tree <- OneTree
    Log <- OwnLog
    Deploys = {1}
    Unrecognised = {2}
    Modes = {"sequential", "interleave", "concurrent"}
    MaxTroubled <- TroubledAtTheEnds
    MaxLaunch = 1
INVARIANTS TypeOK NothingOutlivesTheQueue SweepCollectsWhatWasPrinted MembersAlternate OneBuildTreeEach DoneMeansEverythingRan
PROPERTIES StopEndsTheQueue OthersKeepTheirInstances
