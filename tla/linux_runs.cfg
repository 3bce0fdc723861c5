SPECIFICATION FairSpec
CONSTANTS
    Configs <- AllArms
    Ms <- TwoTimes
    Panics = TRUE
INVARIANTS TypeOK RowsAreTheTurns ValidMeansTuned ValidMeansMeasured
PROPERTY MachineGoesAway
