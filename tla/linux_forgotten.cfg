SPECIFICATION FairSpec
CONSTANTS
    Configs <- AnyBlob
    Ms <- TwoTimes
    Panics = FALSE
PROPERTY ShutdownBackstops
