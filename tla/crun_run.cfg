SPECIFICATION FairSpec
CONSTANTS
    HasPostStart = TRUE
    HasCondition = TRUE
    MayFail = TRUE
    MaxTerms = 1
INVARIANT TypeOK
INVARIANT SuccessMeansEnded
PROPERTY RunEnds
PROPERTY PostStartEnds
CHECK_DEADLOCK FALSE
