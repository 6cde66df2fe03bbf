SPECIFICATION FairSpec
CONSTANTS
    HasPostStart = TRUE
    HasCondition = TRUE
    MayFail = FALSE
    MaxTerms = 1
PROPERTY TermForwarded
CHECK_DEADLOCK FALSE
