SPECIFICATION FairSpec
CONSTANTS
    NZones = 0
    MaxRev = 2
    Revisions <- ScaleDown
    MayCrash = FALSE
    MaxDisturbances = 0
    MaxLag = 2
INVARIANT VolumesCovered
PROPERTY Converges
CHECK_DEADLOCK FALSE
