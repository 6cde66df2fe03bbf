SPECIFICATION Spec
CONSTANTS
    NZones = 0
    MaxRev = 2
    Revisions <- ScaleUp
    MayCrash = FALSE
    MaxDisturbances = 0
    MaxLag = 2
INVARIANT VolumesCovered
CHECK_DEADLOCK FALSE
