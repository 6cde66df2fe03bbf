SPECIFICATION FairSpec
CONSTANTS
    NZones = 0
    MaxRev = 2
    Revisions <- NoVolumes
    MayCrash = TRUE
    MaxDisturbances = 1
    MaxLag = 1
PROPERTY UpdateDeployed
CHECK_DEADLOCK FALSE
