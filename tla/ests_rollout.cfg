SPECIFICATION Spec
CONSTANTS
    NZones = 0
    MaxRev = 2
    Revisions <- NoVolumes
    MayCrash = TRUE
    MaxDisturbances = 2
    MaxLag = 2
INVARIANT TypeOK
INVARIANT VersionIsOneRevision
PROPERTY VersionsOnlyGrow
PROPERTY CleanupKeepsNewer
CHECK_DEADLOCK FALSE
