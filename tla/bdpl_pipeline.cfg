SPECIFICATION FairSpec
CONSTANTS
    Groups = {"nats","smoke"}
    Errands = {"smoke"}
    Vars = {"password"}
    None = None
    MaxRev = 2
    MaxEdits = 1
    ManifestGroups <- GroupReplaced
    ManifestVars <- OneVar
    MaxLag = 1
    Disturbances = {"crash", "error", "other"}
    MaxDisturbances = 1
INVARIANT TypeOK
INVARIANT ManifestNotOlder
INVARIANT NoIdleVersions
PROPERTY OnlyForward
PROPERTY SmoothDeploys
CHECK_DEADLOCK FALSE
