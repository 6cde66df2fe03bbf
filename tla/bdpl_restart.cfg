SPECIFICATION FairSpec
CONSTANTS
    Groups = {"nats"}
    Errands = {}
    Vars = {"password"}
    None = None
    MaxRev = 2
    MaxEdits = 1
    ManifestGroups <- OneGroup
    ManifestVars <- OneVar
    MaxLag = 1
    Disturbances = {"crash"}
    MaxDisturbances = 1
PROPERTY CurrentDeployed
CHECK_DEADLOCK FALSE
