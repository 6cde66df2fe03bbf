SPECIFICATION FairSpec
CONSTANTS
    Manifests <- MCManifests
    Specs <- MCSpecs
    LongTexts <- MCLongTexts
    QuotedKeys <- MCQuotedKeys
    BeginsWith <- MCBeginsWith
    NameParts <- MCNameParts
    Secrets <- MCSecrets
    Files <- MCFiles
    NameNumbers <- MCNameNumbers
    None = None
    MaxFaults <- MCMaxFaults
    Root = "log"
    LogDirs <- MCLogDirs
    LogFiles <- MCLogFiles
    ParentOf <- MCParentOf
INVARIANTS TypeOK ValuesDelivered LinksResolved LinkReachesProvider OwnAddress PreparedFirst PodsAccepted
PROPERTIES KeepsIdentity PodsRun LogsTailed
CHECK_DEADLOCK FALSE
