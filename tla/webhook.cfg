SPECIFICATION FairSpec
CONSTANTS
    Operators = {o1, o2}
    CRDs <- MCCRDs
    Namespaced = {TRUE, FALSE}
    Requests = {r1}
    RefsOf <- MCRefsOf
    Resources <- MCResources
    AtFirst <- MCAtFirst
    ManifestOf <- MCManifestOf
    MaxPolls = 2
    MaxEdits = 1
    MaxFaults = 1
    None = None
INVARIANTS TypeOK CertificateTrusted GoodRequestAdmitted
PROPERTIES OperatorsServe RequestsAnswered
CHECK_DEADLOCK FALSE
