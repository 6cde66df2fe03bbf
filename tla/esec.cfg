SPECIFICATION FairSpec
CONSTANTS
    Names <- CertNames
    Kind <- CertKinds
    Deployments <- CertDeployments
    CARef = "ca"
    Completes <- Leaves
    MayProvide <- Certs
    MayEdit <- Leaves
    MayFail <- Leaves
    MayCrash = TRUE
    MaxDisturbances = 2
    MaxKeys = 4
INVARIANT TypeOK
INVARIANT ChainMatches
INVARIANT CertificateMatchesKey
INVARIANT GeneratedIsThere
PROPERTY UserSecretKept
PROPERTY SecretsIssued
CHECK_DEADLOCK FALSE
