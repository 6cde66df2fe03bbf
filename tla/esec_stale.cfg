SPECIFICATION Spec
CONSTANTS
    Names <- RootNames
    Kind <- Root
    Deployments <- RootDeployments
    CARef = "root"
    Completes <- RootNames
    MayProvide <- Nobody
    MayEdit <- Nobody
    MayFail <- Nobody
    MayCrash = FALSE
    MaxDisturbances = 0
    MaxKeys = 2
PROPERTY GeneratedIsFinal
CHECK_DEADLOCK FALSE
