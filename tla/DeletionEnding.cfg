SPECIFICATION FairSpec
CONSTANTS
    MaxGen = 1
    KeepLast = 1
    Policy = "Abandon"
    Domain = {"*.example.com"}
    Covers <- CoversName
    Binding = {b1}
    UploadInit = {TRUE}
    MayOutage = TRUE
    CertCacheLags = TRUE
    MaxRollbacks = 0
    MaxHandDeletes = 0
    MaxToggles = 0
    MaxRenames = 0
    MaxChanges = 1
    MayDelete = TRUE
    Settles = TRUE
PROPERTIES DeletionEnds
CHECK_DEADLOCK FALSE
