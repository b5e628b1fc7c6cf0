SPECIFICATION FairSpec
CONSTANTS
    MaxGen = 2
    KeepLast = 1
    Policy = "Abandon"
    Domain = {"*.example.com"}
    Covers <- CoversName
    Binding = {}
    UploadInit = {TRUE}
    MayOutage = FALSE
    CertCacheLags = TRUE
    MaxRollbacks = 0
    MaxHandDeletes = 1
    MaxToggles = 0
    MaxRenames = 0
    MaxChanges = 2
    MayDelete = FALSE
    Settles = TRUE
PROPERTIES Converges RetentionConverges
CHECK_DEADLOCK FALSE
