SPECIFICATION Spec
CONSTANTS
    MaxGen = 2
    KeepLast = 1
    Policy = "Abandon"
    Domain = {"*.example.com", "probe.example.com"}
    Covers <- CoversName
    Binding = {b1}
    UploadInit = {TRUE}
    MayOutage = FALSE
    CertCacheLags = FALSE
    MaxRollbacks = 0
    MaxHandDeletes = 0
    MaxToggles = 0
    MaxRenames = 1
    MaxChanges = 2
    MayDelete = FALSE
    Settles = FALSE
PROPERTIES  ReclaimSparesCurrent
CHECK_DEADLOCK FALSE
