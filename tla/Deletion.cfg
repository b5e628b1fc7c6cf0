SPECIFICATION Spec
CONSTANTS
    MaxGen = 2
    KeepLast = 2
    Policy = "Abandon"
    Domain = {"*.example.com"}
    Covers <- CoversName
    Binding = {}
    UploadInit = {TRUE,FALSE}
    MayOutage = FALSE
    CertCacheLags = FALSE
    MaxRollbacks = 1
    MaxHandDeletes = 0
    MaxToggles = 1
    MaxRenames = 0
    MaxChanges = 3
    MayDelete = TRUE
    Settles = FALSE
INVARIANTS TypeOK  CurrentIdValid SecretGoesWithCR FinalizerHeld
  
CHECK_DEADLOCK FALSE
