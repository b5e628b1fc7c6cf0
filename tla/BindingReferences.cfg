SPECIFICATION FairSpec
CONSTANTS
    Binding = {1}
    Certificate = {1}
    CertOf <- OneCertificate
    Existing = {}
    OwnCreds = {}
    Account = {"A"}
    ByRef = TRUE
    EnsureHTTPS = FALSE
    Uncovered = {}
    ProtocolInit = {"HTTP"}
    UploadInit = {TRUE, FALSE}
    UnbindInit = {TRUE}
    Policy = "Abandon"
    KeepLast = 1
    MaxGen = 2
    MaxOutside = 1
    MaxMoves = 0
    MayFailList = FALSE
    MayHide = FALSE
    MayOutage = TRUE
    Settles = TRUE
INVARIANT DanglingScheduled
PROPERTY TargetConverges
PROPERTY BindingDeletionEnds
CHECK_DEADLOCK FALSE
