SPECIFICATION FairSpec
CONSTANTS
    Binding = {1, 2}
    Certificate = {1, 2}
    CertOf <- OwnCertificate
    Existing = {2}
    OwnCreds = {}
    Account = {"A"}
    ByRef = TRUE
    EnsureHTTPS = FALSE
    Uncovered = {}
    ProtocolInit = {"HTTP"}
    UploadInit = {TRUE}
    UnbindInit = {FALSE}
    Policy = "Abandon"
    KeepLast = 1
    MaxGen = 2
    MaxOutside = 0
    MaxMoves = 0
    MayFailList = TRUE
    MayHide = FALSE
    MayOutage = FALSE
    Settles = TRUE
INVARIANT VerdictCurrent
PROPERTY TargetConverges
CHECK_DEADLOCK FALSE
