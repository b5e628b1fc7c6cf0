SPECIFICATION Spec
CONSTANTS
    Binding = {1}
    Certificate = {1}
    CertOf <- OneCertificate
    Existing = {1}
    OwnCreds = {}
    Account = {A, B}
    ByRef = FALSE
    EnsureHTTPS = TRUE
    Uncovered = {}
    ProtocolInit = {"HTTPS"}
    UploadInit = {FALSE}
    UnbindInit = {TRUE}
    Policy = "Abandon"
    KeepLast = 1
    MaxGen = 2
    MaxOutside = 1
    MaxMoves = 1
    MayFailList = FALSE
    MayHide = TRUE
    MayOutage = FALSE
    Settles = FALSE
INVARIANT TypeOK
INVARIANT OnlyAdopted
PROPERTY AccountFence
PROPERTY UnbindOnlyOwn
PROPERTY EchoKept
PROPERTY ImplementsLifecycle
SYMMETRY AccountSymmetry
CHECK_DEADLOCK FALSE
