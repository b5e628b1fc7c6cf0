SPECIFICATION Spec
CONSTANTS
    Secret = {"s", "t"}
    Key = {"k1", "k2"}
    Contents <- TwoAccounts
    Region = {"r"}
    Group = {"g", "h"}
    LimitKind = {"cas-write", "oss"}
    Burst <- SmallBurst
    Rate <- SmallBurst
    MaxRev = 2
INVARIANT ClientIsOwn
INVARIANT QuotaKept
