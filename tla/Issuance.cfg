SPECIFICATION FairSpec
CONSTANTS
    Cr = {"a"}
    Name = {"n1", "n2"}
    DefaultName <- OwnName
    Issuer = {"x", "y"}
    Bootstrap = {"a"}
    DefaultInit = {"x"}
    MaxChanges = 2
    MaxFaults = 1
INVARIANT TypeOK
PROPERTY NoTrespass
PROPERTY KeyRemoved
PROPERTY IssuerPinned
PROPERTY NameTaken
CHECK_DEADLOCK FALSE
