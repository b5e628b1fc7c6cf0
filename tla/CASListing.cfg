SPECIFICATION FairSpec
CONSTANTS
    MaxCert = 6
    Anonymous = {3}
    PageSize = 2
    MaxPages = 3
    ServerCap = 2
    MaxChanges = 3
INVARIANT TypeOK
INVARIANT MissesBounded
PROPERTY ListingEnds
