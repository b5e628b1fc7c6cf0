SPECIFICATION Spec
CONSTANTS
    Certificate = {"r1", "r2", "deep", "mid", "temp"}
    Key = {"k1", "k2", "ca"}
    Info <- SmallInfo
    Lower <- SmallLower
    Starred = {"*", "a*"}
    Temporary = "temp"
    Issued <- SmallIssued
    Edited <- SmallEdited
    Template <- SmallTemplate
    Domain <- SmallDomain
    MaxWrites = 4
INVARIANT TypeOK
INVARIANT ServedSound
INVARIANT OwnRecognized
INVARIANT TemporaryNeedsRace
