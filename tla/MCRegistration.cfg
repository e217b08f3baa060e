SPECIFICATION FairSpec
CONSTANTS
    Gateways = {g1, g2}
    Configured = {g2}
    OwnKey = OwnKey
    NoKey = NoKey
    Absent = Absent
    Torn = Torn
    Unknown = Unknown
    MaxKeys = 2
INVARIANTS TypeOK SignaturesVerify
PROPERTIES MintsOnlyUnseen OverwritesOnlyUnseen RotatesOnlyForeign Forgotten
