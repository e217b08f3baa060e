SPECIFICATION Spec
CONSTANTS
    Gateways = {g1, g2}
    Configured = {}
    OwnKey = OwnKey
    NoKey = NoKey
    Absent = Absent
    Torn = Torn
    Unknown = Unknown
    MaxKeys = 2
SYMMETRY Symmetry
PROPERTY KeysNeverRotate
