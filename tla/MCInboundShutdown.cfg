SPECIFICATION FairSpec
CONSTANTS
    m1 = m1
    m2 = m2
    Ids <- TwoIds
    Pending = 1
    TTL = 1
    Cap = 2
    InboxSize = 1
    MaxAccepted = 3
    Skew = 0
    Horizon = 0
    MaxStops = 1
PROPERTY DisconnectEnds
CHECK_DEADLOCK FALSE
