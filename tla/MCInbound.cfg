SPECIFICATION FairSpec
CONSTANTS
    m1 = m1
    m2 = m2
    Ids <- TwoIds
    Pending = 2
    TTL = 1
    Cap = 2
    InboxSize = 2
    MaxAccepted = 3
    Skew = 0
    Horizon = 2
    MaxStops = 1
INVARIANTS TypeOK SeenHasEntered
PROPERTIES Remembered ReplayNeedsAWait Serves StopsWithRoom
CHECK_DEADLOCK FALSE
