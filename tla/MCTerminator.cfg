SPECIFICATION FairSpec
CONSTANTS
    Msgs = {m}
    Reapers = {r1, r2}
    NoMsg = NoMsg
    Retries = 2
    MaxAttempts = 2
    OutboxEnabled = TRUE
    SharedRegistry = FALSE
    Faults = TRUE
INVARIANTS TypeOK ClosedInFlight NothingStaysPending NoGhostClose LandedIsClosed
PROPERTIES OutboxDrains ClosesAreFinal OutboxLosesNothing ImplementsClosing
CHECK_DEADLOCK FALSE
