SPECIFICATION Spec
CONSTANTS
    Msgs = {m}
    Reapers = {r1, r2}
    NoMsg = NoMsg
    Retries = 2
    MaxAttempts = 2
    OutboxEnabled = TRUE
    SharedRegistry = FALSE
    Faults = FALSE
SYMMETRY Symmetry
PROPERTY ConfirmedDeliveryCloses
CHECK_DEADLOCK FALSE
