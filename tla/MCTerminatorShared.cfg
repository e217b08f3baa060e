SPECIFICATION Spec
CONSTANTS
    Msgs = {m}
    Reapers = {r1}
    NoMsg = NoMsg
    Retries = 2
    MaxAttempts = 2
    OutboxEnabled = TRUE
    SharedRegistry = TRUE
    Faults = FALSE
SYMMETRY Symmetry
INVARIANT AcceptedStaysClosed
CHECK_DEADLOCK FALSE
