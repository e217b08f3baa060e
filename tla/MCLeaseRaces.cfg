SPECIFICATION Spec
CONSTANTS
    Agents = {a, b, c}
    Ids = {i}
    NoId = NoId
    Calls = {k1, k2}
    MaxOutbound = 1
    DefaultLease = 1
    ResizeLease = 2
    MaxLease = 2
    Routes <- Others
    MaxClock = 2
    IOFaults = TRUE
SYMMETRY Symmetry
INVARIANTS TypeOK OneThreadPerRecipient OneThreadPerPair OutboundCap LeaseLifetime
PROPERTIES ImplementsDoors OnlyPartiesRelease RefusalsAreJustified
