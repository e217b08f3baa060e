SPECIFICATION FairSpec
CONSTANTS
    Agents = {a, b}
    Nobody = Nobody
    Messages <- OneMessage
    MaxDepth = 2
INVARIANTS TypeOK RefusalsDoNotChain NoticesOfQueued
PROPERTY LoopsResume
CHECK_DEADLOCK FALSE
