CONSTANTS
    Cell = {c1, c2, c3}
    Channel = {0, 1}
    NULL = NULL
    Released = Released
    Frame <- MCFrame
SPECIFICATION FairSpec
INVARIANTS
    ListWellFormed
    QueuedFramesLive
    InboundLive
PROPERTIES
    QueueSpec
    WalkEnds
