CONSTANTS
    HEADER_SIZE = 7
    FOOTER_SIZE = 1
    frame_max = 14
    MaxChunk = 19
    Astray = Astray
    Frame <- MCFrame
    First <- MCFirst
    Garbage <- MCGarbage
SPECIFICATION FairSpec
INVARIANTS
    BufferFits
    InStep
    DeliveredWhole
PROPERTY StartedFrameEnds
CHECK_DEADLOCK FALSE
