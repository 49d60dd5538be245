CONSTANTS
    Heartbeats = {0, 1, 2}
    Timeouts <- MCTimeouts
    Infinite = 100
    MaxTime = 6
    FrameUnits = 2
    MaxFrames = 2
    MaxPending = 2
SPECIFICATION Spec
INVARIANT PublishNoticesSilence
CHECK_DEADLOCK FALSE
