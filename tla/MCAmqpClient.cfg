CONSTANTS
    Channel = {c1, c2}
    Zero = zero
    Request = {declare, consume}
    Closable = {c1, zero}
    MaxClosed = 1
    MaxMessages = 2
    MaxBody = 2
    MaxRequests = 2
    MaxWork = 2
    MaxWire = 1
    NULL = NULL
SPECIFICATION FairSpec
CONSTRAINT AfterMissed
INVARIANTS
    MessagesIntact
    ReplyMatches
PROPERTIES
    RpcEnds
    ReadEnds
CHECK_DEADLOCK FALSE
