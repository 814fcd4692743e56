SPECIFICATION Spec
CONSTANTS
    Endpoint = {"A", "B"}
    HeaderSize = 1
    ChunkSize = 3
    SocketBuffer = 2
    MaxTransferFds = 1
    MaxUnprocessedBytes = 6
    MaxUnprocessedFds = 4
    MaxPayload = 2
    MaxMessageFds = 2
    PayloadSizes = {1, 2}
    FdCounts = {0, 2}
    MaxPosts <- TwoFromA
    Ops <- NoOps
INVARIANTS StreamInv WithinLimits DiscardFits FdsRetainedUntilReceived NoExcessAcknowledgement EofMeansDisconnected
PROPERTIES ImplementsChannel
CHECK_DEADLOCK FALSE
