SPECIFICATION Spec
CONSTANTS
    Endpoint = {"A", "B"}
    HeaderSize = 1
    ChunkSize = 2
    SocketBuffer = 2
    MaxTransferFds = 2
    MaxUnprocessedBytes = 20
    MaxUnprocessedFds = 9
    MaxPayload = 2
    MaxMessageFds = 2
    PayloadSizes = {1}
    FdCounts = {0}
    MaxPosts <- OneFromA
    Ops <- ASendsAndCloses
INVARIANTS PendingMessagesSent
CHECK_DEADLOCK FALSE
