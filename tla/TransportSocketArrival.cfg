SPECIFICATION FairSpec
CONSTANTS
    Endpoint = {"A", "B"}
    HeaderSize = 1
    ChunkSize = 2
    SocketBuffer = 2
    MaxTransferFds = 2
    MaxUnprocessedBytes = 20
    MaxUnprocessedFds = 9
    MaxPayload = 2
    MaxMessageFds = 2
    PayloadSizes = {1}
    FdCounts = {1}
    MaxPosts <- TwoFromA
    Ops <- BWaits
INVARIANTS NoLostNotification
PROPERTIES EveryMessageArrives EveryFdIsReleased
CHECK_DEADLOCK FALSE
