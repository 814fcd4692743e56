SPECIFICATION Spec
CONSTANTS
    Requests = {r1, r2}
    Keys = {k1}
    Varies = {v1}
    Old = old
    MaxParts = 2
    Modes = {"Default", "NoStore", "NoCache", "OnlyIfCached", "OnlyIfCachedHeader"}
    Incidents = {"dns", "cookie", "network", "hangup", "pipe", "client", "stop", "disconnect", "clear", "store",
        "connect", "substitution"}
SYMMETRY Interchangeable
INVARIANTS TypeOK ResumedWhileWaiting RevalidationIsExclusive ReferencesAreOpen FinishedMeansFlushed FetchesStoreWholeBodies
PROPERTIES ImplementsDiskCache
CHECK_DEADLOCK FALSE
