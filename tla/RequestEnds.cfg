SPECIFICATION FairSpec
CONSTANTS
    Requests = {r1, r2, r3}
    Keys = {k1}
    Varies = {v1}
    Old = old
    MaxParts = 1
    Modes = {"Default"}
    Incidents = {"network", "stop"}
PROPERTIES EveryRequestEnds
CHECK_DEADLOCK FALSE
