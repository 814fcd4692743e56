SPECIFICATION FairSpec
CONSTANTS
    Requests = {r1, r2}
    Keys = {k1}
    Varies = {v1}
    Old = old
    MaxParts = 1
    Modes = {"Default"}
    Incidents = {"dns"}
PROPERTIES WaitingEnds
CHECK_DEADLOCK FALSE
