SPECIFICATION Spec
CONSTANTS
    Requests = {r1, r2}
    Keys = {k1}
    Varies = {v1}
    Old = old
    MaxParts = 2
    Modes = {"Default"}
    Incidents = {"network"}
INVARIANTS OnlyWholeBodies
CHECK_DEADLOCK FALSE
