SPECIFICATION Spec
CONSTANTS
    Requests = {r1, r2, r3}
    Keys = {k1}
    Varies = {v1}
    Old = old
    MaxParts = 1
SYMMETRY Interchangeable
INVARIANTS TypeOK ExclusiveEntries WaitersAreHeld ReaderIsCurrent HeadersMatchBody SidecarOfThisRow
