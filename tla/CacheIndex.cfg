SPECIFICATION Spec
CONSTANTS
    Keys = {k1, k2}
    Varies = {v1, v2}
    DataSizes = {1}
    HeaderSizes = {1, 2}
    AssociatedSizes = {2}
    Times = {0, 1, 2}
    FreeShare = 6
    Settings = {2, 8}
    EntryShare = 2
SYMMETRY Interchangeable
INVARIANTS TypeOK TotalIsSum EntriesAreRows
PROPERTIES EvictsLeastRecent NewestSurvives
