SPECIFICATION Spec
CONSTANTS
    BitmapWidth = 2
    MaxEntries = 2
    Values = {a}
    InPriorities <- MCThreePriorities
    Idle = Idle
    Junk = Junk
    MaxResets = 1
INVARIANTS
    TypeOK
    EntriesPartitioned
    BitmapsExact
    DequeOrder
PROPERTIES
    SureOpsCommit
    RefinesStackHeap
