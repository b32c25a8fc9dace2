SPECIFICATION Spec
CONSTANTS
    BitmapWidth = 2
    MaxEntries = 2
    Values = {a,b}
    InPriorities <- MCOnePriority
    Idle = Idle
    Junk = Junk
    MaxResets = 2
INVARIANTS
    EntriesPartitioned
PROPERTIES
    RefinesStackHeap
    ReadyAfterReset
