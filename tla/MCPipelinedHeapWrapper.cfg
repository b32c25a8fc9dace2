SPECIFICATION WrapperSpec
CONSTANTS
    BitmapWidth = 2
    MaxEntries = 2
    Values = {a}
    InPriorities <- MCPriorities
    Idle = Idle
    Junk = Junk
    MaxResets = 2
    ENQUE_FIFO_DEPTH = 1
    DEQUE_FIFO_DEPTH = 4
    HEAP_OP_DEQUE_PRIMARY_TYPE = "DEQUE_MIN"
INVARIANTS
    NothingLost
    OneDequeUnderWay
PROPERTIES
    SecondaryAnswered
    PrimaryPrefetched
    EnquesProceed
    RefinesStackHeap
