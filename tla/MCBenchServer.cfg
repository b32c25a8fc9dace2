SPECIFICATION Spec
CONSTANTS
    BURST_SIZE = 2
    SCHEDULER_QUEUE_SIZE = 2
    PROCESS_RING_SIZE = 3
    Packets <- MCPackets
    kScaleFactor = 2
    kNumBuckets = 8
    WeightMod = 16
    PoolSize = 14
INVARIANTS
    TypeOK
    NoLeak
    PoolBudget
    KeepsLightest
PROPERTIES
    Drains
    AllStop
