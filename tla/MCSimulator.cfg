SPECIFICATION Spec
CONSTANTS
    Flows <- MCFlows
    Rounded <- Exact
    Configs <- MCConfigs
    Traces <- MCTraces
    Jobs <- MCJobs
    kNanosecsPerSec = 4
    kDblPosInfty = 1000
    kDryRunIATInNs = 3
INVARIANTS
    TypeOK
    QueueConsistent
    FlowOrderKept
    AssertsHold
PROPERTIES
    DeparturesOrdered
    Terminates
    RefinesFlowOrderedQueue
