SPECIFICATION Spec
CONSTANTS
    Flows <- MCFlows
    Rounded <- ThreeBits
    Configs <- MCInorderConfigs
    Traces <- MCTraces
    Jobs <- MCFullJobs
    kNanosecsPerSec = 4
    kDblPosInfty = 1000
    kDryRunIATInNs = 3
PROPERTY TotalJobSizeNonNegative
