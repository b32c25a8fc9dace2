SPECIFICATION Spec
CONSTANTS
    Flows <- MCFlows
    Rounded <- Exact
    Configs <- MCConfigs
    Traces <- MCTraces
    Jobs <- MCJobs
    kNanosecsPerSec = 4
    kDblPosInfty = 1000
    kDryRunIATInNs = 3
INVARIANT SteadyStateWithinPeriod
