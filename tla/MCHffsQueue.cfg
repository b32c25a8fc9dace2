CONSTANTS
    WordBits = 3
    kNumBuckets = 11
    kScaleFactor = 2
    WeightMod = 32
    Tags = {t1, t2}
    Weights <- MCWeights
    NoTag = NoTag
    Threw = Threw
    MaxSize = 4
SPECIFICATION Spec
INVARIANT TypeOK TreeConsistent SizeCountsEntries AssertsHold
PROPERTY RefinesBucketQueue
