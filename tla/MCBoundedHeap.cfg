SPECIFICATION Spec
CONSTANTS
    Tags = {a, b, c, d}
    Metrics = {1, 2, 3}
    kMaxQueueSize = 3
    None = None
    Nodes = {n1, n2, n3, n4}
INVARIANTS
    TypeOK
    HeapsConsistent
PROPERTIES
    RefinesBoundedQueue
SYMMETRY MCSymmetry
