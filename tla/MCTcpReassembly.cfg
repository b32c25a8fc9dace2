SPECIFICATION Spec
CONSTANTS
    Flows = {f1}
    SeqBits = 4
    kReassemblyWindowSizeInBytes = 6
    MaxPayload = 4
    kServiceTimeScaling = 5
    AttackJobSize = 1
INVARIANTS
    TypeOK
    OooListOrdered
PROPERTIES
    RefinesReassemblyBuffer
VIEW MCView
