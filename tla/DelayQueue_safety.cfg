SPECIFICATION Spec
CONSTANTS
    Ids = {i1, i2}
    Payloads = {p1}
    Callers = {c1}
    Workers = {w1, w2}
    MaxAttempts = 2
    BatchSize = 2
    MaxFaults = 1
    NoJob = NoJob
SYMMETRY MCSymmetry
INVARIANTS TypeOK NoStrandedJob NoOrphanInSequentialUse ClaimedOnce
PROPERTY ImplementsContract
