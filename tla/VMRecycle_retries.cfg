SPECIFICATION Spec
CONSTANTS
    Procs = {p1, p2}
    Tasks = {t1}
    Asked = {t1}
    Closings = {}
    Policies = {TRUE, FALSE}
    CountDown = FALSE
    MaxAttempts = 2
    MaxFaults = 0
    Nobody = Nobody
    NoJob = NoJob
    NoRecord = NoRecord
SYMMETRY MCSymmetry
INVARIANTS RecycledMeansGone RecordIsTrue
PROPERTY ImplementsContract
CHECK_DEADLOCK FALSE
