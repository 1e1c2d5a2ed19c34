SPECIFICATION Spec
CONSTANTS
    Procs = {p1, p2}
    Tasks = {t1}
    Asked = {t1}
    Closings = {"task_stop"}
    Policies = {FALSE}
    CountDown = FALSE
    MaxAttempts = 1
    MaxFaults = 1
    Nobody = Nobody
    NoJob = NoJob
    NoRecord = NoRecord
SYMMETRY MCSymmetry
VIEW MCView
INVARIANTS TypeOK OneRecycler JobOutlivesTasks
CHECK_DEADLOCK FALSE
