SPECIFICATION FairSpec
CONSTANTS
    Procs = {p1, p2}
    Tasks = {t1}
    Asked = {}
    Closings = {"task_stop", "task_delete"}
    Policies = {TRUE, FALSE}
    CountDown = TRUE
    MaxAttempts = 2
    MaxFaults = 0
    Nobody = Nobody
    NoJob = NoJob
    NoRecord = NoRecord
CONSTRAINT Unmarked
INVARIANT RetryIsKept
PROPERTY StopRecycles
CHECK_DEADLOCK FALSE
