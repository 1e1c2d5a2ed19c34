SPECIFICATION Spec
CONSTANTS
    Procs = {p1}
    Tasks = {t1}
    Asked = {}
    Closings = {"task_stop"}
    Policies = {FALSE}
    CountDown = FALSE
    MaxAttempts = 2
    MaxFaults = 0
    Nobody = Nobody
    NoJob = NoJob
    NoRecord = NoRecord
INVARIANT StopIsRetried
CHECK_DEADLOCK FALSE
