SPECIFICATION EnqueueSpec
CONSTANTS
    Ids = {i1}
    Payloads = {p1}
    Callers = {c1}
    Workers = {w1}
    MaxAttempts = 2
    BatchSize = 1
    MaxFaults = 0
    NoJob = NoJob
INVARIANT NoIsolatedEntry
