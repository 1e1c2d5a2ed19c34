SPECIFICATION FairSpec
CONSTANTS
    Viewers = {v1}
    Logs <- MCLogs
    BufferSize = 2
    QueueSize = 1
    PipeSize = 1
    MaxChunks = 3
INVARIANTS TypeOK InOrder SeesAll
PROPERTIES EndReaches LeavesNoSubscriber
CHECK_DEADLOCK FALSE
