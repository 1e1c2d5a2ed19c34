SPECIFICATION FairSpec
CONSTANTS
    Viewers = {v1}
    Logs <- MCLogs
    BufferSize = 2
    QueueSize = 1
    PipeSize = 1
    MaxChunks = 1
PROPERTY ClosedAtEnd
CHECK_DEADLOCK FALSE
