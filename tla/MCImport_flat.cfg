\* One upload-only import of three files against a server that refuses them.
SPECIFICATION Spec
CONSTANTS
    Files = {"jpg", "raf", "mov"}
    Size <- MCSize
    ShotOf <- MCShotOf
    Workers = 1
    BufferAhead = 1
    BufferBytes = 2
    QueueCap = 1
    Retries = 1
    ChunkCount = 1
    ChunkBytes = 3
    Rounds = 1
    MaxStarts = 1
    Faults = {"refuse"}
INVARIANT StagingFlat
CHECK_DEADLOCK FALSE
