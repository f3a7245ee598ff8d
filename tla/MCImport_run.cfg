\* Two calls of Start, one worker, and everything that may go wrong.
SPECIFICATION FairSpec
CONSTANTS
    Files = {"jpg", "raf", "mov"}
    Size <- MCSize
    ShotOf <- MCShotOf
    Workers = 1
    BufferAhead = 2
    BufferBytes = 2
    QueueCap = 1
    Retries = 1
    ChunkCount = 2
    ChunkBytes = 3
    Rounds = 2
    MaxStarts = 2
    Faults = {"read", "refuse", "lose", "check", "open", "disk", "camera", "kill"}
INVARIANTS
    TypeOK
    Balanced
    ImportedArrived
PROPERTIES
    NothingDropped
    RunEnds
\* After the last call of Start the importer rests.
CHECK_DEADLOCK FALSE
