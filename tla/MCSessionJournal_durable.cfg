\* One device, with a relay other devices push to; it may be killed anywhere,
\* and one of its file operations may fail.
SPECIFICATION Spec
CONSTANTS
    Self = 1
    Keys = {k1}
    Values = {"keep"}
    Walls = {1, 2, 3}
    Nonces = {1}
    Remotes <- RemotesEarlyAndLate
    ServerNows = {1}
    MaxSkew = 1
    MaxEdits = 2
    MaxErrors = 1
    Faults = {"kill", "append", "save"}
INVARIANTS
    TypeOK
    DecisionsSurvive
    HighWaterHonest
PROPERTY EditsWin
