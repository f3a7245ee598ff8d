\* One photo whose file cannot be decoded.
SPECIFICATION PoolSpec
CONSTANTS
    Pics = {1, 2, 3}
    Broken = {2}
    Native = 3
    LookAhead = 1
    LookBehind = 1
    MaxWaiters = 1
    PoolWorkers = {"w1", "w2"}
    MaxMoves = 2
    MaxSlips = 1
INVARIANT FailuresRest
\* The pool may rest.
CHECK_DEADLOCK FALSE
