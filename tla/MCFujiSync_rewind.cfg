\* Every device syncs for ever and the user decides a few times; the relay is
\* started once more, from a backup of its file.
SPECIFICATION FairSpec
CONSTANTS
    Dev = {1, 2}
    Keys = {k1}
    Values = {"keep"}
    Walls = {1, 2}
    Ctrs = {0}
    Nonces = {1}
    Upgraded = {}
    MaxWritten = 2
    MaxEpoch = 1
    MaxStray = 0
    Faults = {"restore"}
PROPERTY Convergence
