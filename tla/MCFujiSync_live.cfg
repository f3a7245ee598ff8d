\* Every device syncs for ever, the user decides a few times, the relay may
\* lose its file once.
SPECIFICATION FairSpec
CONSTANTS
    Dev = {1, 2}
    Keys = {k1}
    Values = {"keep"}
    Walls = {1, 2}
    Ctrs = {0}
    Nonces = {1}
    Upgraded = {}
    MaxWritten = 2
    MaxEpoch = 2
    MaxStray = 0
    Faults = {"wipe"}
PROPERTY Convergence
