\* Two devices and two shots: batches of several rows, versions that number
\* them in any order, and a relay that may lose its file once.
SPECIFICATION Spec
CONSTANTS
    Dev = {1, 2}
    Keys = {k1, k2}
    Values = {"keep"}
    Walls = {1}
    Ctrs = {0}
    Nonces = {1}
    Upgraded = {}
    MaxWritten = 2
    MaxEpoch = 2
    MaxStray = 0
    Faults = {"wipe"}
SYMMETRY ShotSymmetry
INVARIANTS
    NothingSkipped
    InSyncAgrees
    NoDecisionLost
