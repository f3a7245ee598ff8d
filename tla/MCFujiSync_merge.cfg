\* Two devices, one of them upgraded; a clock may stamp an edit below the
\* register it replaces; the relay may lose its file once; one push whose
\* device gave up may arrive late.
SPECIFICATION Spec
CONSTANTS
    Dev = {1, 2}
    Keys = {k1}
    Values = {"keep"}
    Walls = {1, 2}
    Ctrs = {0}
    Nonces = {1}
    Upgraded = {2}
    MaxWritten = 3
    MaxEpoch = 2
    MaxStray = 1
    Faults = {"wipe", "clock"}
INVARIANTS
    TypeOK
    AckedCovered
PROPERTY OnlyMerges
