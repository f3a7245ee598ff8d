\* A device on its own that is killed now and then, and whose clock may step
\* back.
SPECIFICATION Spec
CONSTANTS
    Self = 1
    Keys = {k1}
    Values = {"keep"}
    Walls = {1, 2}
    Nonces = {1}
    Remotes <- NoRemotes
    ServerNows = {0}
    MaxSkew = 1
    MaxEdits = 2
    MaxErrors = 0
    Faults = {"kill"}
PROPERTY EditsAlwaysWin
