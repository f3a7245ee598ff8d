\* A disk that is full for a moment: a line is half written and the snapshot
\* that should make up for it fails as well.
SPECIFICATION Spec
CONSTANTS
    Self = 1
    Keys = {k1}
    Values = {"keep"}
    Walls = {1, 2}
    Nonces = {1}
    Remotes <- NoRemotes
    ServerNows = {0}
    MaxSkew = 1
    MaxEdits = 2
    MaxErrors = 2
    Faults = {"kill", "append", "save"}
INVARIANT DecisionsSurvive
