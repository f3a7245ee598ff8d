\* A window of three shots and two readers; sweeps of a HEIF, a photo that only
\* its own image can make a thumbnail for, and a video that has none.  Two decoders of two photos.
SPECIFICATION MCSpec
CONSTANTS
    Owners = {"stream"}
    Patience = TRUE
    N = 3
    Videos = {3}
    Converted = {2}
    Folder <- MCFolder
    Ahead = 1
    Behind = 1
    EvictMargin = 1
    NearWindow = 1
    BatchSize = 2
    Readers = {"r1", "r2"}
    Faults = {"camera", "garbage", "rebound", "disk"}
    MaxFaults = 1
    MaxInputs = 2
    Photos = {h1, f1}
    Movies = {m1}
    First = f1
    HEIFs = {h1}
    Bare = {f1}
    Fragments = {f1}
    Undecodable = {m1}
    Untimed = {}
    Far = {h1}
    SweepSize = 2
    MaxTroubles = 2
    MaxStarts = 1
    Pics = {1, 2}
    Broken = {2}
    Native = 3
    LookAhead = 1
    LookBehind = 0
    MaxWaiters = 1
    PoolWorkers = {"w1", "w2"}
    MaxMoves = 2
    MaxSlips = 1
INVARIANTS
    MCTypeOK
    FetchingIsOwned
    ReadyIsCached
    WholeButHEIFs
PROPERTIES
    OwedIsServed
    MCEveryThumbComes
    MCSweepsFinish
    TrustReturns
    CursorDecoded
\* The worker rests when it has nothing to do.
CHECK_DEADLOCK FALSE
