\* Streams over the link; two cameras and two starts; the badge; previews; bursts.
SPECIFICATION MCSpec
CONSTANTS
    Owners = {"stream", "import"}
    Patience = TRUE
    Clips = {"c1", "c2"}
    Chunks = {0, 1}
    Viewers = {"v1", "v2"}
    Nobody = "nobody"
    MaxSessions = 2
    MaxReads = 2
    MaxWork = 1
    MaxMishaps = 1
    Bodies = {"b1", "b2"}
    FileNames = {"n1", "n2"}
    NoBody = "no body"
    Swaps = FALSE
    MaxPictures = 2
    MaxFailures = 1
    MaxPlugs = 2
    MaxRuns = 2
    Frames = {"s1", "s2"}
    Refused = {"s2"}
    QueueMax = 1
    BatchMax = 2
    MaxImports = 1
    MaxLandings = 2
    MaxOutages = 1
    MaxReboots = 1
    Requests = {"r1", "r2"}
    MaxJobs = 3
    MaxPulls = 2
    MaxSpoilt = 1
    RollSize = 5
    ClipsAt = {4}
    BurstGap = 1
    LastSecond = 3
    BestScore = 2
INVARIANTS
    MCTypeOK
    LinkYielded
    NoForeignBytes
    PausedWhileStreaming
    NoSessionLost
    SessionOwn
    NoOldSession
    BadgeHonest
    PreviewWhole
    BestOfBurst
PROPERTIES
    ViewersAnswered
    IndexTrue
    AppGetsReady
    PresencePersists
    PreviewAnswered
\* Viewers, requests and the camera may rest.
CHECK_DEADLOCK FALSE
