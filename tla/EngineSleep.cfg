SPECIFICATION Spec
CONSTANTS
    t1 = t1
    t2 = t2
    t3 = t3
    NoTrack = NoTrack
    Tracks <- ThreeTracks
    Queues <- FadeQueues
    Missing = {}
    Vanishing = {}
    Modes = {"RepeatAll", "RepeatNull"}
    FadeSettings = {TRUE}
    MaySuspend = TRUE
    CacheQueries = {}
    MaxPending = 1
    MaxEnds = 1
PROPERTY PausedStaysWhileAsleep
