\* Fading on: switches and pauses are animations that interfere.
SPECIFICATION Spec
CONSTANTS
    t1 = t1
    t2 = t2
    t3 = t3
    NoTrack = NoTrack
    Tracks <- ThreeTracks
    Queues <- FadeQueues
    Missing = {}
    Vanishing = {}
    Modes = {"RepeatAll", "RepeatNull"}
    FadeSettings = {TRUE}
    MaySuspend = FALSE
    CacheQueries = {}
    MaxPending = 1
    MaxEnds = 1
INVARIANTS SilentWithoutTrack LevelRestored
PROPERTIES PressesAddUp StopIsFinal NothingPlaysByItself
