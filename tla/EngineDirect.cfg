\* The queue in every mode, fading off: tracks are switched at once.
SPECIFICATION Spec
CONSTANTS
    t1 = t1
    t2 = t2
    t3 = t3
    NoTrack = NoTrack
    Tracks <- ThreeTracks
    Queues <- ThreeQueues
    Missing = {t2}
    Vanishing = {}
    Modes = {"RepeatAll", "RepeatSingle", "Shuffle", "RepeatNull"}
    FadeSettings = {FALSE}
    MaySuspend = FALSE
    CacheQueries = {t1}
    MaxPending = 2
    MaxEnds = 1
INVARIANTS TypeOK NoStrandedNavigation CacheCoherent
PROPERTIES PressesAddUp EndFollowsMode RemovalKeepsPlace
