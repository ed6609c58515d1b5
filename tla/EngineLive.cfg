\* Everything that may happen to two tracks: files vanish, the setting is
\* toggled, the machine sleeps.
SPECIFICATION FairSpec
CONSTANTS
    t1 = t1
    t2 = t2
    t3 = t3
    NoTrack = NoTrack
    Tracks <- TwoTracks
    Queues <- TwoQueues
    Missing = {}
    Vanishing = {t1}
    Modes = {"RepeatAll", "Shuffle"}
    FadeSettings = {TRUE, FALSE}
    MaySuspend = TRUE
    CacheQueries = {}
    MaxPending = 1
    MaxEnds = 1
PROPERTY NavigationApplied
