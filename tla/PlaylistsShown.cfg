SPECIFICATION Spec
CONSTANTS
    t1 = t1
    t2 = t2
    NoTrack = NoTrack
    Tracks <- TwoTracks
    Ascending <- FirstToLast
    FixedLists = {"all", "play"}
    UserLists = {"mine"}
    Stored <- TwoTracks
    MaxImports = 1
INVARIANT ShowsWhatItLists
