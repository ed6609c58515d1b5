SPECIFICATION Spec
CONSTANTS
    t1 = t1
    t2 = t2
    NoTrack = NoTrack
    Tracks <- OneTrack
    Lists = {"play"}
    Damaged = {}
    UnsafePaths = {}
    DbOutcomes = {TRUE}
    ImportTargets = {"all"}
    EditedLists = {}
    Deletable <- OneTrack
    PartlyShown = {"play"}
    MaxImports = 2
INVARIANT CleanMeansSaved
