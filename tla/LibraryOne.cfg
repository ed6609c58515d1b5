SPECIFICATION FairSpec
CONSTANTS
    t1 = t1
    t2 = t2
    NoTrack = NoTrack
    Tracks <- OneTrack
    Lists = {"play"}
    Damaged <- OneTrack
    UnsafePaths = {}
    DbOutcomes = {TRUE, FALSE}
    ImportTargets = {"", "all", "play"}
    EditedLists = {"play"}
    Deletable <- OneTrack
    PartlyShown = {"play"}
    MaxImports = 2
INVARIANTS TypeOK EntriesKnown CleanLosesNothing
PROPERTIES NoTaskLost AllListComplete AnalysisImplemented
