SPECIFICATION Spec
CONSTANTS
    t1 = t1
    t2 = t2
    NoTrack = NoTrack
    Tracks <- TwoTracks
    Lists = {"play"}
    Damaged = {t1}
    UnsafePaths = {t2}
    DbOutcomes = {TRUE}
    ImportTargets = {"play"}
    EditedLists = {}
    Deletable = {t2}
    PartlyShown = {}
    MaxImports = 2
PROPERTIES NoTaskLost AnalysisSteps ImportedOnce
