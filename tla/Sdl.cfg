SPECIFICATION FairSpec
CONSTANTS
    Chunk = 2
    TreeLand = FALSE
    OpenOutcomes = {TRUE, FALSE}
    MaxSamples = 3
    MaxCalls = 6
INVARIANTS TypeOK HeardOnceInOrder OldTrackSilent OpensClosedDevice PausedIsSilent PlayingIsHeard
PROPERTY CallsReturn
CHECK_DEADLOCK FALSE
