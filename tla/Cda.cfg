\* Two discs, one of them of two tracks, and a blank one.
SPECIFICATION FairSpec
CONSTANTS
    Discs = {{t1, t2}, {t3}, {}}
    NoDisc = NoDisc
    Songs = {s1}
    MaxChanges = 4
INVARIANTS TypeOK OneEntry EntryPlaysWholeDisc CdTracksAreListed
PROPERTIES DiscIsOffered EjectedDiscLeaves ThreadEnds
CHECK_DEADLOCK FALSE
