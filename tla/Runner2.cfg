SPECIFICATION FairSpec
CONSTANTS
    Signals = {TERM, INT}
    None = None
    Root = Root
    Groups = {g1, g2}
CHECK_DEADLOCK FALSE
INVARIANTS PublishedIsQuiet VerdictIsWhole InterruptionIsTold ScratchOutlivesGroups
PROPERTY InterruptedEnds
