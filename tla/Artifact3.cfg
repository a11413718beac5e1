SPECIFICATION FairSpec
CONSTANTS
    Signals = {HUP, INT, TERM}
    None = None
CHECK_DEADLOCK FALSE
INVARIANTS ExportIsQuiet StatusIsWhole DispatchedSignalTold
PROPERTY InterruptedEnds
