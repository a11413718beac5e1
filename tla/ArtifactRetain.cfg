SPECIFICATION Spec
CONSTANTS
    Signals = {HUP, INT, TERM}
    None = None
SYMMETRY Symmetry
CHECK_DEADLOCK FALSE
INVARIANT LifecycleFailureRetains
