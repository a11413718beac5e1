SPECIFICATION Spec
CONSTANTS
    Signals = {TERM, INT}
    None = None
    Root = Root
    Groups = {g1, g2}
SYMMETRY Symmetry
CHECK_DEADLOCK FALSE
INVARIANT SignalStatusReturned
