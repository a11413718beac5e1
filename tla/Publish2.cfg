SPECIFICATION Spec
CONSTANTS
    Executors = {e1, e2}
    Names = {n1, n2}
    Pids = {p1, p2}
    None = None
SYMMETRY Symmetry
INVARIANTS VisibleIsComplete ExportedStays TempsAreExplained
PROPERTY KeepsPromise
