SPECIFICATION Spec
CONSTANTS
    Exporters = {e1, e2, e3}
    Pids = {p1, p2}
    Attempts = 2
SYMMETRY Symmetry
INVARIANTS VisibleIsComplete ExportedStays TempsAreExplained
PROPERTY KeepsPromise
