SPECIFICATION FilesSpec
CONSTANTS
    Runners = {r1, r2}
    Adapters = {a1}
    Owners = {r1, r2, a1}
    Depth = 1
    Stamps = {s1}
    Attempts = 2
    Pids = {p1, p2}
    None = None
    NoName = NoName
SYMMETRY Symmetry
INVARIANTS OkIsHandedOver RootsAreOwn NotEveryoneLoses
PROPERTIES ReplacedOnlyInWindow KeepsPromise
CHECK_DEADLOCK FALSE
