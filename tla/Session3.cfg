SPECIFICATION Spec
CONSTANTS
    Specs = {s1, s2, s3}
    Keys = {k1, k2}
    Malformed = Malformed
    Overlong = Overlong
    None = None
    Kinds = {"nextest", "reserved_env", "other"}
    ChanCap = 1
    BufferCap = 2
SYMMETRY Symmetry
INVARIANTS OneExecutionPerKey OutcomeHasReport SingleResult HonestVerdict NothingLostAtEnd
PROPERTIES ReportsKept ClosedStaysClosed KeepsContract
