SPECIFICATION Spec
CONSTANTS
    Specs = {s1, s2}
    Keys = {k1, k2}
    Malformed = Malformed
    Overlong = Overlong
    None = None
    Kinds = {"nextest"}
    ChanCap = 1
    BufferCap = 2
PROPERTY CancellationStopsPublication
