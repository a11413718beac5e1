SPECIFICATION FairSpec
CONSTANTS
    Specs = {s1, s2, s3}
    Keys = {k1}
    Malformed = Malformed
    Overlong = Overlong
    None = None
    Kinds = {"nextest"}
    ChanCap = 1
    BufferCap = 1
PROPERTIES SessionEnds AckedIsResolved
