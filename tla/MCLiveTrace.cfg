SPECIFICATION FairTraceSpec
CONSTANTS
    s1 = s1
    s2 = s2
    s3 = s3
    b1 = b1
    NoSpan = NoSpan
    Span = {s1, s2, s3}
    Browser = {b1}
    MaxLosses = 1
INVARIANTS
    TraceTypeOK
    NothingIsLeftOut
PROPERTIES
    PageNeverGoesBack
    EndsAreShown
    ConnectionsEnd
CHECK_DEADLOCK FALSE
