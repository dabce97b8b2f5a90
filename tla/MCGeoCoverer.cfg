CONSTANTS
    MaxFields = 8
    MaxVertices = 3
    SqMiSamples = {0, 50, 101, 102, 1000, 1001}
    NaN = NaN
    Nil = Nil

SPECIFICATION Spec

INVARIANT ConversionsMatchSpec

CHECK_DEADLOCK FALSE
