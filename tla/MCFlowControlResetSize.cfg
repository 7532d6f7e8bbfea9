CONSTANTS
    Streams = {s1}
    Resettable = {s1}
    MaxOffset = 2
    StreamWindow = 1
    ConnWindow = 2
    MaxLosses = 0
SPECIFICATION Spec
INVARIANT ResetKeepsLimits
CHECK_DEADLOCK FALSE
