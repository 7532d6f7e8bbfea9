CONSTANTS
    Streams = {s1}
    Resettable = {s1}
    MaxOffset = 2
    StreamWindow = 2
    ConnWindow = 4
    MaxLosses = 1
SPECIFICATION Spec
INVARIANT ChargedOnce
CHECK_DEADLOCK FALSE
