CONSTANTS
    MaxOffset = 7
    MaxSpan = 5
SPECIFICATION RecvSpec
INVARIANTS RecvTypeOK BufferSound EndIsTruthful
CHECK_DEADLOCK FALSE
