CONSTANTS
    Streams = {s1, s2}
    Resettable = {s1}
    MaxOffset = 2
    StreamWindow = 1
    ConnWindow = 1
    MaxLosses = 1
SPECIFICATION FairSpec
INVARIANTS TypeOK NoFlowControlError AccountsAgree
PROPERTY AllRead
CHECK_DEADLOCK FALSE
