CONSTANTS
    Paths = {p1}
    MaxOffset = 2
    MaxBuffered = 2
    MaxKey = 8
    MaxSpan = 1
    MaxFaults = 2
SPECIFICATION FairSpec
INVARIANT EndsAgree
PROPERTIES ImplementsReliableStream BothEnd
CHECK_DEADLOCK FALSE
