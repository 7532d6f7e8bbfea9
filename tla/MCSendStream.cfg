CONSTANTS
    Paths = {p1}
    MaxOffset = 3
    MaxBuffered = 2
    MaxKey = 5
SPECIFICATION Spec
INVARIANTS TypeOK NothingForgotten PendingInWindow TerminalIsDone
PROPERTY Monotone
CHECK_DEADLOCK FALSE
