CONSTANTS
    Paths = {p1, p2}
    MaxOffset = 2
    MaxBuffered = 2
    MaxKey = 4
SPECIFICATION Spec
SYMMETRY PathSymmetry
INVARIANT PendingInWindow
CHECK_DEADLOCK FALSE
