SPECIFICATION Spec
CONSTANTS
    Slots = {s1, s2}
    TicksFail = FALSE
    ListsFail = TRUE
INVARIANT ListsRecover
