SPECIFICATION Spec
CONSTANTS
    Slots = {s1, s2}
    TicksFail = TRUE
    ListsFail = TRUE
SYMMETRY Symmetry
INVARIANTS TypeOK RoutesAgree Attended
PROPERTY Forward
