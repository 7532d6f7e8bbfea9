SPECIFICATION Spec
CONSTANTS
    a = a
    b = b
    c = c
    Roles = {"client", "server"}
    Addrs = {a, b, c}
    Home = a
    Locals = {"l", "m"}
    Base = "l"
    Limit = 2
    MaxSeq = 2
    MaxTokens = 2
    MaxCredit = 2
SYMMETRY Symmetry
INVARIANTS TypeOK ProvenOnly WithinBudget
PROPERTY InUseKept
CHECK_DEADLOCK FALSE
