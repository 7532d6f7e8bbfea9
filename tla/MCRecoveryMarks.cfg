SPECIFICATION Spec
CONSTANTS
    Stream = {s}
    Crypto = {h}
    Control = {c}
    MaxPn = 4
    MaxInFlight = 2
    Cwnd = 1
    PacketThreshold = 1
    RingSlots = 2
    MaxMarks = 1
INVARIANTS MarkStands
CHECK_DEADLOCK FALSE
