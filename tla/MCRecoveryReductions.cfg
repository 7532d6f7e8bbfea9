SPECIFICATION Spec
CONSTANTS
    Stream = {s}
    Crypto = {h}
    Control = {c1, c2}
    MaxPn = 4
    MaxInFlight = 5
    Cwnd = 3
    PacketThreshold = 1
    RingSlots = 2
    MaxMarks = 0
PROPERTIES OneReduction
CHECK_DEADLOCK FALSE
