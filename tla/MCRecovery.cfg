SPECIFICATION FairSpec
CONSTANTS
    Stream = {s}
    Crypto = {h}
    Control = {c}
    MaxPn = 4
    MaxInFlight = 3
    Cwnd = 1
    PacketThreshold = 1
    RingSlots = 2
    MaxMarks = 0
INVARIANTS
    TypeOK FramesKept EpisodesSound
PROPERTIES Settled
CHECK_DEADLOCK FALSE
