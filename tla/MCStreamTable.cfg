CONSTANTS
    MaxStreams = 3
    Window = 2
    Batch = 1
    MaxLosses = 1
    Kinds = {"fin", "reset"}
    Stoppable = {0, 1}
    MayShutDown = TRUE
SPECIFICATION FairSpec
INVARIANTS TypeOK TableSound
PROPERTIES NeverReborn AllOpened
CHECK_DEADLOCK FALSE
