SPECIFICATION GateSpec
CONSTANTS
    Files <- TwoFiles
    MaxTreeEdits = 2
    Cells <- FourCells
    Mixed <- MixedCells
    Homogeneous <- BbrCells
    Cubic = "cubic"
    BaselineBytes <- Recorded
    Capacity = 4
    Outcomes <- Measured
INVARIANTS GateTypeOK PassMeansFairer
PROPERTY SnapshotConsistent
CHECK_DEADLOCK FALSE
