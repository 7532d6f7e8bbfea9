SPECIFICATION FairSpec
CONSTANTS
    Workloads <- BothWorkloads
    Samples = 3
    MaxEdits = 2
INVARIANTS TypeOK Honest
PROPERTY Ends
CHECK_DEADLOCK FALSE
