SPECIFICATION Spec
CONSTANTS
    MaxEpoch = 2
    Threshold = 2
    Confidentiality = 3
    Integrity = 1
INVARIANTS TypeOK InStep AckConfirms
CHECK_DEADLOCK FALSE
