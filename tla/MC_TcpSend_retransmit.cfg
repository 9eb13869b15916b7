SPECIFICATION Spec
CONSTANTS
    MSS = 2
    MaxBytes = 4
    Pipelined = TRUE
    AckRace = FALSE
INVARIANT StreamIntact
CHECK_DEADLOCK FALSE
