SPECIFICATION FairSpec
CONSTANTS
    MSS = 2
    MaxBytes = 4
    Pipelined = FALSE
    AckRace = FALSE
INVARIANTS StreamIntact UnackedQueued
PROPERTY EventuallyAcked
CHECK_DEADLOCK FALSE
