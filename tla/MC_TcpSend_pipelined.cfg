SPECIFICATION FairSpec
CONSTANTS
    MSS = 1
    MaxBytes = 2
    Pipelined = TRUE
    AckRace = TRUE
INVARIANTS PendingHasTimer AckSound
PROPERTY UnackedGetsThrough
CHECK_DEADLOCK FALSE
