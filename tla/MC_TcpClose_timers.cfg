SPECIFICATION FairSpec
CONSTANTS
    MaxTimers = 3
    TickMod = 4
    MaxBytes = 1
    RTO = 1
INVARIANTS FiresInTime RefsCounted FinKept PeerFinRemembered
PROPERTY TimersReclaimed
CHECK_DEADLOCK FALSE
