SPECIFICATION FairSpec
CONSTANTS
    p1 = p1
    p2 = p2
    p3 = p3
    Procs <- MC_Procs
    Calls <- MC_Calls
    Leftovers <- MC_Leftovers
    MaxConns = 3
    MaxSockets = 1
    MaxActs = 4
    MaxFd = 5
INVARIANTS OwnAnswer FdUnique TablesAgree ThreadPerConnection
PROPERTIES CallReturns
CHECK_DEADLOCK FALSE
