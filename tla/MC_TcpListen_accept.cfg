SPECIFICATION FairSpec
CONSTANTS
    c1 = c1
    c2 = c2
    Clients <- MC_Clients
    SeqMod = 6
    ISNs = {1, 5}
    ClientISNs = {0}
    Talkers <- MC_Talkers
    Stale <- MC_Stale
    Port = 1
    Busy = {2}
    MaxAccepts = 2
INVARIANTS ChildAgrees ListsIntact
PROPERTIES BacklogKept HandshakeCompletes AcceptReturns
CHECK_DEADLOCK FALSE
