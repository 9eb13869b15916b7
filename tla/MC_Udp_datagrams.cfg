SPECIFICATION FairSpec
CONSTANTS
    s1 = s1
    s2 = s2
    r1 = r1
    LinkHead = head
    Null = null
    NoPeer = none
    Socks <- MC_Socks
    Readers <- MC_Readers
    Peers <- MC_Peers
    Ports = {0, 1}
    Arrivals <- MC_Arrivals
INVARIANTS ReplyFindsSender LastLinkedFound TakenInOrder
PROPERTIES ConnectedFixed ReaderReturns
CHECK_DEADLOCK FALSE
