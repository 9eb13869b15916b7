SPECIFICATION FairSpec
CONSTANTS
    SeqMod = 4
    ISNs = {1}
    PeerISNs = {1}
    PeerStarts = {"LISTEN"}
    RcvWnd = 1
    Retries = 1
PROPERTY EstablishedReturns
CHECK_DEADLOCK FALSE
