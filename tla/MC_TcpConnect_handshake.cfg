SPECIFICATION FairSpec
CONSTANTS
    SeqMod = 4
    ISNs = {0, 1, 2, 3}
    PeerISNs = {0, 2, 3}
    PeerStarts = {"LISTEN", "SYN_SENT", "CLOSED"}
    RcvWnd = 1
    Retries = 2
INVARIANTS HandshakeAgrees SynHasTimer AnswerAcceptable
PROPERTY ConnectEnds
CHECK_DEADLOCK FALSE
