SPECIFICATION TimerSpec
CONSTANTS
    N = 4
    RMSS = 2
    RcvWnd = 3
    MaxRead = 1
    MaxOfo = 2
INVARIANTS AckDebt
PROPERTIES StreamRefined AllAcked EverythingArrives
