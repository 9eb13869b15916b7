SPECIFICATION Spec
CONSTANTS
    N = 2
    RMSS = 2
    RcvWnd = 3
    MaxRead = 2
    MaxOfo = 1
INVARIANT EofMeansEnd
