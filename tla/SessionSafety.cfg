SPECIFICATION Spec
CONSTANTS
    c1 = c1
    c2 = c2
    k1 = k1
    k2 = k2
    Main = Main
    NULL = NULL
    Conns <- TwoConns
    Callers = {}
    QMax = 2
    MaxLeft = 1
    ClientMsgs = {"HEART_BEAT"}
    Talkers <- TwoConns
    ThreadMayFail = TRUE
SYMMETRY MCSymmetry
INVARIANTS TypeOK FreeAfterExit TeardownTargetLive ClosedIsLast
CHECK_DEADLOCK FALSE
