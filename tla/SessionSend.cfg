SPECIFICATION Spec
CONSTANTS
    c1 = c1
    c2 = c2
    k1 = k1
    k2 = k2
    Main = Main
    NULL = NULL
    Conns <- OneConn
    Callers = {k1}
    QMax = 1
    MaxLeft = 1
    ClientMsgs = {"INQUIRY", "RF_MF", "START_CSI", "STOP_CSI"}
    Talkers <- OneConn
    ThreadMayFail = FALSE
SYMMETRY MCSymmetry
INVARIANTS SendExclusion NoResume CallbacksSafe
CHECK_DEADLOCK FALSE
