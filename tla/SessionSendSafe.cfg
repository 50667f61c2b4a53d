SPECIFICATION Spec
CONSTANTS
    c1 = c1
    c2 = c2
    k1 = k1
    k2 = k2
    Main = Main
    NULL = NULL
    Conns <- OneConn
    Callers = {k1}
    QMax = 2
    MaxLeft = 0
    ClientMsgs = {"HEART_BEAT"}
    Talkers <- OneConn
    ThreadMayFail = FALSE
INVARIANT SendThreadSafe
CHECK_DEADLOCK FALSE
