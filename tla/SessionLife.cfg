SPECIFICATION FairSpec
CONSTANTS
    c1 = c1
    c2 = c2
    k1 = k1
    k2 = k2
    Main = Main
    NULL = NULL
    Conns <- TwoConns
    Callers = {}
    QMax = 1
    MaxLeft = 0
    ClientMsgs = {"HEART_BEAT"}
    Talkers <- OneConn
    ThreadMayFail = FALSE
PROPERTIES SilentClientReaped TimerFollowsClient
CHECK_DEADLOCK FALSE
