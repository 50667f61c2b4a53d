SPECIFICATION Spec
CONSTANTS
    Slow = 1
    Callers = {k1, k2}
    NULL = NULL
    k1 = k1
    k2 = k2
INVARIANTS TypeOK StreamBacked TypedByContent
PROPERTIES StreamFlows
CHECK_DEADLOCK FALSE
