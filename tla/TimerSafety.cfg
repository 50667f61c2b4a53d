SPECIFICATION FairSpec
CONSTANTS
    TIMEOUT = TIMEOUT
    STOP_TIMER = STOP_TIMER
    QMax = 3
INVARIANTS TypeOK AtMostOneLateTick StartHeard
 
