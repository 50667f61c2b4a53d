SPECIFICATION FairSpec
CONSTANTS
    Threads = {t1, t2, t3}
    NoThread = NoThread
    Types = {"ACCEPT", "TIMEOUT"}
    QMax = 2
    MaxSeq = 3
    MaxBoot = 2
INVARIANTS TypeOK NumbersInOrder
PROPERTIES ImplementsEventQueue HolderReleases
CHECK_DEADLOCK FALSE
