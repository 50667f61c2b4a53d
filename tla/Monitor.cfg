CONSTANTS
    N = 3
    Retry = 2
    Runs <- MCRuns
SPECIFICATION Spec
CHECK_DEADLOCK FALSE
INVARIANTS TypeOK EntryTruthful NothingLeft
PROPERTIES TroubleEnds
