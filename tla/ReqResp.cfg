CONSTANTS
    MaxOps = 4
    MaxLosses = 1
    Kinds = {"on"}
SPECIFICATION Spec
CHECK_DEADLOCK FALSE
INVARIANTS TypeOK AnswersInStep WalkSafeInTime RssiAgrees
