CONSTANTS
    MaxOps = 2
    MaxLosses = 1
    Kinds = {"inquiry"}
SPECIFICATION Spec
CHECK_DEADLOCK FALSE
INVARIANT Listening
