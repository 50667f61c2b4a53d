SPECIFICATION Spec
CONSTANTS
    N = 6
    MaxCalls = 4
    MaxCount = 3
    MaxRefs = 1
    MaxLost = 1
INVARIANTS TypeOK ListsLinked HeapAccounted RightPlace DuplicateEqual
PROPERTIES ImplementsItemTree
CHECK_DEADLOCK FALSE
