SPECIFICATION Spec
CONSTANTS
    Hdr = 2
    MaxFrame = 5
    Headroom = 3
    Size = 8
    Frames = 2
    Wants <- MCWants
    MaxLate = 1
INVARIANTS RTypeOK FramesInOrder RightAnswers
PROPERTIES AllHandled
CHECK_DEADLOCK FALSE
