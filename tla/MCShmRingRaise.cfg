SPECIFICATION Spec
CONSTANTS
    Cap = 9
    Hdr = 2
    Lengths = {1, 2, 4}
    MaxItems = 2
    MaxFrames = 6
INVARIANTS NeverRaises
CHECK_DEADLOCK TRUE
