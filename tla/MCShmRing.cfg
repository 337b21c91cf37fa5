SPECIFICATION Spec
CONSTANTS
    Cap = 9
    Hdr = 2
    Lengths = {1, 2, 4}
    MaxItems = 2
    MaxFrames = 6
INVARIANTS TypeOK
PROPERTIES Untouched QueueSpec RefusedFitsNowhere
CHECK_DEADLOCK TRUE
