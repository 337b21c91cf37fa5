SPECIFICATION Spec
CONSTANTS
    Publishers = {p1}
    Subscribers = {s1, s2}
    Topics = {t1}
    TokenSpace = 2
    AckHWM = 1
    OutHWM = 1
    PushHWM = 1
    Credits = {0}
    NoOne = noone
    MaxFrames = 3
    MaxEvents = 1
INVARIANTS NumbersIncrease DropsAccounted
PROPERTIES Confirmed KeepsReceiving
CHECK_DEADLOCK FALSE
