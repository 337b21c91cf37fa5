SPECIFICATION Spec
CONSTANTS
    small = small
    huge = huge
    Topics = {small, huge}
    Size <- MCSize
    Policies = {"drop_old", "conflate"}
    MaxMessages = 2
    MaxBytes = 3
    DrainBudget = 2
    Credits = {2}
    Pipe = 1
    MaxFrames <- MCMaxFrames
INVARIANTS CreditSpentOnce
CHECK_DEADLOCK TRUE
