SPECIFICATION Spec
CONSTANTS
    t1 = t1
    t2 = t2
    k1 = k1
    Topics = {t1, t2}
    Keys = {k1}
    NoKey = nokey
    Modes = {"none", "field"}
    N = 2
    WorkerOf <- MCWorkerOf
    RingCap = 1
    BatchMax = 2
    ExitPolls = 1
    Initial = {t1}
    MaxFrames = 3
    MaxOps = 1
    MaxFaults = 1
INVARIANTS CachedIsServed
CHECK_DEADLOCK FALSE
