SPECIFICATION TrafficSpec
CONSTANTS
    Topics = {t1}
    CheckEvery = 2
    Retention = 1
    BatchSize = 2
    MaxRecords = 3
    MaxMinutes = 2
    MaxRuns = 1
INVARIANTS NeverShownTwice
CHECK_DEADLOCK FALSE
