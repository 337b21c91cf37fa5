SPECIFICATION TrafficSpec
CONSTANTS
    Topics = {t1, t2}
    CheckEvery = 2
    Retention = 1
    BatchSize = 2
    MaxRecords = 3
    MaxMinutes = 2
    MaxRuns = 2
INVARIANTS CountedOnce NothingLeftBehind
PROPERTIES RowsKept
CHECK_DEADLOCK FALSE
