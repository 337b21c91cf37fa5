SPECIFICATION MonitorSpec
CONSTANTS
    Monitored = {t1, t2}
    Clients = {c1}
    RulesOn = {"drops_burst", "gap_burst", "buffer_backlog", "credit_starved", "client_kicked"}
    Cooldown = 2
    DropLimit = 1
    GapLimit = 1
    StarvedLimit = 1
    Minute = 2
    Retained = 1
    MaxDelay = 2
    MaxEvents = 2
    MaxRolls = 2
INVARIANTS EachCountedOnce
PROPERTIES BacklogAlerts
CHECK_DEADLOCK FALSE
