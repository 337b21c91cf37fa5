SPECIFICATION Spec
CONSTANTS
    consumer = consumer
    publisher = publisher
    p = p
    u = u
    v = v
    Clients = {consumer}
    Users = {u}
    Patterns = {p}
    UserOf <- SameUser
    Wants <- ConsumerWants
    Buffered = {consumer}
    NoUser = nouser
    NoClient = noclient
    Restarts = FALSE
    MaxChan <- MCMaxChan
INVARIANTS KickReleases
CHECK_DEADLOCK TRUE
