SPECIFICATION Spec
CONSTANTS
    consumer = consumer
    publisher = publisher
    p = p
    u = u
    v = v
    Clients = {publisher}
    Users = {u, v}
    Patterns = {p}
    UserOf <- SameUser
    Wants <- NoWants
    Buffered = {publisher}
    NoUser = nouser
    NoClient = noclient
    Restarts = FALSE
    MaxChan <- MCMaxChan
INVARIANTS HolderIsOnline
CHECK_DEADLOCK TRUE
