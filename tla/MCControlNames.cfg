SPECIFICATION Spec
CONSTANTS
    consumer = consumer
    publisher = publisher
    p = p
    u = u
    v = v
    Clients = {consumer, publisher}
    Users = {u, v}
    Patterns = {p}
    UserOf <- SecondUser
    Wants <- NoWants
    Buffered = {consumer}
    NoUser = nouser
    NoClient = noclient
    Restarts = TRUE
    MaxChan <- MCMaxChan
INVARIANTS RegistryAgrees
PROPERTIES StaleNameReleased
CHECK_DEADLOCK TRUE
