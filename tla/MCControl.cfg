SPECIFICATION Spec
CONSTANTS
    consumer = consumer
    publisher = publisher
    p = p
    u = u
    v = v
    Clients = {consumer, publisher}
    Users = {u}
    Patterns = {p}
    UserOf <- SameUser
    Wants <- ConsumerWants
    Buffered = {consumer}
    NoUser = nouser
    NoClient = noclient
    Restarts = TRUE
    MaxChan <- MCMaxChan
INVARIANTS TypeOK OwnersAccounted ListedIsRouted BelievesOnline SubscriptionsRouted
CHECK_DEADLOCK TRUE
