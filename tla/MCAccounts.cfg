SPECIFICATION Spec
CONSTANTS
    Users = {admin, u1}
    Passwords = {p1, p2}
    Admin = admin
    Commands = {c1, c2}
    Handlers = {data}
    AllowAuto = TRUE
    MaxCommands = 2
    MaxReloads = 1
    MaxStarts = 2
SYMMETRY Symmetry
INVARIANTS ChangesKept GrantedAsLoaded
CHECK_DEADLOCK FALSE
