SPECIFICATION Spec
CONSTANTS
    Parts <- MCParts
    Ids = {i1, i2}
    Names <- MCNames
    Topics <- MCNames
    Patterns <- MCPatterns
    Threads = {main, data}
    Writers = {main}
    NoThread = none
    MaxWrites = 2
INVARIANTS TypeOK IndexConsistent
PROPERTIES FreshMatch MonotonicMatch ServiceSpec
CHECK_DEADLOCK TRUE
