SPECIFICATION Spec
CONSTANTS
    None = None
    Calls = {1}
    Regs = {11, 12}
    Reverses = {21, 22}
    MaxFaults = 2
    MaxRestarts = 1
    Budget = 2
    Remote = TRUE
    InOrder = TRUE
INVARIANTS
    TypeOK
    SentOnce
    OwnAnswer
    SessionFollows
    Accounted
    
CHECK_DEADLOCK FALSE
