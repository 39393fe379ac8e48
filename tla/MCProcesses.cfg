SPECIFICATION Spec
CONSTANTS
    t1 = t1
    t2 = t2
    f1 = f1
    f2 = f2
    p1 = p1
    p2 = p2
    Shared = Shared
    None = None
    Failed = Failed
    Tabs = {t1, t2}
    Folders = {f1}
    Profiles = {p1, p2}
    Credentialed = {}
    MaxHosts = 2
    MaxWs = 3
    MaxOps = 2
    MaxFaults = 1
    Requests = {"start", "stop", "switch"}
    Calm = TRUE
INVARIANTS
    TypeOK
    HostOwned
    
    
    
PROPERTIES
    SharedSurvives
SYMMETRY Symmetry
CHECK_DEADLOCK FALSE
