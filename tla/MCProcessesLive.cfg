SPECIFICATION Spec
CONSTANTS
    t1 = t1
    t2 = t2
    f1 = f1
    f2 = f2
    p1 = p1
    p2 = p2
    Shared = Shared
    None = None
    Failed = Failed
    Tabs = {t1}
    Folders = {f1, f2}
    Profiles = {p1}
    Credentialed = {f2}
    MaxHosts = 2
    MaxWs = 2
    MaxOps = 2
    MaxFaults = 1
    Requests = {"start", "stop", "resume"}
    Calm = TRUE
PROPERTIES
    StopReturns
    QuitReturns
CHECK_DEADLOCK FALSE
