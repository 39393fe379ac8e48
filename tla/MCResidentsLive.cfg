SPECIFICATION Spec
CONSTANTS
    MaxDay = 1
    MaxRow = 2
    MaxLane = 3
    MaxBacklog = 2
    MaxFaults = 1
    Requests = {"direct", "quiet", "toggle", "reconfigure", "restart", "delete"}
INVARIANTS
    WakeScheduled
    GoneIsStopped

    
    
CHECK_DEADLOCK FALSE
