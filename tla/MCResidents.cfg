SPECIFICATION Spec
CONSTANTS
    MaxDay = 2
    MaxRow = 0
    MaxLane = 2
    MaxBacklog = 1
    MaxFaults = 1
    Requests = {"wake", "talk", "open", "delete", "restart", "midnight"}
INVARIANTS
    TypeOK
    MarkedBeatDelivered
    ThinkingIsWatched
CHECK_DEADLOCK FALSE
