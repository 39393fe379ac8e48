SPECIFICATION Spec
CONSTANTS
    t1 = t1
    t2 = t2
    k1 = k1
    NoTick = NoTick
    Tickets <- OneTicket
    Mode <- AllWorktree
    Columns = {"backlog", "doing", "review", "done"}
    FirstColumn = "backlog"
    DispatchColumn = "doing"
    TerminalColumns = {"done"}
    GatedColumns = {"review"}
    ColumnLimit <- NoLimits
    MaxConcurrent = 1
    WipLimit = 1
    Ticks <- OneTick
    Requests = {"start", "stop", "ensure", "finalize"}
    MaxWorktrees = 1
    MaxQueue = 2
    MaxGoalReqs = 1
INVARIANTS
    TypeOK
    
PROPERTIES
    StartTakesEffect
    NoRevival
    EntryLeavesInactive
