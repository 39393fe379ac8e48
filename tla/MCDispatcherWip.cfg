SPECIFICATION Spec
CONSTANTS
    t1 = t1
    t2 = t2
    k1 = k1
    NoTick = NoTick
    Tickets <- TwoTickets
    Mode <- AllDefault
    Columns = {"backlog", "doing", "done"}
    FirstColumn = "backlog"
    DispatchColumn = "doing"
    TerminalColumns = {"done"}
    GatedColumns = {}
    ColumnLimit <- NoLimits
    MaxConcurrent = 2
    WipLimit = 1
    Ticks <- OneTick
    Requests = {"stop"}
    MaxWorktrees = 0
    MaxQueue = 2
    MaxGoalReqs = 1
INVARIANTS
    WipPaced
SYMMETRY TicketSymmetry
