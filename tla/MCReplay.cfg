SPECIFICATION Spec
CONSTANTS
    Watched <- TheThird
    Lengths <- Lengths31
    MaxDrops = 1
    MaxLost = 1
    MaxTimeouts = 0
    InOrder = TRUE
    LosesFirst = FALSE
    Calm = TRUE
INVARIANTS
    TypeOK
    AppliedInOrder
    
    HoldReady
