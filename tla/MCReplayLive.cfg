SPECIFICATION Spec
CONSTANTS
    Watched <- TheSecond
    Lengths <- Lengths2
    MaxDrops = 1
    MaxLost = 0
    MaxTimeouts = 1
    InOrder = TRUE
    LosesFirst = FALSE
    Calm = TRUE
PROPERTIES
    CaughtUp
    
