SPECIFICATION FairSpec
CONSTANTS
    r1 = r1
    Tasks <- OneTask
    HistoryLimit = 2
    MaxRuns = 2
    MaxUserRuns = 1
INVARIANTS
    TypeOK
    UnfinishedRowIsCurrent
PROPERTIES
    FinishedRowsStay
    KeepsPromise
    DueHandled
