SPECIFICATION Spec
CONSTANTS
    r1 = r1
    Tasks <- OneTask
    HistoryLimit = 2
    MaxRuns = 1
    MaxUserRuns = 0
PROPERTIES
    RunEndClears
