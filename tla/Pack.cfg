SPECIFICATION Spec
CONSTANTS
    Workers <- MCWorkers
    Requests <- MCRequests
    DictBlocks = 1
    MaxInt = 4000
INVARIANTS
    OutputIsDetermined
    BudgetsHold
    ReturnsClean
