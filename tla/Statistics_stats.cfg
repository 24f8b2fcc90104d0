SPECIFICATION Spec
CONSTANTS
    Orders = {TRUE, FALSE}
    Boot = 9
    Times <- MCTimes
    MaxCycles = 4
INVARIANTS
    StatisticsCorrect
    LineCurrent
    LineConsistent
    RuntimeNotOlder
