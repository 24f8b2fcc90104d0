SPECIFICATION FairSpec
CONSTANTS
    MsNs = 4
    UsNs = 2
    JiffyUs = 3
    ULongMod = 64
    LLongMod = 64
    UIntMod = 5
    Timeouts = {0, 1, 3, 4}
    MaxTime = 20
    MaxUps = 2
    MaxStolen = 3
CHECK_DEADLOCK FALSE
INVARIANTS
    TypeOK
    WaitsMinimum
    WaitsMaximum
    
PROPERTY CallReturns
