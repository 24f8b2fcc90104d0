SPECIFICATION FairSpec
CONSTANTS
    Files = {f1, f2}
    NoFile = NoFile
    MaxIrqs = 2
CHECK_DEADLOCK FALSE
INVARIANTS
    TypeOK
    OpenOwnsDevice
    HandlerContextAlive
    PinNotLeaked
PROPERTY InterruptWakesWaiter
