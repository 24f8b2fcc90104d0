SPECIFICATION Spec
CONSTANTS
    Files = {f1}
    NoFile = NoFile
    MaxIrqs = 2
CHECK_DEADLOCK FALSE
INVARIANT HandlerFindsSemaphore
