SPECIFICATION Spec
CONSTANTS
    Words = {w1, w2}
    QINSize = 2
    CounterMod = 2
    InOrder = FALSE
    MaxFrames = 2
    MaxSends = 3
SYMMETRY WordSymmetry
INVARIANTS
    TypeOK
    OutputStaleOneLap
PROPERTIES
    
    ImplementsFrameExchange
