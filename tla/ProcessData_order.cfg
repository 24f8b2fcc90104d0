SPECIFICATION Spec
CONSTANTS
    Words = {w1, w2}
    QINSize = 3
    CounterMod = 4
    InOrder = TRUE
    MaxFrames = 2
    MaxSends = 4
SYMMETRY WordSymmetry
INVARIANTS
    InputTearBounded
    OutputIntact
