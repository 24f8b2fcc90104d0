SPECIFICATION Spec
CONSTANTS
    Words = {w1, w2}
    QINSize = 2
    CounterMod = 4
    InOrder = TRUE
    MaxFrames = 1
    MaxSends = 1
INVARIANT ReceivedFrameIntact
