SPECIFICATION FairSpec
CONSTANTS
    Words = {w1, w2}
    QINSize = 2
    CounterMod = 2
    InOrder = TRUE
    MaxFrames = 1
    MaxSends = 2
PROPERTIES
    OutputDelivered
    InputPublished
    ReceiveReturns
