SPECIFICATION FairSpec
CONSTANTS
    Procs = {p1, p2, p3}
    MaxLost = 2
    MaxPosts = 3
    MaxSignals = 1
INVARIANTS
    MutualExclusion
    ExcessBounded
PROPERTY NoWaitWhileFree
