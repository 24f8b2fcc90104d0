SPECIFICATION FairSpec
CONSTANT MaxFrames = 3
INVARIANTS
    TypeOK
    CyclesOnlyWhenArmed
    TimeoutOnlyAfterSkip
PROPERTIES
    ImplementsLan9252
    FrameServed
    StartUpEnds
