SPECIFICATION FairSpec
CONSTANTS
    Classes = {"thread", "rtthread"}
    MaxCalls = 4
    m_priority = 1
    Limits = {0, 1, 2}
    MaxOthers = 2
CHECK_DEADLOCK FALSE
INVARIANTS
    HeldUntilResumed
    CpuKnown
    NoUseAfterFree
    JoinedOnce
    PriorityRaised
PROPERTIES
    HeldRunsDerived
    ResumeStarts
    TerminateReturns
