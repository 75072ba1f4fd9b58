SPECIFICATION FairSpec
CONSTANTS
    ThreadNums = {0, 1, 2}
    MaxConns = 3
    MaxFd = 2
CHECK_DEADLOCK FALSE
INVARIANTS
    NoDanglingPointer
    ConnAssertionsHold
    LoopsAreReady
PROPERTIES
    StartReturns
    ClosedIsFreed
