SPECIFICATION HeapSpec
CONSTANTS
    Keys = {1, 2, 3, 4, 5, 6}
    InitSize = 2
CHECK_DEADLOCK FALSE
INVARIANTS
    OrderKept
    ContentsKept
