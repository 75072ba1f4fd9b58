SPECIFICATION FairSpec
CONSTANTS
    Foreign = {t1}
    Messages = {m1, m2}
    MsgLen = 3
    Files = {f1, f2}
    FileLen = 2
    SndBuf = 2
    MaxSends = 2
CHECK_DEADLOCK FALSE
INVARIANTS
    WirePrefix
    WritingIffPending
    HalfCloseIsClean
    ConfinedIsSafe
PROPERTIES
    OutputDrains
