SPECIFICATION FairSpec
CONSTANTS
    Foreign = {t1, t2}
    LoopThread = loop
    Functors = {f1, f2, f3}
    Channels = {c1}
    WakeupChannel = wakeup
    InitEventListSize = 1
    None = none
INVARIANTS
    TypeOK
    NoLostWakeup
PROPERTIES
    QueueIsFIFO
    QueueIsFair
    PromptService
