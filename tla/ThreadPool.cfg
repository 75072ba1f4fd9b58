SPECIFICATION FairSpec
CONSTANTS
    Workers = {w1, w2}
    Producers = {p1}
    Tasks = {f1, f2, f3, f4, f5}
    QueueSizes = {0, 1}
    NoTask = none
CHECK_DEADLOCK FALSE
INVARIANTS
    SomebodyAwake
    TakenInOrder
PROPERTIES
    StopTerminates
    TasksAreTaken
