SPECIFICATION FairSpec
CONSTANTS
    Putters = {p1, p2, p3}
    Takers = {c1, c2, c3}
    Items = {x1, x2, x3, x4}
    Capacities = {0, 1, 2}
    None = none
CHECK_DEADLOCK FALSE
INVARIANTS
    WakeupsSuffice
    FIFO
PROPERTIES
    ItemsAreDelivered
