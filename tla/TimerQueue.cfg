SPECIFICATION FairSpec
CONSTANTS
    Addrs = {1, 2}
    Delays = {0, 2}
    Intervals = {0, 1}
    MaxTimers = 3
    MaxTime = 2
CHECK_DEADLOCK FALSE
INVARIANTS
    TimerfdArmed
    TimersOwned
PROPERTIES
    RunsAreLegal
    TimersFire
