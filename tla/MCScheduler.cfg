SPECIFICATION FairSpec
CONSTANTS
    Components = {"a"}
    Keys <- TwoKeys
    Parallel <- OneParallel
    Timers <- FourTimers
    MaxItems = 3
    MaxCalls = 3
    MaxTime = 1
    loop_interval = 1
    MAX_LOGICALLY_DELETED_ITEMS = 1
    OtherThread = TRUE
INVARIANTS TypeOK CountersHideNothing OneTimerPerKey RunningItemStays
PROPERTIES PassEnds TimersRun
