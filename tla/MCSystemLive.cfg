SPECIFICATION FairSpec
CONSTANTS
    Entities <- TwoEntities
    MaxQueue = 2
    MAX_ENTITIES = 8
    WAIT_STEPS = 1
    Timeouts = {50}
    Before <- ShortOrder
    Times <- ListAndSubscribe
    MaxSessions = 1
    Faults = FALSE
    MaxBatch = 2
    BatchDelay = 0
    Readings = {1004}
    Start <- Cold
    MaxChanges = 1
    MaxPings = 1
    Names <- HouseNames
    Reliable = TRUE
PROPERTIES PingAnswered ListCompletes CacheCatchesUp
CHECK_DEADLOCK FALSE
