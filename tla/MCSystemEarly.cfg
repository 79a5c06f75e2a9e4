SPECIFICATION Spec
CONSTANTS
    Entities <- ButtonEntities
    MaxQueue = 8
    MAX_ENTITIES = 8
    WAIT_STEPS = 1
    Timeouts = {50}
    Before <- ShortOrder
    Times <- ListAndSubscribe
    MaxSessions = 1
    Faults = FALSE
    MaxBatch = 4
    BatchDelay = 100
    Readings = {1004}
    Start <- Pressed
    MaxChanges = 1
    MaxPings = 0
    Names <- HouseNames
    Reliable = TRUE
INVARIANTS TableIsCurrent
CHECK_DEADLOCK FALSE
