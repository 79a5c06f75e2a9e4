SPECIFICATION Spec
CONSTANTS
    Entities <- ThreeEntities
    MaxQueue = 2
    MAX_ENTITIES = 8
    WAIT_STEPS = 5
    Timeouts = {50}
    Before <- ReadmeOrder
    Times <- NoPing
    MaxSessions = 1
    Faults = FALSE
    MaxBatch = 2
    BatchDelay = 100
    Readings = {1004}
    Start <- ColdThree
    MaxChanges = 1
    MaxPings = 1
    Names <- HouseNames
    Reliable = TRUE
INVARIANTS TypeOK DoneMeansListed CacheConverges
CHECK_DEADLOCK FALSE
