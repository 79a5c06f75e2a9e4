SPECIFICATION Spec
CONSTANTS
    Entities <- OneEntity
    MaxQueue = 2
    MAX_ENTITIES = 8
    WAIT_STEPS = 2
    Timeouts <- AnyTimeout
    Before <- AnyOrder
    Times <- ListTwice
    MaxSessions = 2
    Faults = TRUE
    MaxBatch = 1
    BatchDelay = 0
    Readings = {1004}
    Start <- ColdOne
    MaxChanges = 2
    MaxPings = 0
    Names <- HouseNames
    Reliable = FALSE
PROPERTIES WaitMeansListed ImplementsMirror
CONSTRAINT FewLists
CHECK_DEADLOCK FALSE
