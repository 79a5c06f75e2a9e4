SPECIFICATION FairSpec
CONSTANTS
    Attempts <- Three
    Keys <- ThreeKeys
    DeviceKey = "k"
    MaxConn = 2
INVARIANTS TypeOK Authenticated NoLeak FailsForCause
PROPERTIES CallReturns SlotFreed
CHECK_DEADLOCK FALSE
