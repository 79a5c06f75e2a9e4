SPECIFICATION FairSpec
CONSTANTS
    Lens <- FourLens
    Start <- FourStarts
    MAX_LEN = 3
INVARIANTS TypeOK NothingLost InOrder
PROPERTIES AllDelivered
CHECK_DEADLOCK FALSE
