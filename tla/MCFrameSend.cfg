SPECIFICATION FairSpec
CONSTANTS
    Lens <- FourLens
    MAX_LEN = 3
INVARIANTS TypeOK FailedIsFinal
PROPERTIES SentIsDelivered
CHECK_DEADLOCK FALSE
