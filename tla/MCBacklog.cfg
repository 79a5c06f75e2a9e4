SPECIFICATION FairSpec
CONSTANTS
    API_MAX_SEND_QUEUE = 2
    MAX_MESSAGES_PER_BATCH = 3
    FrameSize = 3
    Items = 4
    Logs = 2
INVARIANTS TypeOK StreamInOrder NeverFull OnceEach
PROPERTIES PublishedIsSent
CHECK_DEADLOCK FALSE
