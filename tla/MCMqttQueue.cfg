SPECIFICATION FairSpec
CONSTANTS
    Threads <- BothThreads
    Queues <- BothQueues
    SIZE <- Sizes
    Elements <- Pool
    nullptr = nullptr
    PoolSize = 3
    Messages = 4
INVARIANTS TypeOK OneHolder PushSucceeds
PROPERTIES ImplementsFifo
