SPECIFICATION LowMemorySpec
CONSTANTS
    Threads <- BothThreads
    Queues <- BothQueues
    SIZE <- Sizes
    Elements <- Pool
    nullptr = nullptr
    PoolSize = 3
    Messages = 5
INVARIANTS FillsOnlyFree
