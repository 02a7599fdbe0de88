SPECIFICATION FairSpec
CONSTANTS
    t1 = t1
    t2 = t2
    Threads = {t1, t2}
    NameOrder <- MCNames
    Tree <- MCTree
    Workloads <- MCWorkloads
    Bytes = {8}
    Buffer = 2
    MaxDepth = 2
    MaxIds = 3
    MaxHandles = 2
    None = None
INVARIANTS ListingExact
PROPERTIES ReadsOwnUnlessMoved AloneWriteExact CacheSettles
CHECK_DEADLOCK FALSE
