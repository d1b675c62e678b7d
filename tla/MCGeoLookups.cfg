\* Either monitor with two addresses, one of them on the screen; both semaphores have one
\* place fewer than there may be fetches, and each cache has room for one address.  Every permit
\* may be lost.
SPECIFICATION Spec
CONSTANTS
    Addresses = {"a", "b"}
    Drawn = {"a"}
    CacheMax = 1
    GoCacheMax = 1
    MaxConcurrent = 2
    Threads = {1, 2, 3}
    MaxLost = 2
    MaxQueue = 4
INVARIANTS
    TypeOK
    PermitsConserved
    OneFetch
    Evictable
    BoundedUntilDrift
    MarkHasFetch
PROPERTIES
    Located
    MarksEnd
