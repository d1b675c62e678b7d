\* Three seconds, two backups kept, three versions, every exception.
SPECIFICATION Spec
CONSTANTS
    Keep = 2
    ListAge = 1
    LastSecond = 4
    MaxVersions = 3
    Exceptions <- AllExceptions
    MaxExceptions = 1
INVARIANTS
    TypeOK
    CacheIsFile
    ReplacedIsSaved
PROPERTIES
    RollsBackToNewest
