\* A deletion while a flush is under way.
SPECIFICATION Spec
CONSTANTS
    ip1 = ip1
    IPs <- One
    MaxRecords = 0
    Spare = 1
    MaxLines = 1
    Stored = 2
    LastTotals = {1, 3}
    MaxDeletes = 1
    MaxStarts = 1
    MaxEventKinds = 1
    WithCollector = FALSE
INVARIANT DeletionIsFinal
CHECK_DEADLOCK FALSE
