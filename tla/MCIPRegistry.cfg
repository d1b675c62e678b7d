\* One address, a log line, one new byte beside two or none in the table, one deletion,
\* one exceptional event.
SPECIFICATION Spec
CONSTANTS
    ip1 = ip1
    IPs <- One
    MaxRecords = 0
    Spare = 1
    MaxLines = 1
    Stored = 2
    LastTotals = {1, 3}
    MaxDeletes = 1
    MaxStarts = 1
    MaxEventKinds = 1
    WithCollector = TRUE
INVARIANTS
    TypeOK
    SniConserved
    BytesNotInvented
PROPERTIES
    TotalsOnlyGrow
CHECK_DEADLOCK FALSE
