\* Two users, two days, one transfer size per user and direction.
SPECIFICATION Spec
CONSTANTS
    alice = alice
    bob = bob
    Users <- MCUsers
    Moves <- MCMoves
    LastDay = 2
    MaxDayBytes = 2
    MaxFaultKinds = 1
    RestartFloor = 0
    SaveEvery = 2
    KeepDays = 1
INVARIANTS
    TypeOK
    NoOvercount
PROPERTIES
    ImplementsLedger
