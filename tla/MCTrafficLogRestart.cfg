\* Restart detection against its comment: totals recorded before an Xray restart.
SPECIFICATION Spec
CONSTANTS
    alice = alice
    bob = bob
    Users <- MCUsers
    Moves <- MCMoves
    LastDay = 2
    MaxDayBytes = 2
    MaxFaultKinds = 1
    RestartFloor = 1
    SaveEvery = 2
    KeepDays = 1
PROPERTY RestartKeepsTotals
