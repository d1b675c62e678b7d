\* Midnight alone: no restart, no overlap.
SPECIFICATION Spec
CONSTANTS
    Users = {alice}
    Fetches = {f1, f2}
    LastDay = 2
    MaxMoved = 3
    MaxEventKinds = 0
    SaveEvery = 2
    KeepDays = 1
INVARIANT TodayOnly
