\* One user, two overlapping fetches, two days, three bytes, one kind of exceptional event.
SPECIFICATION Spec
CONSTANTS
    Users = {alice}
    Fetches = {f1, f2}
    LastDay = 2
    MaxMoved = 3
    MaxEventKinds = 1
    SaveEvery = 2
    KeepDays = 0
INVARIANTS
    TypeOK
    DailyBounded
    AddressesBounded
PROPERTIES
    ImplementsLedger
