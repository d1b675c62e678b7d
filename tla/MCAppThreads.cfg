\* A command, an update, two pool threads.
SPECIFICATION FairSpec
CONSTANTS
    Commands = {c1}
    Updates = {u1}
    Workers = 2
    Patient = FALSE
INVARIANTS
    TypeOK
    ServiceKept
    RecoverableBinary
PROPERTIES
    CommandsFinish
    TicksGoOn
    QuitEnds
CHECK_DEADLOCK FALSE
