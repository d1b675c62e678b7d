\* Quitting during an update; 30 seconds are enough for all that an update does itself.
SPECIFICATION FairSpec
CONSTANTS
    Commands = {c1}
    Updates = {u1}
    Workers = 2
    Patient = TRUE
INVARIANT QuitKeepsService
CHECK_DEADLOCK FALSE
