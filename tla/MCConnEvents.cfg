\* One user with two addresses; each user is tracked independently of the others.
SPECIFICATION Spec
CONSTANTS
    Users = {"alice"}
    Addresses = {"a", "b"}
INVARIANTS
    TypeOK
    OnlineHasConnect
    LeftIsReported
PROPERTIES
    Reconnects
