\* Two logins at a time and the worker on two connections, with fairness.
SPECIFICATION FairSpec
CONSTANTS
    Logins = {l1, l2}
    Limit = 2
    Window = 2
    MaxConns = 2
INVARIANTS
    TypeOK
    BurstBound
PROPERTIES
    BlockEnds
    EveryWaiterServed
    ShutdownEnds
