SPECIFICATION FairSpec
CONSTANTS
    SlowPolls = {p1}
    Sockets = {s1, s2}
    MaxPool = 2
    MaxQueue = 2
INVARIANTS
    TypeOK
PROPERTIES
    StatusNeverGoesBack
    PoolReachesSocket
    StatusReachesPage
CHECK_DEADLOCK FALSE
