SPECIFICATION FairSpec
CONSTANTS
    DeployRunners = {d1}
    LockRunners = {l1}
    ResolveRunners = {s1}
    PollRunners = {p1}
    NoRunner = none
    Sources = {"CHAINLINK_PRICE"}
    Answers = {"YES", "NO", "VOID"}
    Faults = {"rpc"}
    MaxFaults = 2
    MaxTxs = 6
    ATTEMPTS = 3
    MAX_STALLED = 1
PROPERTIES
    PendingMarketOpens
    OverdueMarketLocks
    LockedMarketResolves
CHECK_DEADLOCK FALSE
