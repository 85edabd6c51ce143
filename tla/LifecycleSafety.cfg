SPECIFICATION Spec
CONSTANTS
    DeployRunners = {d1}
    LockRunners = {l1}
    ResolveRunners = {s1}
    PollRunners = {p1, p2}
    NoRunner = none
    Sources = {"CHAINLINK_PRICE", "CHAINLINK_EVENT", "MANUAL"}
    Answers = {"YES", "NO"}
    Faults = {"rpc", "receipt", "db", "crash", "stall", "skew", "short", "outsider"}
    MaxFaults = 2
    MaxTxs = 6
    ATTEMPTS = 3
    MAX_STALLED = 1
SYMMETRY RunnerSymmetry
INVARIANTS
    TypeOK
    DbFollowsChain
    NothingSettlesEarly
    PaperTrail
    CompletedJobsDidTheirWork
    HandOversAreMade
PROPERTIES
    SettledOnce
    ImplementsMarketLife
CHECK_DEADLOCK FALSE
