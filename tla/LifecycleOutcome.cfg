SPECIFICATION Spec
CONSTANTS
    DeployRunners = {d1}
    LockRunners = {l1}
    ResolveRunners = {s1}
    PollRunners = {p1}
    NoRunner = none
    Sources = {"CHAINLINK_PRICE"}
    Answers = {"YES", "NO", "VOID"}
    Faults = {}
    MaxFaults = 0
    MaxTxs = 4
    ATTEMPTS = 3
    MAX_STALLED = 1
INVARIANTS
    DbOutcomeIsChainOutcome
CHECK_DEADLOCK FALSE
