SPECIFICATION Spec
CONSTANTS
    DeployRunners = {d1}
    LockRunners = {l1}
    ResolveRunners = {s1}
    PollRunners = {p1}
    NoRunner = none
    Sources = {"MANUAL"}
    Answers = {"YES", "NO", "VOID"}
    Faults = {}
    MaxFaults = 0
    MaxTxs = 4
    ATTEMPTS = 3
    MAX_STALLED = 1
INVARIANTS
    ManualAwaitsAdmin
CHECK_DEADLOCK FALSE
