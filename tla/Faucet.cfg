SPECIFICATION Spec
CONSTANTS
    Buttons = {b1, b2}
    Handlers = {h1, h2}
    Addresses = {a1, a2}
    COOLDOWN = 2
    MaxTime = 2
    MaxSends = 4
    MaxLost = 1
SYMMETRY Symmetric
INVARIANTS
    TypeOK
    MintsAreRationed
    MintsAreNotShared
    CooldownIsPaidFor
CHECK_DEADLOCK FALSE
