SPECIFICATION Spec
CONSTANTS
    Users = {u1, u2, u3}
    Market = market
    Treasury = treasury
    Resolver = resolver
    Wealth <- MCWealth
    Amounts = {7, 41, 76}
    MIN_STAKE = 40
    PROTOCOL_FEE_BPS = 200
    BPS_DENOMINATOR = 10000
    Deadline = 1
    MaxTime = 1
SYMMETRY UserSymmetry
INVARIANTS
    TypeOK
    EveryClaimPayable
    UserLedger
    MarketLedger
    OnlyDustRemains
    FeeIsShareOfLosingPool
PROPERTY TermsFinal
CHECK_DEADLOCK FALSE
