SPECIFICATION Spec
CONSTANTS
    t1 = t1
    t2 = t2
    w1 = w1
    Wallets = {w1}
    Tabs = {t1, t2}
    WalletOf <- OneWallet
    Handlers = {h1, h2}
    Amounts = {1}
    MaxNonces = 2
    MaxStakes = 2
    MaxCopies = 2
SYMMETRY Symmetric
INVARIANTS
    TypeOK
    SomeTabSignsIn
    DoneMeansRecorded
    PoolExactUnlessOverlapped
PROPERTIES
    ImplementsPoolMirror
CHECK_DEADLOCK FALSE
