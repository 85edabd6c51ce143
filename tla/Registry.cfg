SPECIFICATION Spec
CONSTANTS
    Ids = {m1, m2, m3}
    Roles = {r1, r2}
    MAX_UINT = 7
    PageSize = 1
    MaxTxs = 3
    MaxRotations = 1
SYMMETRY Symmetric
INVARIANTS
    TypeOK
    OneContractPerMarket
    RowsNameTheirContract
    PagesAreAPrefix
    ListingMissesNothing
CHECK_DEADLOCK FALSE
