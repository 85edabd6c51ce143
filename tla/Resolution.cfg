SPECIFICATION FairSpec
CONSTANTS
    SCALE = 3
    SIG = 4
    Sources = {"CHAINLINK_PRICE", "CHAINLINK_EVENT", "AI_WEB_SEARCH", "MANUAL"}
    Operators = {"gt", "gte", "lt", "lte", "eq", "neq"}
    Thresholds <- MCThresholds
    RawAnswers <- MCRawAnswers
    FeedDecimals = {1, 3}
    STALE = 1
    MaxTime = 4
INVARIANTS
    TypeOK
    VerdictMatchesPrice
    PriceIsOfTheDeadline
PROPERTIES
    PredictionsConclude
CHECK_DEADLOCK FALSE
