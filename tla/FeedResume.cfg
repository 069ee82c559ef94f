SPECIFICATION FeedSpec
CONSTANTS
    Arrivals = {11, 12}
    Peers = {12}
    PageLimit = 2
    MaxLedger = 3
    MaxLosses = 1
INVARIANTS NoGapOrRepeat
CHECK_DEADLOCK FALSE
