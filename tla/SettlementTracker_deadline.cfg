SPECIFICATION STSpec
CONSTANTS
    TradeIds = {t1, t2}
    MaxTime = 3
INVARIANT UnsettledIsFlagged
