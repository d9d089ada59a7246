SPECIFICATION Spec
CONSTANTS
    TradeIds = {"t1", "t2", "t3", "t4"}
    Symbols = {"A", "B"}
    Quantities = {10, 12, 13}
    Prices = {5, 6, 7}
    NoId = ""
    price_tolerance = 1
    qty_tolerance = 1
    auto_resolve = TRUE
    Batches <- MCBatches
    MaxCalls = 2
INVARIANTS
    TypeOK
    ReportIsComplete
    MatchedIsSound
    FuzzyLeavesClaimedAlone
    AutoResolvedCount
\* The program may stop when the last call has returned.
CHECK_DEADLOCK FALSE
