SPECIFICATION Spec
CONSTANTS
    TradeRecords <- MCTradeRecords
    BrokerConfirmations <- MCBrokerConfirmations
    NoId = ""
    price_tolerance = 1
    qty_tolerance = 1
    auto_resolve = TRUE
    MaxExceptions = 6
INVARIANTS
    TypeOK
    StoreHoldsWhatItAccepted
    EveryRowIsAnswered
    ExceptionsAreTheMismatches
    ReportsAddUp
\* The process ends after cmd_match.
CHECK_DEADLOCK FALSE
