SPECIFICATION STSpec
CONSTANTS
    TradeIds = {t1, t2}
    MaxTime = 2
INVARIANTS
    STTypeOK
    OnlyTrackingRevives
    FlaggedAreLeftAlone
