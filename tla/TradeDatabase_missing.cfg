SPECIFICATION Spec
CONSTANTS
    Importers = {i1, i2}
    Matchers = {m1}
    Files <- MCFiles
    kind <- MCKind
    content <- MCContent
    Ids = {"t1", "t2", "c1", "CFM_t1", "CFM_t2", "FIX_0", "FIX_1", "FIX_2", "FIX_3"}
    Venues = {"v1"}
    Quantities = {10, 12}
    Prices = {5, 7}
    NoId = ""
    CFM_ <- MCCfm
    FIX_ <- MCFix
    price_tolerance = 1
    qty_tolerance = 1
    Nobody = Nobody
PROPERTY MissingInternalIsUnknown
\* Every process makes one call.
CHECK_DEADLOCK FALSE
