SPECIFICATION Spec
CONSTANTS
    NoText = ""
    Assignees = {"alice"}
    Resolutions = {"corrected", ""}
    MatchResults = {"PriceMismatch"}
    DayTicks = 1
    ClockModulus = 16
    Instants = {0, 1, 2, 4, 8}
    MaxExceptions = 2
INVARIANTS
    TypeOK
    IdsArePositions
    ResolutionOnlyWhenResolved
    AverageWithinHistory
PROPERTIES
    ExceptionsOnlyAge
    LifecycleSpec
