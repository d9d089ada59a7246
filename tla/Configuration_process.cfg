SPECIFICATION Spec
CONSTANTS
    Keys <- MCKeys
    Default <- MCDefault
    Files <- MCFiles
    Paths = {"e1", "e2"}
    NoPath = "none"
    Dict = Dict
    MaxLoads = 3
    MaxMatches = 2
INVARIANTS
    TypeOK
    LastWordCounts
\* The bounds end every behaviour.
CHECK_DEADLOCK FALSE
