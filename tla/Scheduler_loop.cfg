SPECIFICATION FairSpec
CONSTANTS
    JobList <- MCJobs
    interval <- MCIntervals
    Never = Never
    MaxTriggers = 1
    MaxTime = 3
INVARIANTS
    TypeOK
    SingleFlight
    CreatedTasksAreDue
PROPERTIES
    StopEndsStart
    EveryJobGetsItsTurn
\* When start() has returned and the tasks are cancelled, the program ends.
CHECK_DEADLOCK FALSE
