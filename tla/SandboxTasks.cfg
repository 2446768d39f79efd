SPECIFICATION FairSpec
CONSTANTS
    MaxTasks = 2
    Priorities = {1, 3}
    MaxSize = 1
    MaxRetries = 2
    MaxStops = 1
    None = None
INVARIANTS
    AcceptedIsKept
PROPERTIES
    ImplementsService
    QueuedEnds
\* The worker may be off and every bound used up.
CHECK_DEADLOCK FALSE
