SPECIFICATION FairSpec
CONSTANTS
    Runs = {1}
    Callers = {api}
    NodeCount = 4
    Slow = {1, 4}
    Timed = {4}
    Approval = {3}
    Conditional = {2}
    MaxAttempts = 2
    Absent = Absent
    None = None
    Faults = TRUE
    Rejects = TRUE
    Deletes = TRUE
    MaxFailures = 1
    MaxCrashes = 1
INVARIANTS
    TypeOK
    InProgressIsLive
    CanceledStays
    
PROPERTIES
    EndedStays
    PausedBeginsNoNode
    RunEnds
CHECK_DEADLOCK FALSE
