SPECIFICATION OnceSpec
CONSTANTS
    Runs = {1}
    Callers = {}
    NodeCount = 1
    Slow = {1}
    Timed = {}
    Approval = {}
    Conditional = {}
    MaxAttempts = 1
    Absent = Absent
    None = None
    Faults = FALSE
    Rejects = FALSE
    Deletes = FALSE
    MaxFailures = 0
    MaxCrashes = 0
INVARIANTS
    TriggeredRunsHappen
CHECK_DEADLOCK FALSE
