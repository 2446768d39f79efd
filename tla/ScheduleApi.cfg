SPECIFICATION Spec
CONSTANTS
    Schedules = {1, 2, 3}
    Api = {api}
    Workers = {}
    Absent = Absent
    Torn = Torn
    None = None
    Lease = 1
    MaxDelay = 1
    Limit = 1
    Cap = 2
    MaxCrashes = 2
    DiskFaults = TRUE
INVARIANTS
    OneRunPerCut
    RanIsRecorded
    TriggeredRan
    ConfirmedKept
PROPERTIES
    LeaseExclusion
    WithdrawnNeverRuns
