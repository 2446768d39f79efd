SPECIFICATION Spec
CONSTANTS
    Schedules = {1, 2}
    Api = {api}
    Workers = {worker}
    Absent = Absent
    Torn = Torn
    None = None
    Lease = 1
    MaxDelay = 1
    Limit = 1
    Cap = 2
    MaxCrashes = 2
    DiskFaults = FALSE
INVARIANTS
    OneRunPerLoad
