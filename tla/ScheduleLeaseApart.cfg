SPECIFICATION Spec
CONSTANTS
    Schedules = {1, 2}
    Api = {api}
    Workers = {worker}
    Absent = Absent
    Torn = Torn
    None = None
    Lease = 2
    MaxDelay = 1
    Limit = 2
    Cap = 2
    MaxCrashes = 1
    DiskFaults = FALSE
PROPERTIES
    LeaseExclusion
