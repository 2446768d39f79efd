SPECIFICATION Spec
CONSTANTS
    MaxApprovals = 2
    Callers = {c1, c2}
    Absent = Absent
    Torn = Torn
    None = None
    Cap = 1
\* a file that does not parse stops the process for good
CHECK_DEADLOCK FALSE
INVARIANTS
    NewestKept
PROPERTIES
    MarkedIsSpent
    RejectedNeverStarts
