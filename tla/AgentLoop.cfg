SPECIFICATION FairSpec
CONSTANTS
    Tools = {read, write, other}
    ReadFile = read
    Reading = {read}
    Mutating = {write}
    Verified = {write}
    Guarded = {write}
    Desktop = {other}
    Browser = {}
    Unwatched = {other}
    Occasions = {"approval", "browser session"}
    None = None
    Subtasks = 3
    Edit = 2
    CodeChange = TRUE
    Budgets = {1}
    MaxIterations = 5
    PlanLength = 1
    NewSteps = 1
    MaxRuns = 2
\* a run ends
CHECK_DEADLOCK FALSE
INVARIANTS
    SubtasksInOrder
    NoStepIsLost
PROPERTIES
    RunEnds
