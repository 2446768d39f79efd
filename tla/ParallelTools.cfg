SPECIFICATION FairSpec
CONSTANTS
    Batches = {"b1", "b2"}
    Calls = {1, 2, 3, 4}
    BatchOf <- ThreeAndOne
    ToolOf <- TwoTools
    Graphs <- AllGraphs
    Options <- AllOptions
    MaxConcurrent = 2
    Retries = 1
    MaxSize = 1
    TTL = 2
    MaxTime = 2
INVARIANTS
    ReferencesCarry
    FailureStopsLaterLayers
    EndedIsComplete
PROPERTIES
    HitsAreFresh
    BatchEnds
\* Every batch may have ended.
CHECK_DEADLOCK FALSE
