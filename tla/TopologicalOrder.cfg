SPECIFICATION Spec
CONSTANTS
    NodeCount = 4
INVARIANTS
    RespectsEdges
    RejectsExactlyCycles
    LeastOrder
CHECK_DEADLOCK FALSE
