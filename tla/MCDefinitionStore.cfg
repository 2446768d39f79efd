SPECIFICATION FairSpec
CONSTANTS
    Writers = {w1, w2}
    Workflows = {chat}
    Names = {n1, n2}
    Graphs = {g1, g2}
    Absent = Absent
    Free = Free
    MaxVersion = 3
INVARIANTS
    AckedIsDurable
    QuiescentOnDisk
    FileIsASnapshot
PROPERTIES
    ImplementsDurable
    EveryPersistEnds
