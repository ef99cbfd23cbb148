\* Two processes, two kept generations of two units, gzip and an age limit.
SPECIFICATION Spec
CONSTANTS
    Procs = {p1, p2}
    Free = Free
    MaxSize = 2
    Long = {3, 5}
    MaxFiles = 2
    AgeLimit = TRUE
    Compress = TRUE
    EntryBudget = 4
    MaxWrites = 3
    MaxMishaps = 2
INVARIANTS
    AckedEventsKept
    HistoryInOrder
PROPERTIES
    SuccessLeavesGoodHistory
