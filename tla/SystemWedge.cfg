\* One command alone with its log, and one call of the log that fails.
SPECIFICATION SystemSpec
CONSTANTS
    Names = {1, 2}
    NoJob = NoJob
    Procs = {main}
    Free = Free
    Main = main
    MaxSize = 2
    Long = {2, 5}
    MaxFiles = 1
    AgeLimit = FALSE
    Compress = TRUE
    EntryBudget = 6
    MaxWrites = 9
    OtherWrites = 0
    MaxFaults = 0
    MaxMishaps = 1
INVARIANTS
    FailuresContained
