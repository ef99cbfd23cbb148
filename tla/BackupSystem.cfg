\* One command with up to two jobs on a log that another command rotates too.
SPECIFICATION SystemSpec
CONSTANTS
    Names = {1, 2}
    NoJob = NoJob
    Procs = {main, other}
    Free = Free
    Main = main
    MaxSize = 2
    Long = {2, 5}
    MaxFiles = 1
    AgeLimit = FALSE
    Compress = TRUE
    EntryBudget = 6
    MaxWrites = 9
    OtherWrites = 1
    MaxFaults = 1
    MaxMishaps = 1
INVARIANTS
    ExitCodeTellsTruth
    ObjectsAreOnRecord
