\* Two processes, and an administrator who may edit the directory once.
SPECIFICATION FairSpec
CONSTANTS
    Procs = {p1, p2}
    Free = Free
    None = None
    Foreign = Foreign
    Inodes = {1, 2, 3}
    MaxEdits = 1
INVARIANTS
    RefusedOnlyForForeignFile
PROPERTIES
    Exclusive
    RemoveWaitsForInstall
    ForeignFileSurvives
    KeepsPromise
    CallsReturn
