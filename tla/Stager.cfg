\* Stage around a dump whose group may write two blocks, then Open and Remove,
\* while somebody else changes the directory twice.
SPECIFICATION StagerSpec
CONSTANTS
    Blocks = 2
    MaxEdits = 2
INVARIANTS
    ArtifactIsWholeDump
    ErrorTellsTruth
    NoGroupAfterFailure
    OpenedIsStaged
    RemovedIsGone
PROPERTIES
    RemoveSparesOthers
    StageReturns
CHECK_DEADLOCK FALSE
