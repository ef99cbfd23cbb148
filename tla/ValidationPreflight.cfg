\* Two configured jobs and an unknown name, at most two wrong checks.
SPECIFICATION Spec
CONSTANTS
    Jobs = {1, 2}
    Unknown = 3
    MaxFaults = 2
INVARIANTS
    NothingRunsBeforeIdentities
    ProbesHaveTheirPrerequisites
    CleanReportIsComplete
CHECK_DEADLOCK FALSE
