\* RunMany called with any selection over two names, configured or not.
SPECIFICATION FairSpec
CONSTANTS
    Names = {1, 2}
    NoJob = NoJob
INVARIANTS
    TypeOK
    SuccessIsDurable
    LoggedBeforeDone
    EverythingReported
PROPERTIES
    KeepsPromise
    LogFailureStopsWork
    CancelStopsWork
    EveryJobDecided
