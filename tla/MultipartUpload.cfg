\* Files of 0 to 10 bytes, parts of 2 or 3 bytes, at most 3 parts.
SPECIFICATION FairSpec
CONSTANTS
    MinPartSize = 2
    MaxPartSize = 3
    MaxPartCount = 3
    Threshold = 2
    ConfiguredSize = 2
    MaxSize = 10
    MaxSessions = 2
INVARIANTS
    ObjectIsWhole
    OutcomeTellsTruth
PROPERTIES
    CancelledUploadReturns
