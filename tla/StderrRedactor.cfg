\* Every password of at most four bytes and every stderr of at most seven.
SPECIFICATION RedactorSpec
CONSTANTS
    Bytes = {1, 2}
    MaxSecret = 4
    MaxInput = 7
    MaxLimit = 9
INVARIANTS
    MatchesGreedyReplacement
CHECK_DEADLOCK FALSE
