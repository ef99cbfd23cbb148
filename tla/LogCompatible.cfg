\* The same accounts and directories, against the words of the design.
SPECIFICATION Spec
CONSTANTS
    Uids = {0, 1, 2}
    Gids = {10, 20}
    Missing = Missing
    Triads = {{}, {"r", "x"}, {"w", "x"}, {"r", "w", "x"}}
INVARIANTS
    ValidatedMeansCompatible
CHECK_DEADLOCK FALSE
