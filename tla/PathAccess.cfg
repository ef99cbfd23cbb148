\* Up to two accounts among root and two users, with two groups.
SPECIFICATION Spec
CONSTANTS
    Uids = {0, 1, 2}
    Gids = {10, 20}
    Missing = Missing
    Triads = {{}, {"r", "x"}, {"w", "x"}, {"r", "w", "x"}}
INVARIANTS
    AccountsInterwork
    StagingServes
    SecretServes
CHECK_DEADLOCK FALSE
