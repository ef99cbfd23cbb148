\* An administrator who acts up to four times on two files.
SPECIFICATION Spec
CONSTANTS
    Paths = {a, b}
    Inodes = {i1, i2, i3, i4}
    None = None
    Sizes = {1, 2}
    MaxEdits = 4
SYMMETRY Interchangeable
INVARIANTS
    PinnedWasNamed
    PinnedIsExecuted
PROPERTIES
    ReadIsOneVersion
    RecheckedIsCurrent
