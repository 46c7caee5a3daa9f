SPECIFICATION Spec
CONSTANTS
    Modes <- MCModes
    Qs = {0, 1, 2, 3, 4, 5}
INVARIANTS
    RoundTrip
    ResizedRefused
    OtherModeRefused
    AcceptedIndexInTree
\* parsed bytes are the end of the behaviour
CHECK_DEADLOCK FALSE
