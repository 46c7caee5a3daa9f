SPECIFICATION Spec
CONSTANTS
    KCalls <- MCKCalls
    DsaCalls <- MCDsaCalls
    HLEN = 2
    Blocks <- MCBlocks
    MaxCalls = 2
    MaxTries = 1
    None = None
INVARIANTS
    NoncesUnshared
PROPERTY
    FollowsRfc
CHECK_DEADLOCK FALSE
