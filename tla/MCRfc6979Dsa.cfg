SPECIFICATION Spec
CONSTANTS
    KCalls = {}
    DsaCalls <- MCDsaShortKey
    HLEN = 2
    Blocks <- MCBlocks
    MaxCalls = 1
    MaxTries = 1
    None = None
PROPERTY
    FollowsRfc
CHECK_DEADLOCK FALSE
