SPECIFICATION Spec
CONSTANTS
    o1 = o1
    o2 = o2
    Keys <- MCKeys
    Mode <- MCMode
    Ids = {"I"}
    Seeds = {"s1", "s2"}
    Randomizers = {"c1"}
    Messages = {"m1", "m2"}
    NoKey = NoKey
    Gone = Gone
    ZeroId = "zero id"
    ZeroHash = ZeroHash
    Digest <- MCDigest
INVARIANTS
    TypeOK
    CounterMatchesSignatures
    OneTimeUse
    SignaturesVerify
PROPERTY
    ImplementsPool
\* every object may have been turned into bytes
CHECK_DEADLOCK FALSE
