SPECIFICATION MCSpec
CONSTANTS
    o1 = o1
    o2 = o2
    Mode <- MCMode
    Keys <- MCKeys
    Indices = {0, 1}
    Ids = {"I"}
    Seeds = {"s1", "s2"}
    Randomizers = {"c1", "c2"}
    Messages = {"m1", "m2"}
    NoKey = NoKey
    ZeroId = "zero id"
    ZeroHash = ZeroHash
    Digest <- MCDigest
    Modes <- MCModes
    Hashes <- MCHashes
INVARIANTS
    TypeOK
    OneTimeUse
    PublishedKeyVerifies
    NoDomination
    ChecksumLossless
PROPERTY
    ImplementsPool
\* the encoding of any other hash is the end of the behaviour
CHECK_DEADLOCK FALSE
