SPECIFICATION Spec
CONSTANTS
    N = 2
    HPrime = 2
    D = 3
    K = 3
    A = 2
    BytesOf <- MCBytesOf
    Claims <- MCClaims
    Digests <- MCDigests
    MaxSigs = 2
    SkSeed = SkSeed
    SkPrf = SkPrf
    PkSeed = PkSeed
    Randomizer = Randomizer
    Foreign = Foreign
INVARIANTS
    TypeOK
    AcceptsOwn
    AcceptsNothingElse
    CarriesTreeRoot
    OneValuePerKey
    AddressesUnshared
\* a call refused or a signature judged is the end
CHECK_DEADLOCK FALSE
