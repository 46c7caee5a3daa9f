SPECIFICATION Spec
CONSTANTS
    Sizes <- MCSizes
    Given <- MCGiven
    GivenX = {0, 1, 2, 11, 12}
    GivenY = {0, 1, 2, 5, 22}
    Drawn <- MCDrawn
    Assembled = {0, 1, 7, 200, 255}
    Hashes <- MCHashes
    SmallQ = 16
    Wired = {5, 23, 31, 787, 1543}
    Wrong = {0, 1, 2, 128}
    None = None
INVARIANTS
    TypeOK
    GenerationSound
    VerifyIffEquation
    Interchange
\* a refused or panicking call, or something read, is the end
CHECK_DEADLOCK FALSE
