SPECIFICATION Spec
CONSTANTS
    Curves <- MCCurves
    KeyForms <- MCKeyForms
    Nonces <- MCNonces
    Imports <- MCImports
    Prehashes <- MCPrehashes
    Messages <- MCMessages
    Hash <- MCHash
    Said <- MCSaid
    Oids <- MCOids
    Wired = {"c211"}
    Wrong = {0, 1, 2, 128}
    WrongText = {48, 65, 97, 122}
    None = None
INVARIANTS
    TypeOK
    SignerRecovered
    VerifyIffRecoverable
    NormalizePreserves
    WireCanonical
    OidNamesHash
\* a signature received or refused is the end
CHECK_DEADLOCK FALSE
