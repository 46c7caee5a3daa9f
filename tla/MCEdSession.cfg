SPECIFICATION Spec
CONSTANTS
    Objects <- MCObjects
    Positions = {1, 2, 32, 33}
    Wrong = {0, 57}
    NoByte = 256
    WrongCharacters <- MCWrongCharacters
    ForeignKey <- MCForeignKey
    MaxAlterations = 2
    None = None
INVARIANTS
    ReadsOwnWritings
    PartsFollow
PROPERTIES
    CratesApart
\* what was refused is the end
CHECK_DEADLOCK FALSE
