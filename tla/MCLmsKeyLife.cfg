SPECIFICATION LifeSpec
CONSTANTS
    Height <- MCHeight
    Id = "I"
    OtsPubHash <- MCOtsPubHash
    Presented <- MCPresented
    NoSwap = NoSwap
    None = None
    Zero = Zero
INVARIANTS
    TypeOK
    AcceptsExactlySigned
    FilledCorrectly
PROPERTIES
    Terminates
