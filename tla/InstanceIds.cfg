SPECIFICATION Spec
CONSTANTS
    Word = 3
    MaxId = 7
    MaxCap = 3
INVARIANTS
    TypeOK
    LowestAvailable
    FreedIdsAreClear
    OnlyWordMultiplesRepeat
