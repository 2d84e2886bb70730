SPECIFICATION Spec
CONSTANTS
    Word = 3
    MaxId = 7
    MaxCap = 3
INVARIANT
    NextUnused
