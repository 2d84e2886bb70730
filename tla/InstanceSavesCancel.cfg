SPECIFICATION Spec
CONSTANTS
    Players = {p, q}
    Word = 4
    MaxId = 2
    MaxCap = 0
    EventIds = 8
    MaxEvents = 2
INVARIANT
    NoResetWhileInside
