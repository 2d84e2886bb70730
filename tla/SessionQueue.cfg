SPECIFICATION Spec
CONSTANTS
    a1 = a1
    a2 = a2
    gm = gm
    Accounts = {a1, a2, gm}
    Staff = {gm}
    Limits = {0, 1}
    Tolerance = TRUE
    MaxNew = 1
SYMMETRY Interchangeable
INVARIANTS
    TypeOK
    QueueExact
    NoStuckWaiter
    NoPlayInQueue
    NoIdleSlot
    NoOverfill
    AllSaved
PROPERTIES
    FirstCome
CHECK_DEADLOCK FALSE
