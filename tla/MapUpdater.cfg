SPECIFICATION Spec
CONSTANTS
    w1 = w1
    w2 = w2
    plain = plain
    dungeon = dungeon
    i1 = i1
    i2 = i2
    i3 = i3
    raid = raid
    NoMap = NoMap
    Workers <- MCWorkers
    BaseMaps <- MCBaseMaps
    Instances <- MCInstances
    Parent <- MCParent
    LateMaps <- MCNoLate
    QueueLimit = 2
INVARIANTS
    TypeOK
    PendingExact
    Barrier
    ExclusiveUpdates
PROPERTIES
    TickEnds
    ShutdownCompletes
    ImplementsTick
