SPECIFICATION Spec
CONSTANTS
    w1 = w1
    w2 = w2
    plain = plain
    dungeon = dungeon
    i1 = i1
    i2 = i2
    i3 = i3
    raid = raid
    NoMap = NoMap
    Workers <- MCWorkers
    BaseMaps <- MCBaseMaps
    Instances <- MCOneInstance
    Parent <- MCOneParent
    LateMaps <- MCLate
    QueueLimit = 2
INVARIANTS
    Barrier
PROPERTIES
    TickEnds
