----------------------------- MODULE MCMapUpdater -----------------------------
(* Instances of MapUpdater for TLC: two workers, three base maps, one       *)
(* with two instances and one with a single one.                           *)
EXTENDS MapUpdater, TLC

CONSTANTS w1, w2, plain, dungeon, raid, i1, i2, i3

MCWorkers == {w1, w2}
MCBaseMaps == {plain, dungeon, raid}
MCInstances == {i1, i2, i3}
MCParent == [c \in MCInstances |-> IF c = i3 THEN raid ELSE dungeon]
MCNoLate == {}
MCLate == {plain}
MCOneInstance == {i1}
MCOneParent == [c \in MCOneInstance |-> dungeon]

=============================================================================
