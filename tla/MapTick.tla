-------------------------------- MODULE MapTick --------------------------------
(***************************************************************************)
(* What one tick of MapManager promises to the rest of worldserver, with   *)
(* no thread, queue or counter in it: between two runs of the world loop   *)
(* every map is updated at most once, an instance only after its base map, *)
(* instances vanish only instead of being updated, and the delayed updates *)
(* start when every map has been dealt with.                               *)
(***************************************************************************)
CONSTANTS BaseMaps, Instances, Parent

VARIABLES phase, live, updated, missed

tickVars == <<phase, live, updated, missed>>

TickInit == phase = "world" /\ live = {} /\ updated = {} /\ missed = {}

(* A base map, or an instance of a base map that exists.                   *)
Create ==
    /\ phase = "world"
    /\ \E m \in (BaseMaps \cup Instances) \ live :
          /\ m \in Instances => Parent[m] \in live
          /\ live' = live \cup {m}
    /\ UNCHANGED <<phase, updated, missed>>

Begin ==
    /\ phase = "world" /\ phase' = "updating"
    /\ updated' = {} /\ missed' = {} /\ UNCHANGED live

(* Some maps are updated (U), some instances destroyed (D), some maps left *)
(* out (K); each map is dealt with once, an instance after its base map.   *)
Progress ==
    /\ phase = "updating"
    /\ \E U \in SUBSET (live \ (updated \cup missed)) :
       \E D \in SUBSET ((live \cap Instances) \ (updated \cup missed \cup U)) :
       \E K \in SUBSET (live \ (updated \cup missed \cup U \cup D)) :
          /\ \A c \in (U \cup D \cup K) \cap Instances :
                Parent[c] \in updated \cup U
          /\ updated' = updated \cup U
          /\ live' = live \ D
          /\ missed' = missed \cup K
    /\ UNCHANGED phase

(* Left out: by choice, or with a base map that was left out.              *)
LeftOut == {m \in live : m \in missed \/ (m \in Instances /\ Parent[m] \in missed)}

Settle ==
    /\ phase = "updating" /\ live \subseteq updated \cup LeftOut
    /\ phase' = "settled" /\ UNCHANGED <<live, updated, missed>>

End == phase = "settled" /\ phase' = "world" /\ UNCHANGED <<live, updated, missed>>

Shutdown ==
    /\ phase = "world" /\ phase' = "down" /\ live' = {}
    /\ UNCHANGED <<updated, missed>>

TickNext == Create \/ Begin \/ Progress \/ Settle \/ End \/ Shutdown

TickSpec == TickInit /\ [][TickNext]_tickVars
=============================================================================
