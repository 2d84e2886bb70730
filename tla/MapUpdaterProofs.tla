--------------------------- MODULE MapUpdaterProofs ---------------------------
(***************************************************************************)
(* Theorems about MapUpdater for any number of workers, maps, instances    *)
(* and any size of the request queue.                                      *)
(***************************************************************************)
EXTENDS MapUpdater, FiniteSetTheorems, TLAPS

(* Without threads nothing is ever queued: EndSchedule skips the wait.     *)
NoThreadsNoRequests == ~activated => queue = <<>> /\ Busy = {}

RequestHasMap == \A w \in Busy : cur[w] \in Maps

(* The inductive invariant: the counter is exact, so wait() returns only   *)
(* when nothing is queued or running, and from then on only BeginUpdate    *)
(* lets a request appear.                                                  *)
CountInv ==
    TypeOK /\ PendingExact /\ Barrier /\ NoThreadsNoRequests /\ RequestHasMap

(* The workers inside a request can be counted.                            *)
LEMMA BusyFinite == IsFiniteSet(Busy) /\ Cardinality(Busy) \in Nat
<1>1. Busy \subseteq Workers
  BY DEF Busy
<1>2. IsFiniteSet(Busy)
  BY <1>1, FS_Subset, ConstantsAssumption
<1> QED
  BY <1>2, FS_CardinalityType

(* A worker that takes a request makes Busy one larger.                    *)
LEMMA BusyAdd ==
  ASSUME NEW w \in Workers, w \notin Busy, Busy' = Busy \cup {w}
  PROVE  Cardinality(Busy') = Cardinality(Busy) + 1
<1>1. IsFiniteSet(Busy)
  BY BusyFinite
<1> QED
  BY <1>1, FS_AddElement

(* A worker that ends its request makes Busy one smaller.                  *)
LEMMA BusyRemove ==
  ASSUME NEW w \in Workers, w \in Busy, Busy' = Busy \ {w}
  PROVE  /\ Cardinality(Busy) > 0
         /\ Cardinality(Busy') = Cardinality(Busy) - 1
<1>1. IsFiniteSet(Busy) /\ Cardinality(Busy) \in Nat
  BY BusyFinite
<1>2. Cardinality(Busy') = Cardinality(Busy) - 1
  BY <1>1, FS_RemoveElement
<1>3. Cardinality(Busy) # 0
  BY <1>1, FS_EmptySet
<1> QED
  BY <1>1, <1>2, <1>3

(* A zero counter means an empty queue and no worker inside a request:     *)
(* the test of MapUpdater::wait is the right one.                          *)
LEMMA NothingPending ==
  ASSUME TypeOK, PendingExact, pending = 0
  PROVE  queue = <<>> /\ Busy = {}
<1>1. IsFiniteSet(Busy) /\ Cardinality(Busy) \in Nat
  BY BusyFinite
<1>2. queue \in Seq(Maps) /\ Len(queue) \in Nat
  BY DEF TypeOK
<1>3. Len(queue) = 0 /\ Cardinality(Busy) = 0
  BY <1>1, <1>2 DEF PendingExact
<1>4. queue = <<>>
  BY <1>2, <1>3
<1>5. Busy = {}
  BY <1>1, <1>3, FS_EmptySet
<1> QED
  BY <1>4, <1>5

(* The invariant holds when the world starts, with threads or without.     *)
LEMMA InitCountInv == Init => CountInv
<1> SUFFICES ASSUME Init PROVE CountInv
  OBVIOUS
<1>1. TypeOK
  <2>1. pc \in [Workers -> {"idle", "map", "kids", "exited"}]
    BY DEF Init
  <2>2. queue \in Seq(Maps)
    BY DEF Init
  <2>3. /\ qopen \in BOOLEAN /\ activated \in BOOLEAN /\ asleep \in BOOLEAN
        /\ cur \in [Workers -> Maps \cup {NoMap}]
        /\ kids \in [Workers -> SUBSET Instances]
    BY DEF Init
  <2> QED
    BY <2>1, <2>2, <2>3 DEF Init, TypeOK
<1>2. Busy = {}
  BY DEF Init, Busy
<1>3. PendingExact
  BY <1>2, FS_EmptySet DEF Init, PendingExact
<1> QED
  BY <1>1, <1>2, <1>3 DEF Init, CountInv, Barrier, NoThreadsNoRequests, RequestHasMap

(* schedule_update keeps the types and raises the counter with the queue.  *)
LEMMA ScheduleCounts ==
  ASSUME TypeOK, NEW m \in Maps, schedule_update(m)
  PROVE  /\ queue' \in Seq(Maps) /\ pending' \in Nat /\ skipped' \in SUBSET Maps
         /\ pending' - Len(queue') = pending - Len(queue)
<1>1. CASE Enqueues /\ queue' = Append(queue, m) /\ pending' = pending + 1 /\ skipped' = skipped
  BY <1>1 DEF TypeOK
<1>2. CASE pending' = (pending + 1) - 1 /\ skipped' = skipped \cup {m} /\ queue' = queue
  BY <1>2 DEF TypeOK
<1> QED
  BY <1>1, <1>2 DEF schedule_update

(* Every step of the world thread, a worker or the environment keeps it.   *)
LEMMA NextCountInv == CountInv /\ [Next]_vars => CountInv'
<1> SUFFICES ASSUME CountInv, [Next]_vars PROVE CountInv'
  OBVIOUS
<1> USE DEF worldVars, workerVars, updaterVars, mapVars
<1>t. TypeOK /\ PendingExact /\ Barrier /\ NoThreadsNoRequests /\ RequestHasMap
  BY DEF CountInv
<1>f. Cardinality(Busy) \in Nat /\ Len(queue) \in Nat
  BY <1>t, BusyFinite DEF TypeOK
<1>1. ASSUME NEW b \in BaseMaps, CreateBaseMap(b)
      PROVE  CountInv'
  BY <1>t, <1>1 DEF CreateBaseMap, CountInv, TypeOK, PendingExact, Barrier,
                    NoThreadsNoRequests, RequestHasMap, Busy, Maps
<1>2. ASSUME NEW c \in Instances, CreateInstance(c)
      PROVE  CountInv'
  BY <1>t, <1>2 DEF CreateInstance, CountInv, TypeOK, PendingExact, Barrier,
                    NoThreadsNoRequests, RequestHasMap, Busy, Maps
<1>3. CASE BeginUpdate
  BY <1>t, <1>3 DEF BeginUpdate, CountInv, TypeOK, PendingExact, Barrier,
                    NoThreadsNoRequests, RequestHasMap, Busy
<1>4. ASSUME NEW b \in BaseMaps, ScheduleBase(b)
      PROVE  CountInv'
  <2>1. Busy' = Busy
    BY <1>4 DEF ScheduleBase, Busy
  <2>2. /\ queue' \in Seq(Maps) /\ pending' \in Nat /\ skipped' \in SUBSET Maps
        /\ pending' - Len(queue') = pending - Len(queue)
    BY <1>t, <1>4, ScheduleCounts DEF ScheduleBase, Maps
  <2>3. TypeOK'
    BY <1>t, <1>4, <2>2 DEF ScheduleBase, TypeOK
  <2>4. PendingExact'
    BY <1>t, <1>f, <2>1, <2>2, <2>3 DEF PendingExact, TypeOK
  <2> QED
    BY <1>t, <1>4, <2>1, <2>3, <2>4 DEF ScheduleBase, CountInv, Barrier,
                                   NoThreadsNoRequests, RequestHasMap
<1>5. ASSUME NEW b \in BaseMaps, UpdateInline(b)
      PROVE  CountInv'
  <2>1. Busy' = Busy
    BY <1>5 DEF UpdateInline, Busy
  <2>2. PICK D \in SUBSET ChildrenOf(b), L \in SUBSET (LateMaps \ live) :
        \E K \in SUBSET (ChildrenOf(b) \ D) :
          /\ live' = (live \ D) \cup L
          /\ skipped' = skipped \cup K
          /\ done' = done \cup {b} \cup (ChildrenOf(b) \ (D \cup K))
          /\ todo' \in LoopAfterInsert(todo \ {b}, L)
    BY <1>5 DEF UpdateInline
  <2>3. ChildrenOf(b) \subseteq Maps /\ L \subseteq BaseMaps /\ b \in Maps
    BY ConstantsAssumption DEF ChildrenOf, Maps
  <2>4. todo' \in SUBSET BaseMaps
    BY <1>t, <2>2, <2>3 DEF LoopAfterInsert, TypeOK
  <2>5. live' \in SUBSET Maps /\ skipped' \in SUBSET Maps /\ done' \in SUBSET Maps
    BY <1>t, <2>2, <2>3 DEF TypeOK, Maps
  <2>6. TypeOK'
    BY <1>t, <1>5, <2>4, <2>5 DEF UpdateInline, TypeOK
  <2> QED
    BY <1>t, <1>5, <2>1, <2>6 DEF UpdateInline, CountInv, PendingExact, Barrier,
                             NoThreadsNoRequests, RequestHasMap
<1>6. CASE EndSchedule
  BY <1>t, <1>6 DEF EndSchedule, CountInv, TypeOK, PendingExact, Barrier,
                    NoThreadsNoRequests, RequestHasMap, Busy
<1>7. CASE WaitUpdate
  <2>1. Busy' = Busy /\ queue' = queue /\ pending' = pending /\ TypeOK'
    BY <1>t, <1>7 DEF WaitUpdate, waitTest, TypeOK, Busy
  <2>2. wpc' = "wait" \/ (queue = <<>> /\ Busy = {})
    BY <1>t, <1>7, NothingPending DEF WaitUpdate, waitTest, TypeOK
  <2> QED
    BY <1>t, <1>7, <2>1, <2>2 DEF WaitUpdate, CountInv, PendingExact, Barrier,
                             NoThreadsNoRequests, RequestHasMap
<1>8. CASE WaitUnload
  BY <1>t, <1>8 DEF WaitUnload, waitTest, CountInv, TypeOK, PendingExact, Barrier,
                    NoThreadsNoRequests, RequestHasMap, Busy
<1>9. CASE SpuriousWakeup
  BY <1>t, <1>9 DEF SpuriousWakeup, CountInv, TypeOK, PendingExact, Barrier,
                    NoThreadsNoRequests, RequestHasMap, Busy
<1>10. CASE DelayedUpdate
  BY <1>t, <1>10 DEF DelayedUpdate, CountInv, TypeOK, PendingExact, Barrier,
                     NoThreadsNoRequests, RequestHasMap, Busy
<1>11. CASE UnloadAll
  BY <1>t, <1>11 DEF UnloadAll, CountInv, TypeOK, PendingExact, Barrier,
                     NoThreadsNoRequests, RequestHasMap, Busy
<1>12. CASE Deactivate
  BY <1>t, <1>12 DEF Deactivate, CountInv, TypeOK, PendingExact, Barrier,
                     NoThreadsNoRequests, RequestHasMap, Busy
<1>13. CASE Join
  BY <1>t, <1>13 DEF Join, CountInv, TypeOK, PendingExact, Barrier,
                     NoThreadsNoRequests, RequestHasMap, Busy
<1>14. ASSUME NEW w \in Workers, Dequeue(w)
       PROVE  CountInv'
  <2>1. w \notin Busy /\ Busy' = Busy \cup {w}
    BY <1>t, <1>14 DEF Dequeue, Busy, TypeOK
  <2>2. Cardinality(Busy') = Cardinality(Busy) + 1
    BY <2>1, BusyAdd
  <2>3. /\ queue # <<>> /\ queue' = Tail(queue) /\ queue' \in Seq(Maps)
        /\ Head(queue) \in Maps /\ Len(queue') = Len(queue) - 1
    BY <1>t, <1>14 DEF Dequeue, TypeOK
  <2>4. TypeOK'
    BY <1>t, <1>14, <2>3 DEF Dequeue, TypeOK
  <2>5. PendingExact'
    BY <1>t, <1>f, <1>14, <2>2, <2>3 DEF Dequeue, PendingExact
  <2>6. Barrier' /\ NoThreadsNoRequests'
    BY <1>t, <1>14, <2>3 DEF Dequeue, Barrier, NoThreadsNoRequests
  <2>7. RequestHasMap'
    BY <1>t, <1>14, <2>1, <2>3 DEF Dequeue, RequestHasMap, TypeOK
  <2> QED
    BY <2>4, <2>5, <2>6, <2>7 DEF CountInv
<1>15. ASSUME NEW w \in Workers, Exit(w)
       PROVE  CountInv'
  <2>1. Busy' = Busy
    BY <1>t, <1>15 DEF Exit, Busy, TypeOK
  <2> QED
    BY <1>t, <1>15, <2>1 DEF Exit, CountInv, TypeOK, PendingExact, Barrier,
                        NoThreadsNoRequests, RequestHasMap
<1>16. ASSUME NEW w \in Workers, NEW b \in LateMaps, CreateBaseMapInUpdate(w, b)
       PROVE  CountInv'
  <2>1. Busy' = Busy
    BY <1>16 DEF CreateBaseMapInUpdate, Busy
  <2>2. b \in BaseMaps
    BY ConstantsAssumption
  <2>3. todo' \in SUBSET BaseMaps
    BY <1>t, <1>16, <2>2 DEF CreateBaseMapInUpdate, LoopAfterInsert, TypeOK
  <2> QED
    BY <1>t, <1>16, <2>1, <2>2, <2>3 DEF CreateBaseMapInUpdate, CountInv, TypeOK,
       PendingExact, Barrier, NoThreadsNoRequests, RequestHasMap, Maps
<1>17. ASSUME NEW w \in Workers, FinishMap(w)
       PROVE  CountInv'
  <2>1. Busy' = Busy /\ w \in Busy
    BY <1>t, <1>17 DEF FinishMap, Busy, TypeOK
  <2> QED
    BY <1>t, <1>17, <2>1 DEF FinishMap, CountInv, TypeOK, PendingExact, Barrier,
                        NoThreadsNoRequests, RequestHasMap, ChildrenOf
<1>18. ASSUME NEW w \in Workers, NEW c \in Instances, ScheduleInstance(w, c)
       PROVE  CountInv'
  <2>1. Busy' = Busy /\ w \in Busy
    BY <1>18 DEF ScheduleInstance, Busy
  <2>2. /\ queue' \in Seq(Maps) /\ pending' \in Nat /\ skipped' \in SUBSET Maps
        /\ pending' - Len(queue') = pending - Len(queue)
    BY <1>t, <1>18, ScheduleCounts DEF ScheduleInstance, Maps
  <2>3. TypeOK'
    BY <1>t, <1>18, <2>2 DEF ScheduleInstance, TypeOK
  <2>4. PendingExact'
    BY <1>t, <1>f, <2>1, <2>2, <2>3 DEF PendingExact, TypeOK
  <2> QED
    BY <1>t, <1>18, <2>1, <2>3, <2>4 DEF ScheduleInstance, CountInv, Barrier,
                                    NoThreadsNoRequests, RequestHasMap
<1>19. ASSUME NEW w \in Workers, NEW c \in Instances, DestroyInstance(w, c)
       PROVE  CountInv'
  <2>1. Busy' = Busy
    BY <1>19 DEF DestroyInstance, Busy
  <2> QED
    BY <1>t, <1>19, <2>1 DEF DestroyInstance, CountInv, TypeOK, PendingExact, Barrier,
                        NoThreadsNoRequests, RequestHasMap, Maps
<1>20. ASSUME NEW w \in Workers, UpdateFinished(w)
       PROVE  CountInv'
  <2>1. w \in Busy /\ Busy' = Busy \ {w}
    BY <1>t, <1>20 DEF UpdateFinished, Busy, TypeOK
  <2>2. Cardinality(Busy) > 0 /\ Cardinality(Busy') = Cardinality(Busy) - 1
    BY <2>1, BusyRemove
  <2>3. pending > 0
    BY <1>t, <1>f, <2>2 DEF PendingExact
  <2>4. TypeOK'
    <3>n. pending \in Nat /\ pending # 0
      BY <1>t, <2>3 DEF TypeOK
    <3>0. pending' = pending - 1 /\ asleep' = FALSE
      BY <1>20, <3>n DEF UpdateFinished
    <3>1. pending' \in Nat
      BY <3>n, <3>0
    <3>4. asleep' \in BOOLEAN
      BY <3>0, Zenon
    <3>2. pc' \in [Workers -> {"idle", "map", "kids", "exited"}]
      BY <1>t, <1>20 DEF UpdateFinished, TypeOK
    <3>3. cur' \in [Workers -> Maps \cup {NoMap}]
      BY <1>t, <1>20 DEF UpdateFinished, TypeOK
    <3> QED
      BY <1>t, <1>20, <3>1, <3>2, <3>3, <3>4 DEF UpdateFinished, TypeOK
  <2>5. PendingExact'
    BY <1>t, <1>f, <1>20, <2>2, <2>3 DEF UpdateFinished, PendingExact, TypeOK
  <2>6. Barrier' /\ NoThreadsNoRequests'
    BY <1>t, <1>20, <2>1 DEF UpdateFinished, Barrier, NoThreadsNoRequests
  <2>7. RequestHasMap'
    BY <1>t, <1>20, <2>1 DEF UpdateFinished, RequestHasMap, TypeOK
  <2> QED
    BY <2>4, <2>5, <2>6, <2>7 DEF CountInv
<1>21. CASE UNCHANGED vars
  BY <1>t, <1>21 DEF vars, CountInv, TypeOK, PendingExact, Barrier,
                     NoThreadsNoRequests, RequestHasMap, Busy
<1> QED
  BY <1>1, <1>2, <1>3, <1>4, <1>5, <1>6, <1>7, <1>8, <1>9, <1>10, <1>11, <1>12, <1>13,
     <1>14, <1>15, <1>16, <1>17, <1>18, <1>19, <1>20, <1>21
     DEF Next, WorldStep, WorkerStep, Environment, Terminated

(* MapUpdater keeps its counting invariant for any number of threads,      *)
(* maps and instances and any queue limit.                                 *)
THEOREM CountInvariant == Spec => []CountInv
  BY InitCountInv, NextCountInv, PTL DEF Spec

(* MapUpdater: every variable keeps its type.                              *)
THEOREM TypeCorrect == Spec => []TypeOK
<1>1. CountInv => TypeOK
  BY DEF CountInv
<1> QED
  BY <1>1, CountInvariant, PTL

(* pending_requests counts exactly the requests queued or running, so the  *)
(* "BUG, report to devs" branch of update_finished is dead code.           *)
THEOREM PendingIsExact == Spec => []PendingExact
<1>1. CountInv => PendingExact
  BY DEF CountInv
<1> QED
  BY <1>1, CountInvariant, PTL

(* MapUpdater::wait is a barrier for the world thread, however many        *)
(* requests the workers themselves add, also when the queue refuses some   *)
(* and when i_maps is changed under the scheduling loop.                   *)
THEOREM WaitIsBarrier == Spec => []Barrier
<1>1. CountInv => Barrier
  BY DEF CountInv
<1> QED
  BY <1>1, CountInvariant, PTL

-----------------------------------------------------------------------------
(* One tick, map by map, when no map update creates a base map             *)
(* (LateMaps = {}).  Handled maps have a request, were updated or were     *)
(* left out.                                                               *)
InTick == wpc \in {"schedule", "wait"}
Handled == Queued \cup Running \cup done \cup skipped

TodoOpen ==
    /\ todo \subseteq live \cap BaseMaps /\ todo \cap Handled = {}
    /\ wpc # "schedule" => todo = {}

RequestStage ==
    /\ Queued \cap skipped = {}
    /\ \A w \in Workers :
        /\ pc[w] = "map" => cur[w] \notin done \cup skipped
        /\ pc[w] = "kids" => cur[w] \in done

(* The instances a worker still has to visit are nobody else's business.   *)
KidsOpen ==
    \A w \in Workers :
        /\ pc[w] # "kids" => kids[w] = {}
        /\ \A c \in kids[w] : c \in live /\ Parent[c] = cur[w] /\ c \notin Handled

ChildrenFollow == InTick => \A c \in Instances \cap Handled : Parent[c] \in done

(* No map is lost on the way.                                              *)
AllAccounted ==
    InTick =>
        /\ live \cap BaseMaps \subseteq todo \cup Handled
        /\ \A c \in live \cap Instances :
            Parent[c] \in done => c \in Handled \/ \E w \in Workers : c \in kids[w]

NoOrphans == \A c \in live \cap Instances : Parent[c] \in live

(* The inductive invariant of a tick, on top of CountInv.                  *)
TickInv ==
    /\ ExclusiveUpdates /\ TodoOpen /\ RequestStage /\ KidsOpen
    /\ ChildrenFollow /\ AllAccounted /\ NoOrphans

(* A request that was accepted, and a request that is taken.               *)
LEMMA QueuedAppend ==
  ASSUME NEW m \in Maps, queue \in Seq(Maps), queue' = Append(queue, m)
  PROVE  /\ Queued' = Queued \cup {m}
         /\ m \notin Queued /\ (\A i, j \in 1 .. Len(queue) : queue[i] = queue[j] => i = j)
                => \A i, j \in 1 .. Len(queue') : queue'[i] = queue'[j] => i = j
<1>1. /\ Len(queue) \in Nat /\ Len(queue') = Len(queue) + 1
      /\ \A i \in 1 .. Len(queue) : queue'[i] = queue[i]
      /\ queue'[Len(queue) + 1] = m
  OBVIOUS
<1>2. /\ \A i \in 1 .. Len(queue) + 1 : i \in 1 .. Len(queue) \/ i = Len(queue) + 1
      /\ Len(queue) + 1 \in 1 .. Len(queue) + 1
      /\ \A i \in 1 .. Len(queue) : i \in 1 .. Len(queue) + 1
  BY <1>1
<1>3. Queued' = Queued \cup {m}
  BY <1>1, <1>2 DEF Queued
<1>4. ASSUME m \notin Queued, \A i, j \in 1 .. Len(queue) : queue[i] = queue[j] => i = j,
             NEW i \in 1 .. Len(queue'), NEW j \in 1 .. Len(queue'), queue'[i] = queue'[j]
      PROVE  i = j
  <2>1. \A k \in 1 .. Len(queue) : queue[k] # m
    BY <1>4 DEF Queued
  <2> QED
    BY <1>1, <1>2, <1>4, <2>1
<1> QED
  BY <1>3, <1>4

(* A request that is taken leaves the set of queued maps.                  *)
LEMMA QueuedTail ==
  ASSUME queue \in Seq(Maps), queue # <<>>, queue' = Tail(queue),
         \A i, j \in 1 .. Len(queue) : queue[i] = queue[j] => i = j
  PROVE  /\ Queued' = Queued \ {Head(queue)} /\ Head(queue) \in Queued
         /\ \A i, j \in 1 .. Len(queue') : queue'[i] = queue'[j] => i = j
<1>1. /\ Len(queue) \in Nat /\ Len(queue) > 0 /\ Len(queue') = Len(queue) - 1
      /\ \A i \in 1 .. Len(queue) - 1 : queue'[i] = queue[i + 1]
      /\ Head(queue) = queue[1]
  OBVIOUS
<1>2. 1 \in 1 .. Len(queue) /\ \A i \in 1 .. Len(queue) - 1 : i + 1 \in 1 .. Len(queue)
  BY <1>1
<1>3. \A i, j \in 1 .. Len(queue') : queue'[i] = queue'[j] => i = j
  BY <1>1, <1>2
<1>4. \A i \in 1 .. Len(queue') : queue'[i] \in Queued /\ queue'[i] # queue[1]
  BY <1>1, <1>2 DEF Queued
<1>5. ASSUME NEW j \in 1 .. Len(queue), queue[j] # queue[1]
      PROVE  queue[j] \in Queued'
  <2>1. j - 1 \in 1 .. Len(queue') /\ queue'[j - 1] = queue[j]
    BY <1>1, <1>5
  <2> QED
    BY <2>1 DEF Queued
<1>6. Queued' \subseteq Queued \ {queue[1]}
  BY <1>4 DEF Queued
<1>7. Queued \ {queue[1]} \subseteq Queued'
  BY <1>5 DEF Queued
<1> QED
  BY <1>1, <1>2, <1>3, <1>6, <1>7 DEF Queued

(* schedule_update of a map nobody handles: it is queued or left out.      *)
LEMMA ScheduleHandles ==
  ASSUME CountInv, TickInv, NEW m \in Maps, m \notin Handled, m \in live,
         schedule_update(m), UNCHANGED <<pc, cur, live, done>>
  PROVE  /\ Busy' = Busy /\ Running' = Running /\ Handled' = Handled \cup {m}
         /\ ExclusiveUpdates' /\ RequestStage'
<1>1. Busy' = Busy /\ Running' = Running
  BY DEF Busy, Running
<1>2. ExclusiveUpdates /\ RequestStage /\ queue \in Seq(Maps)
  BY DEF TickInv, CountInv, TypeOK
<1>3. CASE queue' = Append(queue, m) /\ skipped' = skipped
  <2>1. /\ Queued' = Queued \cup {m}
        /\ \A i, j \in 1 .. Len(queue') : queue'[i] = queue'[j] => i = j
    BY <1>2, <1>3, QueuedAppend DEF Handled, ExclusiveUpdates
  <2>2. Handled' = Handled \cup {m}
    BY <1>1, <1>3, <2>1 DEF Handled
  <2>3. ExclusiveUpdates'
    BY <1>1, <1>2, <2>1 DEF ExclusiveUpdates, Handled
  <2>4. RequestStage'
    BY <1>2, <1>3, <2>1 DEF RequestStage, Handled
  <2> QED
    BY <1>1, <2>2, <2>3, <2>4
<1>4. CASE queue' = queue /\ skipped' = skipped \cup {m}
  <2>1. Queued' = Queued
    BY <1>4 DEF Queued
  <2>2. Handled' = Handled \cup {m}
    BY <1>1, <1>4, <2>1 DEF Handled
  <2>3. ExclusiveUpdates'
    BY <1>1, <1>2, <1>4, <2>1 DEF ExclusiveUpdates
  <2>4. m \notin Running /\ m \notin Queued
    BY DEF Handled
  <2>5. \A w \in Workers : pc[w] = "map" => cur[w] # m
    BY <2>4 DEF Running, Busy
  <2>6. RequestStage'
    BY <1>2, <1>4, <2>1, <2>4, <2>5 DEF RequestStage
  <2> QED
    BY <1>1, <2>2, <2>3, <2>6
<1> QED
  BY <1>3, <1>4 DEF schedule_update

(* The step of MapTick that a step of MapUpdater is.                       *)
TickStep == [Tick!TickNext]_(Tick!tickVars)

(* What phase of the tick the place of the world thread stands for ...     *)
LEMMA Phases ==
  /\ wpc = "world" => phase = "world"
  /\ InTick => phase = "updating"
  /\ wpc = "delayed" => phase = "settled"
  /\ wpc \in {"unload", "deactivate", "join", "down"} => phase = "down"
  BY DEF phase, InTick

(* ... and the same after a step.                                          *)
LEMMA PhasesNext ==
  /\ wpc' = "world" => phase' = "world"
  /\ InTick' => phase' = "updating"
  /\ wpc' = "delayed" => phase' = "settled"
  /\ wpc' \in {"unload", "deactivate", "join", "down"} => phase' = "down"
  BY DEF phase, InTick

(* Maps updated (U), destroyed (D) and left out (K) by a step of a tick.   *)
LEMMA TickProgress ==
  ASSUME InTick, InTick', NEW U, NEW D, NEW K,
         U \subseteq live, D \subseteq live \cap Instances, K \subseteq live,
         (U \cup D \cup K) \cap (done \cup skipped) = {},
         U \cap (D \cup K) = {}, D \cap K = {},
         \A c \in (U \cup D \cup K) \cap Instances : Parent[c] \in done \cup U,
         done' = done \cup U, live' = live \ D, skipped' = skipped \cup K
  PROVE  TickStep
<1>1. phase = "updating" /\ phase' = "updating"
  BY Phases, PhasesNext
<1>2. /\ U \in SUBSET (live \ (done \cup skipped))
      /\ D \in SUBSET ((live \cap Instances) \ (done \cup skipped \cup U))
      /\ K \in SUBSET (live \ (done \cup skipped \cup U \cup D))
  OBVIOUS
<1>3. Tick!Progress
  BY <1>1, <1>2 DEF Tick!Progress
<1> QED
  BY <1>3 DEF TickStep, Tick!TickNext

(* One map: updated, destroyed or left out.                                *)
LEMMA TickOne ==
  ASSUME InTick, InTick', NEW m \in live, m \notin done \cup skipped,
         m \in Instances => Parent[m] \in done,
         \/ done' = done \cup {m} /\ live' = live /\ skipped' = skipped
         \/ m \in Instances /\ live' = live \ {m} /\ done' = done /\ skipped' = skipped
         \/ skipped' = skipped \cup {m} /\ done' = done /\ live' = live
  PROVE  TickStep
<1>1. ASSUME NEW U, NEW D, NEW K, U \cup D \cup K = {m},
             U = {} \/ D \cup K = {}, D = {} \/ K = {}, D \subseteq Instances,
             done' = done \cup U, live' = live \ D, skipped' = skipped \cup K
      PROVE  TickStep
  BY <1>1, TickProgress
<1>2. CASE done' = done \cup {m} /\ live' = live /\ skipped' = skipped
  <2> DEFINE U == {m}  D == {}  K == {}
  <2>1. /\ U \cup D \cup K = {m} /\ D = {} /\ K = {} /\ D \cup K = {} /\ D \subseteq Instances
        /\ done' = done \cup U /\ live' = live \ D /\ skipped' = skipped \cup K
    BY <1>2
  <2> HIDE DEF U, D, K
  <2> QED
    BY <1>1, <2>1
<1>3. CASE m \in Instances /\ live' = live \ {m} /\ done' = done /\ skipped' = skipped
  <2> DEFINE U == {}  D == {m}  K == {}
  <2>1. /\ U \cup D \cup K = {m} /\ U = {} /\ K = {} /\ D \subseteq Instances
        /\ done' = done \cup U /\ live' = live \ D /\ skipped' = skipped \cup K
    BY <1>3
  <2> HIDE DEF U, D, K
  <2> QED
    BY <1>1, <2>1
<1>4. CASE skipped' = skipped \cup {m} /\ done' = done /\ live' = live
  <2> DEFINE U == {}  D == {}  K == {m}
  <2>1. /\ U \cup D \cup K = {m} /\ U = {} /\ D = {} /\ D \subseteq Instances
        /\ done' = done \cup U /\ live' = live \ D /\ skipped' = skipped \cup K
    BY <1>4
  <2> HIDE DEF U, D, K
  <2> QED
    BY <1>1, <2>1
<1> QED
  BY <1>2, <1>3, <1>4

(* A step that changes no variable.                                        *)
LEMMA TickStutter ==
  ASSUME phase' = phase, live' = live, done' = done, skipped' = skipped
  PROVE  TickStep
  BY DEF TickStep, Tick!tickVars

(* At the end of a tick every map was dealt with.                          *)
LEMMA TickSettles ==
  ASSUME CountInv, TickInv, InTick, todo = {}, queue = <<>>, Busy = {}
  PROVE  live \subseteq done \cup Tick!LeftOut
<1>1. Queued = {} /\ Running = {}
  <2>1. \A i \in 1 .. Len(queue) : FALSE
    OBVIOUS
  <2> QED
    BY <2>1 DEF Queued, Running
<1>2. \A w \in Workers : kids[w] = {}
  BY DEF TickInv, KidsOpen, Busy
<1>3. live \cap BaseMaps \subseteq done \cup skipped
  BY <1>1 DEF TickInv, AllAccounted, Handled
<1>4. ASSUME NEW c \in live \cap Instances
      PROVE  c \in done \/ c \in skipped \/ Parent[c] \in skipped
  <2>1. Parent[c] \in live \cap BaseMaps
    BY ConstantsAssumption DEF TickInv, NoOrphans
  <2>2. Parent[c] \in done => c \in done \cup skipped
    BY <1>1, <1>2 DEF TickInv, AllAccounted, Handled
  <2> QED
    BY <1>3, <2>1, <2>2
<1>5. live \subseteq BaseMaps \cup Instances
  BY DEF CountInv, TypeOK, Maps
<1> QED
  BY <1>3, <1>4, <1>5 DEF Tick!LeftOut

(* Steps of the world thread that touch no map and no request.             *)
LEMMA TickQuiet ==
  ASSUME TickInv, UNCHANGED <<queue, pc, cur, kids, live, done, skipped, todo>>,
         InTick' => InTick, wpc' # "schedule" => todo = {}
  PROVE  TickInv'
<1>1. Queued' = Queued /\ Busy' = Busy /\ Running' = Running /\ Handled' = Handled
  BY DEF Queued, Busy, Running, Handled
<1>2. ExclusiveUpdates' /\ RequestStage' /\ KidsOpen' /\ NoOrphans'
  BY <1>1 DEF TickInv, ExclusiveUpdates, RequestStage, KidsOpen, NoOrphans
<1>3. TodoOpen' /\ ChildrenFollow' /\ AllAccounted'
  BY <1>1 DEF TickInv, TodoOpen, ChildrenFollow, AllAccounted
<1> QED
  BY <1>2, <1>3 DEF TickInv

(* Steps of the world thread.                                              *)
LEMMA WorldThreadTick ==
  ASSUME CountInv, TickInv,
         \/ EndSchedule \/ WaitUpdate \/ WaitUnload \/ SpuriousWakeup \/ DelayedUpdate
         \/ Deactivate \/ Join
  PROVE  TickInv' /\ TickStep
<1> USE DEF worldVars, workerVars, updaterVars, mapVars
<1>1. UNCHANGED <<queue, pc, cur, kids, live, done, skipped, todo>>
  BY DEF EndSchedule, WaitUpdate, waitTest, WaitUnload, SpuriousWakeup, DelayedUpdate,
         Deactivate, Join
<1>2. wpc # "schedule" => todo = {}
  BY DEF TickInv, TodoOpen
<1>3. CASE EndSchedule
  <2>1. wpc = "schedule" /\ todo = {} /\ wpc' = IF activated THEN "wait" ELSE "delayed"
    BY <1>3 DEF EndSchedule
  <2>2. TickInv'
    BY <1>1, <2>1, TickQuiet DEF InTick
  <2>3. CASE activated
    BY <1>1, <2>1, <2>2, <2>3, Phases, PhasesNext, TickStutter DEF InTick
  <2>4. CASE ~activated
    <3>1. queue = <<>> /\ Busy = {}
      BY <2>4 DEF CountInv, NoThreadsNoRequests
    <3>2. live \subseteq done \cup Tick!LeftOut
      BY <2>1, <3>1, TickSettles DEF InTick
    <3>3. Tick!Settle
      BY <1>1, <2>1, <2>4, <3>2, Phases, PhasesNext DEF Tick!Settle, InTick
    <3> QED
      BY <2>2, <3>3 DEF TickStep, Tick!TickNext
  <2> QED
    BY <2>3, <2>4
<1>4. CASE WaitUpdate
  <2>1. /\ wpc = "wait" /\ pending' = pending
        /\ wpc' = "wait" \/ (wpc' = "delayed" /\ ~(pending > 0))
    BY <1>4 DEF WaitUpdate, waitTest
  <2>2. TickInv'
    BY <1>1, <1>2, <2>1, TickQuiet DEF InTick
  <2>3. CASE wpc' = "wait"
    BY <1>1, <2>1, <2>2, <2>3, Phases, PhasesNext, TickStutter DEF InTick
  <2>4. CASE wpc' = "delayed" /\ ~(pending > 0)
    <3>1. queue = <<>> /\ Busy = {}
      BY <2>4, NothingPending DEF CountInv, TypeOK
    <3>2. live \subseteq done \cup Tick!LeftOut
      BY <1>2, <2>1, <3>1, TickSettles DEF InTick
    <3>3. Tick!Settle
      BY <1>1, <2>1, <2>4, <3>2, Phases, PhasesNext DEF Tick!Settle, InTick
    <3> QED
      BY <2>2, <3>3 DEF TickStep, Tick!TickNext
  <2> QED
    BY <2>1, <2>3, <2>4
<1>5. CASE DelayedUpdate
  <2>1. wpc = "delayed" /\ wpc' = "world"
    BY <1>5 DEF DelayedUpdate
  <2>2. TickInv'
    BY <1>1, <1>2, <2>1, TickQuiet DEF InTick
  <2>3. Tick!End
    BY <1>1, <2>1, Phases, PhasesNext DEF Tick!End
  <2> QED
    BY <2>2, <2>3 DEF TickStep, Tick!TickNext
<1>6. CASE WaitUnload \/ Deactivate \/ Join
  <2>1. /\ wpc \in {"unload", "deactivate", "join", "down"}
        /\ wpc' \in {"unload", "deactivate", "join", "down"}
    BY <1>6 DEF WaitUnload, waitTest, Deactivate, Join
  <2> QED
    BY <1>1, <1>2, <2>1, TickQuiet, Phases, PhasesNext, TickStutter DEF InTick
<1>7. CASE SpuriousWakeup
  <2>1. wpc' = wpc /\ phase' = phase
    BY <1>7 DEF SpuriousWakeup, phase
  <2> QED
    BY <1>1, <1>2, <2>1, TickQuiet, TickStutter DEF InTick
<1> QED
  BY <1>3, <1>4, <1>5, <1>6, <1>7

(* What players and the timer do between two ticks.                        *)
LEMMA EnvironmentTick ==
  ASSUME CountInv, TickInv,
         \/ \E b \in BaseMaps : CreateBaseMap(b)
         \/ \E c \in Instances : CreateInstance(c)
         \/ BeginUpdate \/ UnloadAll
  PROVE  TickInv' /\ TickStep
<1> USE DEF worldVars, workerVars, updaterVars, mapVars
<1>1. /\ wpc = "world" /\ queue = <<>> /\ Busy = {} /\ todo = {}
      /\ UNCHANGED <<queue, pc, cur, kids>>
  BY DEF CreateBaseMap, CreateInstance, BeginUpdate, UnloadAll, CountInv, Barrier,
         TickInv, TodoOpen
<1>2. Queued = {} /\ Running = {} /\ Queued' = {} /\ Running' = {} /\ Busy' = {}
  <2>1. \A i \in 1 .. Len(queue) : FALSE
    BY <1>1
  <2>2. Queued = {} /\ Running = {}
    BY <1>1, <2>1 DEF Queued, Running
  <2> QED
    BY <1>1, <2>2 DEF Queued, Running, Busy
<1>3. /\ \A w \in Workers : kids'[w] = {} /\ pc'[w] # "map" /\ pc'[w] # "kids"
      /\ ExclusiveUpdates'
  BY <1>1, <1>2 DEF TickInv, KidsOpen, Busy, ExclusiveUpdates
<1>4. RequestStage' /\ KidsOpen'
  BY <1>2, <1>3 DEF RequestStage, KidsOpen
<1>5. ASSUME NEW m \in Maps \ live, m \in Instances => Parent[m] \in live,
             wpc' = wpc, live' = live \cup {m}, done' = done, skipped' = skipped, todo' = todo
      PROVE  TickInv' /\ TickStep
  <2>1. TodoOpen' /\ ChildrenFollow' /\ AllAccounted'
    BY <1>1, <1>5 DEF TodoOpen, ChildrenFollow, AllAccounted, InTick
  <2>2. NoOrphans'
    BY <1>5 DEF TickInv, NoOrphans
  <2>3. Tick!Create
    BY <1>1, <1>5, Phases, PhasesNext DEF Tick!Create, Maps
  <2> QED
    BY <1>3, <1>4, <2>1, <2>2, <2>3 DEF TickInv, TickStep, Tick!TickNext
<1>6. ASSUME NEW b \in BaseMaps, CreateBaseMap(b)
      PROVE  TickInv' /\ TickStep
  BY <1>5, <1>6, ConstantsAssumption DEF CreateBaseMap, Maps
<1>7. ASSUME NEW c \in Instances, CreateInstance(c)
      PROVE  TickInv' /\ TickStep
  BY <1>5, <1>7 DEF CreateInstance, Maps
<1>8. CASE BeginUpdate
  <2>1. /\ wpc' = "schedule" /\ todo' = live \cap BaseMaps /\ done' = {} /\ skipped' = {}
        /\ live' = live
    BY <1>8 DEF BeginUpdate
  <2>2. Handled' = {}
    BY <1>2, <2>1 DEF Handled
  <2>3. TodoOpen' /\ ChildrenFollow' /\ AllAccounted' /\ NoOrphans'
    BY <2>1, <2>2 DEF TickInv, TodoOpen, ChildrenFollow, AllAccounted, NoOrphans
  <2>4. Tick!Begin
    BY <1>1, <2>1, Phases, PhasesNext DEF Tick!Begin, InTick
  <2> QED
    BY <1>3, <1>4, <2>3, <2>4 DEF TickInv, TickStep, Tick!TickNext
<1>9. CASE UnloadAll
  <2>1. /\ wpc' \in {"unload", "down"} /\ todo' = {} /\ done' = done /\ skipped' = skipped
        /\ live' = {}
    BY <1>1, <1>9 DEF UnloadAll
  <2>2. TodoOpen' /\ ChildrenFollow' /\ AllAccounted' /\ NoOrphans'
    BY <2>1 DEF TodoOpen, ChildrenFollow, AllAccounted, NoOrphans, InTick
  <2>3. Tick!Shutdown
    BY <1>1, <2>1, Phases, PhasesNext DEF Tick!Shutdown
  <2> QED
    BY <1>3, <1>4, <2>2, <2>3 DEF TickInv, TickStep, Tick!TickNext
<1> QED
  BY <1>6, <1>7, <1>8, <1>9

(* The scheduling loop of MapManager::Update, with threads.                *)
LEMMA ScheduleBaseTick ==
  ASSUME CountInv, TickInv, NEW b \in BaseMaps, ScheduleBase(b)
  PROVE  TickInv' /\ TickStep
<1> USE DEF workerVars
<1>1. /\ wpc = "schedule" /\ wpc' = wpc /\ b \in todo /\ todo' = todo \ {b}
      /\ schedule_update(b) /\ UNCHANGED <<pc, cur, kids, live, done>>
  BY DEF ScheduleBase
<1>2. b \in live /\ b \notin Handled /\ b \in Maps /\ b \notin Instances
  BY <1>1, ConstantsAssumption DEF TickInv, TodoOpen, Maps
<1>3. /\ Running' = Running /\ Handled' = Handled \cup {b}
      /\ ExclusiveUpdates' /\ RequestStage'
  BY <1>1, <1>2, ScheduleHandles
<1>4. TodoOpen'
  BY <1>1, <1>3 DEF TickInv, TodoOpen
<1>5. KidsOpen'
  BY <1>1, <1>2, <1>3, ConstantsAssumption DEF TickInv, KidsOpen, CountInv, TypeOK
<1>6. ChildrenFollow' /\ AllAccounted' /\ NoOrphans'
  BY <1>1, <1>2, <1>3 DEF TickInv, ChildrenFollow, AllAccounted, NoOrphans, InTick
<1>7. InTick /\ InTick' /\ b \notin done \cup skipped
  BY <1>1, <1>2 DEF InTick, Handled
<1>8. CASE skipped' = skipped
  BY <1>1, <1>3, <1>4, <1>5, <1>6, <1>7, <1>8, Phases, PhasesNext, TickStutter DEF TickInv
<1>9. CASE skipped' = skipped \cup {b}
  <2>1. TickStep
    BY <1>1, <1>2, <1>7, <1>9, TickOne
  <2> QED
    BY <1>3, <1>4, <1>5, <1>6, <2>1 DEF TickInv
<1> QED
  BY <1>1, <1>8, <1>9 DEF schedule_update

(* The same loop without threads: a base map and all its instances.        *)
LEMMA UpdateInlineTick ==
  ASSUME CountInv, TickInv, LateMaps = {}, NEW b \in BaseMaps, UpdateInline(b)
  PROVE  TickInv' /\ TickStep
<1> USE DEF workerVars, updaterVars
<1> DEFINE C == ChildrenOf(b)
<1>1. /\ wpc = "schedule" /\ wpc' = wpc /\ b \in todo
      /\ UNCHANGED <<queue, pc, cur, kids>> /\ ~activated
  BY DEF UpdateInline
<1>2. PICK D \in SUBSET C, K \in SUBSET C :
        /\ D \cap K = {} /\ live' = live \ D /\ skipped' = skipped \cup K
        /\ done' = done \cup {b} \cup (C \ (D \cup K)) /\ todo' = todo \ {b}
  <2>1. PICK D \in SUBSET C, L \in SUBSET (LateMaps \ live) :
        \E K \in SUBSET (C \ D) :
          /\ live' = (live \ D) \cup L
          /\ skipped' = skipped \cup K
          /\ done' = done \cup {b} \cup (C \ (D \cup K))
          /\ todo' \in LoopAfterInsert(todo \ {b}, L)
    BY DEF UpdateInline
  <2>2. L = {}
    OBVIOUS
  <2> QED
    BY <2>1, <2>2 DEF LoopAfterInsert
<1>3. queue = <<>> /\ Busy = {} /\ Queued = {} /\ Running = {}
  <2>1. queue = <<>> /\ Busy = {}
    BY <1>1 DEF CountInv, NoThreadsNoRequests
  <2>2. \A i \in 1 .. Len(queue) : FALSE
    BY <2>1
  <2> QED
    BY <2>1, <2>2 DEF Queued, Running
<1>4. Queued' = {} /\ Running' = {} /\ Busy' = {}
  BY <1>1, <1>3 DEF Queued, Running, Busy
<1>5. /\ \A w \in Workers : kids'[w] = {} /\ pc'[w] # "map" /\ pc'[w] # "kids"
      /\ ExclusiveUpdates'
  BY <1>1, <1>3, <1>4 DEF TickInv, KidsOpen, Busy, ExclusiveUpdates
<1>6. RequestStage' /\ KidsOpen'
  BY <1>4, <1>5 DEF RequestStage, KidsOpen
<1>7. /\ b \in live /\ b \notin done \cup skipped /\ b \notin Instances
      /\ C \subseteq live \cap Instances /\ \A c \in C : Parent[c] = b
  BY <1>1, ConstantsAssumption DEF TickInv, TodoOpen, Handled, ChildrenOf
<1> HIDE DEF C
<1>8. C \cap (done \cup skipped) = {}
  BY <1>1, <1>7 DEF TickInv, ChildrenFollow, InTick, Handled
<1>9. Handled' = Handled \cup {b} \cup (C \ D) /\ Handled = done \cup skipped
  BY <1>2, <1>3, <1>4 DEF Handled
<1>10. TodoOpen'
  <2>1. todo' \subseteq live' \cap BaseMaps
    BY <1>2, <1>7, ConstantsAssumption DEF TickInv, TodoOpen
  <2>2. todo' \cap Handled' = {}
    BY <1>2, <1>7, <1>9, ConstantsAssumption DEF TickInv, TodoOpen
  <2> QED
    BY <1>1, <2>1, <2>2 DEF TodoOpen
<1>11. ChildrenFollow'
  BY <1>1, <1>2, <1>7, <1>9 DEF TickInv, ChildrenFollow, InTick
<1>12. AllAccounted'
  <2>1. live' \cap BaseMaps \subseteq todo' \cup Handled'
    <3>1. live \cap BaseMaps \subseteq todo \cup Handled
      BY <1>1 DEF TickInv, AllAccounted, InTick
    <3> QED
      BY <1>2, <1>9, <3>1
  <2>2. ASSUME NEW c \in live' \cap Instances, Parent[c] \in done'
        PROVE  c \in Handled'
    <3>1. Parent[c] \in BaseMaps /\ Parent[c] \notin C
      BY <1>7, <2>2, ConstantsAssumption
    <3>2. CASE Parent[c] = b
      BY <1>2, <1>9, <2>2, <3>2 DEF ChildrenOf, C
    <3>3. CASE Parent[c] \in done
      BY <1>1, <1>2, <1>5, <1>9, <2>2, <3>3 DEF TickInv, AllAccounted, InTick
    <3> QED
      BY <1>2, <2>2, <3>1, <3>2, <3>3
  <2> QED
    BY <2>1, <2>2 DEF AllAccounted
<1>13. NoOrphans'
  BY <1>2, <1>7, ConstantsAssumption DEF TickInv, NoOrphans
<1>14. TickStep
  <2> DEFINE U == {b} \cup (C \ (D \cup K))
  <2>1. InTick /\ InTick' /\ U \subseteq live /\ D \subseteq live \cap Instances /\ K \subseteq live
    BY <1>1, <1>2, <1>7 DEF InTick
  <2>2. /\ (U \cup D \cup K) \cap (done \cup skipped) = {}
        /\ U \cap (D \cup K) = {} /\ D \cap K = {}
    BY <1>2, <1>7, <1>8
  <2>3. \A c \in (U \cup D \cup K) \cap Instances : Parent[c] \in done \cup U
    BY <1>2, <1>7
  <2>4. done' = done \cup U /\ live' = live \ D /\ skipped' = skipped \cup K
    BY <1>2
  <2> HIDE DEF U
  <2> QED
    BY <2>1, <2>2, <2>3, <2>4, TickProgress
<1> QED
  BY <1>5, <1>6, <1>10, <1>11, <1>12, <1>13, <1>14 DEF TickInv

(* A worker inside a request shows that the tick is under way.             *)
LEMMA BusyInTick ==
  ASSUME CountInv, NEW w \in Busy
  PROVE  InTick
  BY DEF CountInv, Barrier, InTick

(* No two workers visit the same instance.                                 *)
LEMMA KidsDisjoint ==
  ASSUME CountInv, TickInv, NEW v \in Workers, NEW w \in Workers,
         NEW c \in kids[w], c \in kids[v]
  PROVE  v = w
<1>1. pc[v] = "kids" /\ pc[w] = "kids" /\ cur[v] = cur[w]
  BY DEF TickInv, KidsOpen
<1> QED
  BY <1>1 DEF TickInv, ExclusiveUpdates, Busy

(* DelayExecutor::svc takes a request, or ends.                            *)
LEMMA DequeueTick ==
  ASSUME CountInv, TickInv, NEW w \in Workers, Dequeue(w)
  PROVE  TickInv' /\ TickStep
<1> USE DEF worldVars, mapVars
<1> DEFINE h == Head(queue)
<1>1. /\ pc[w] = "idle" /\ queue # <<>> /\ queue' = Tail(queue)
      /\ pc' = [pc EXCEPT ![w] = "map"] /\ cur' = [cur EXCEPT ![w] = h]
      /\ UNCHANGED <<wpc, todo, kids, live, done, skipped>>
  BY DEF Dequeue
<1>2. /\ queue \in Seq(Maps) /\ pc' \in [Workers -> {"idle", "map", "kids", "exited"}]
      /\ pc'[w] = "map" /\ cur'[w] = h /\ kids[w] = {}
      /\ \A v \in Workers \ {w} : pc'[v] = pc[v] /\ cur'[v] = cur[v]
  BY <1>1 DEF CountInv, TypeOK, TickInv, KidsOpen
<1>3. ExclusiveUpdates /\ RequestStage
  BY DEF TickInv
<1>4. /\ Queued' = Queued \ {h} /\ h \in Queued
      /\ \A i, j \in 1 .. Len(queue') : queue'[i] = queue'[j] => i = j
  BY <1>1, <1>2, <1>3, QueuedTail DEF ExclusiveUpdates
<1> HIDE DEF h
<1>5. Busy' = Busy \cup {w} /\ w \notin Busy
  BY <1>1, <1>2 DEF Busy
<1>6. Running' = Running \cup {h}
  BY <1>2, <1>5 DEF Running, Busy
<1>7. h \notin Running \cup done \cup skipped
  BY <1>3, <1>4 DEF ExclusiveUpdates, RequestStage
<1>8. Handled' = Handled
  BY <1>1, <1>4, <1>6 DEF Handled
<1>9. ExclusiveUpdates'
  <2>1. \A v, u \in Busy' : cur'[v] = cur'[u] => v = u
    BY <1>2, <1>3, <1>5, <1>7 DEF ExclusiveUpdates, Running, Busy
  <2>2. Queued' \cap (Running' \cup done') = {} /\ Queued' \cup Running' \subseteq live'
    BY <1>1, <1>3, <1>4, <1>6 DEF ExclusiveUpdates
  <2> QED
    BY <1>4, <2>1, <2>2 DEF ExclusiveUpdates
<1>10. RequestStage'
  BY <1>1, <1>2, <1>3, <1>4, <1>7 DEF RequestStage
<1>11. KidsOpen'
  BY <1>1, <1>2, <1>8 DEF TickInv, KidsOpen
<1>12. TodoOpen' /\ ChildrenFollow' /\ AllAccounted' /\ NoOrphans'
  BY <1>1, <1>8 DEF TickInv, TodoOpen, ChildrenFollow, AllAccounted, NoOrphans, InTick
<1>13. phase' = phase
  BY <1>1 DEF phase
<1> QED
  BY <1>1, <1>9, <1>10, <1>11, <1>12, <1>13, TickStutter DEF TickInv

(* A worker ends.                                                          *)
LEMMA ExitTick ==
  ASSUME CountInv, TickInv, NEW w \in Workers, Exit(w)
  PROVE  TickInv' /\ TickStep
<1> USE DEF worldVars, mapVars, updaterVars
<1>1. /\ pc[w] = "idle" /\ pc' = [pc EXCEPT ![w] = "exited"]
      /\ UNCHANGED <<wpc, todo, kids, live, done, skipped, queue, cur>>
  BY DEF Exit
<1>2. /\ pc'[w] = "exited" /\ \A v \in Workers \ {w} : pc'[v] = pc[v]
      /\ kids[w] = {}
  BY <1>1 DEF CountInv, TypeOK, TickInv, KidsOpen
<1>3. Queued' = Queued /\ Busy' = Busy /\ Running' = Running /\ Handled' = Handled
  <2>1. Busy' = Busy
    BY <1>1, <1>2 DEF Busy
  <2> QED
    BY <1>1, <2>1 DEF Queued, Running, Handled
<1>4. ExclusiveUpdates' /\ RequestStage' /\ KidsOpen'
  BY <1>1, <1>2, <1>3 DEF TickInv, ExclusiveUpdates, RequestStage, KidsOpen
<1>5. TodoOpen' /\ ChildrenFollow' /\ AllAccounted' /\ NoOrphans'
  BY <1>1, <1>3 DEF TickInv, TodoOpen, ChildrenFollow, AllAccounted, NoOrphans, InTick
<1>6. phase' = phase
  BY <1>1 DEF phase
<1> QED
  BY <1>1, <1>4, <1>5, <1>6, TickStutter DEF TickInv

(* Map::Update returns, and the instances of the map come to its worker.   *)
LEMMA FinishMapTick ==
  ASSUME CountInv, TickInv, NEW w \in Workers, FinishMap(w)
  PROVE  TickInv' /\ TickStep
<1> USE DEF worldVars, updaterVars
<1> DEFINE m == cur[w]
<1>1. /\ pc[w] = "map" /\ pc' = [pc EXCEPT ![w] = "kids"]
      /\ kids' = [kids EXCEPT ![w] = ChildrenOf(m)] /\ done' = done \cup {m}
      /\ UNCHANGED <<wpc, todo, cur, live, skipped, queue>>
  BY DEF FinishMap
<1>2. /\ pc'[w] = "kids" /\ kids'[w] = ChildrenOf(m) /\ kids[w] = {}
      /\ \A v \in Workers \ {w} : pc'[v] = pc[v] /\ kids'[v] = kids[v]
  BY <1>1 DEF CountInv, TypeOK, TickInv, KidsOpen
<1>3. w \in Busy /\ InTick /\ InTick'
  <2>1. w \in Busy
    BY <1>1 DEF Busy
  <2> QED
    BY <1>1, <2>1, BusyInTick DEF InTick
<1>4. m \in Running /\ m \in live /\ m \notin done \cup skipped
  BY <1>1, <1>3 DEF Running, TickInv, ExclusiveUpdates, RequestStage
<1>5. Queued' = Queued /\ Busy' = Busy /\ Running' = Running /\ Handled' = Handled
  <2>1. Busy' = Busy
    BY <1>1, <1>2 DEF Busy
  <2>2. Queued' = Queued /\ Running' = Running
    BY <1>1, <2>1 DEF Queued, Running
  <2>3. m \in Running /\ done' = done \cup {m} /\ skipped' = skipped
    BY <1>1, <1>4
  <2> HIDE DEF m
  <2>4. Handled' = Handled
    BY <2>2, <2>3 DEF Handled
  <2> QED
    BY <2>1, <2>2, <2>4
<1>6. ExclusiveUpdates'
  BY <1>1, <1>4, <1>5 DEF TickInv, ExclusiveUpdates
<1>7. RequestStage'
  <2>1. \A v \in Workers \ {w} : pc[v] = "map" => cur[v] # m
    BY <1>3 DEF TickInv, ExclusiveUpdates, Busy
  <2> QED
    BY <1>1, <1>2, <1>5, <2>1 DEF TickInv, RequestStage
<1>8. \A c \in ChildrenOf(m) : c \in live /\ Parent[c] = m /\ c \notin Handled
  BY <1>3, <1>4 DEF ChildrenOf, TickInv, ChildrenFollow
<1>9. KidsOpen'
  BY <1>1, <1>2, <1>5, <1>8 DEF TickInv, KidsOpen
<1>10. TodoOpen' /\ ChildrenFollow' /\ NoOrphans'
  BY <1>1, <1>3, <1>5 DEF TickInv, TodoOpen, ChildrenFollow, NoOrphans
<1>11. AllAccounted'
  <2>1. live' \cap BaseMaps \subseteq todo' \cup Handled'
    BY <1>1, <1>3, <1>5 DEF TickInv, AllAccounted
  <2>2. ASSUME NEW c \in live' \cap Instances, Parent[c] \in done'
        PROVE  c \in Handled' \/ \E v \in Workers : c \in kids'[v]
    <3>1. CASE Parent[c] = m
      BY <1>1, <1>2, <2>2, <3>1 DEF ChildrenOf
    <3>2. CASE Parent[c] \in done
      BY <1>1, <1>2, <1>3, <1>5, <2>2, <3>2 DEF TickInv, AllAccounted
    <3> QED
      BY <1>1, <2>2, <3>1, <3>2
  <2> QED
    BY <2>1, <2>2 DEF AllAccounted
<1>12. TickStep
  <2>1. m \in Instances => Parent[m] \in done
    BY <1>3, <1>4 DEF TickInv, ChildrenFollow, Handled
  <2>2. done' = done \cup {m} /\ live' = live /\ skipped' = skipped
    BY <1>1
  <2> HIDE DEF m
  <2> QED
    BY <1>3, <1>4, <2>1, <2>2, TickOne
<1> QED
  BY <1>6, <1>7, <1>9, <1>10, <1>11, <1>12 DEF TickInv

(* The loop of MapInstanced::Update takes one instance off its list.       *)
LEMMA KidTaken ==
  ASSUME CountInv, TickInv, NEW w \in Workers, NEW c \in kids[w],
         kids' = [kids EXCEPT ![w] = @ \ {c}]
  PROVE  /\ pc[w] = "kids" /\ w \in Busy /\ InTick
         /\ c \in live /\ c \in Instances /\ c \in Maps /\ c \notin Handled
         /\ Parent[c] \in done
         /\ \A v \in Workers : kids'[v] = kids[v] \ {c}
<1>1. pc[w] = "kids" /\ c \in live /\ Parent[c] = cur[w] /\ c \notin Handled
  BY DEF TickInv, KidsOpen
<1>2. w \in Busy /\ cur[w] \in done
  BY <1>1 DEF Busy, TickInv, RequestStage
<1>3. c \in Instances /\ c \in Maps
  BY DEF CountInv, TypeOK, Maps
<1>4. \A v \in Workers \ {w} : c \notin kids[v]
  BY KidsDisjoint
<1>5. \A v \in Workers : kids'[v] = IF v = w THEN kids[w] \ {c} ELSE kids[v]
  BY DEF CountInv, TypeOK
<1>6. \A v \in Workers : kids'[v] = kids[v] \ {c}
  BY <1>4, <1>5
<1> QED
  BY <1>1, <1>2, <1>3, <1>6, BusyInTick

(* A worker schedules an instance of its base map.                         *)
LEMMA ScheduleInstanceTick ==
  ASSUME CountInv, TickInv, NEW w \in Workers, NEW c \in Instances, ScheduleInstance(w, c)
  PROVE  TickInv' /\ TickStep
<1> USE DEF worldVars
<1>1. /\ c \in kids[w] /\ kids' = [kids EXCEPT ![w] = @ \ {c}]
      /\ schedule_update(c) /\ UNCHANGED <<wpc, todo, pc, cur, live, done>>
  BY DEF ScheduleInstance
<1>2. /\ InTick /\ c \in live /\ c \in Maps /\ c \notin Handled /\ Parent[c] \in done
      /\ \A v \in Workers : kids'[v] = kids[v] \ {c}
  BY <1>1, KidTaken
<1>3. Handled' = Handled \cup {c} /\ ExclusiveUpdates' /\ RequestStage'
  BY <1>1, <1>2, ScheduleHandles
<1>4. KidsOpen'
  BY <1>1, <1>2, <1>3 DEF TickInv, KidsOpen
<1>5. TodoOpen' /\ NoOrphans'
  BY <1>1, <1>3, ConstantsAssumption DEF TickInv, TodoOpen, NoOrphans
<1>6. ChildrenFollow'
  BY <1>1, <1>2, <1>3 DEF TickInv, ChildrenFollow
<1>7. AllAccounted'
  BY <1>1, <1>2, <1>3 DEF TickInv, AllAccounted
<1>8. InTick' /\ c \notin done \cup skipped
  BY <1>1, <1>2 DEF InTick, Handled
<1>9. CASE skipped' = skipped
  BY <1>1, <1>2, <1>3, <1>4, <1>5, <1>6, <1>7, <1>8, <1>9, Phases, PhasesNext, TickStutter
     DEF TickInv
<1>10. CASE skipped' = skipped \cup {c}
  <2>1. TickStep
    BY <1>1, <1>2, <1>8, <1>10, TickOne
  <2> QED
    BY <1>3, <1>4, <1>5, <1>6, <1>7, <2>1 DEF TickInv
<1> QED
  BY <1>1, <1>9, <1>10 DEF schedule_update

(* A worker destroys an instance instead.                                  *)
LEMMA DestroyInstanceTick ==
  ASSUME CountInv, TickInv, NEW w \in Workers, NEW c \in Instances, DestroyInstance(w, c)
  PROVE  TickInv' /\ TickStep
<1> USE DEF worldVars, updaterVars
<1>1. /\ c \in kids[w] /\ kids' = [kids EXCEPT ![w] = @ \ {c}]
      /\ UNCHANGED <<wpc, todo, pc, cur, queue, done>>
      /\ \/ live' = live \ {c} /\ skipped' = skipped
         \/ skipped' = skipped \cup {c} /\ live' = live
  BY DEF DestroyInstance
<1>2. /\ InTick /\ c \in live /\ c \in Maps /\ c \notin Handled /\ Parent[c] \in done
      /\ \A v \in Workers : kids'[v] = kids[v] \ {c}
  BY <1>1, KidTaken
<1>3. Queued' = Queued /\ Busy' = Busy /\ Running' = Running
  BY <1>1 DEF Queued, Busy, Running
<1>4. c \notin Queued /\ c \notin Running /\ c \notin done /\ c \notin skipped /\ InTick'
  BY <1>1, <1>2 DEF Handled, InTick
<1>5. TickStep
  BY <1>1, <1>2, <1>4, TickOne
<1>6. Handled \subseteq Handled' /\ Handled' \subseteq Handled \cup {c}
      /\ (skipped' = skipped \cup {c} => c \in Handled')
  BY <1>1, <1>3 DEF Handled
<1>7. ExclusiveUpdates'
  BY <1>1, <1>3, <1>4 DEF TickInv, ExclusiveUpdates
<1>8. RequestStage'
  <2>1. \A v \in Workers : pc[v] = "map" => cur[v] # c
    BY <1>4 DEF Running, Busy
  <2> QED
    BY <1>1, <1>3, <1>4, <2>1 DEF TickInv, RequestStage
<1>9. KidsOpen'
  BY <1>1, <1>2, <1>6 DEF TickInv, KidsOpen
<1>10. TodoOpen' /\ NoOrphans'
  BY <1>1, <1>6, ConstantsAssumption DEF TickInv, TodoOpen, NoOrphans
<1>11. ChildrenFollow'
  BY <1>1, <1>2, <1>6 DEF TickInv, ChildrenFollow
<1>12. AllAccounted'
  <2>1. live' \cap BaseMaps \subseteq todo' \cup Handled'
    BY <1>1, <1>2, <1>6 DEF TickInv, AllAccounted
  <2>2. ASSUME NEW x \in live' \cap Instances, Parent[x] \in done'
        PROVE  x \in Handled' \/ \E v \in Workers : x \in kids'[v]
    <3>1. CASE x = c
      BY <1>1, <1>6, <2>2, <3>1
    <3>2. CASE x # c
      BY <1>1, <1>2, <1>6, <2>2, <3>2 DEF TickInv, AllAccounted
    <3> QED
      BY <3>1, <3>2
  <2> QED
    BY <2>1, <2>2 DEF AllAccounted
<1> QED
  BY <1>5, <1>7, <1>8, <1>9, <1>10, <1>11, <1>12 DEF TickInv

(* MapUpdater::update_finished: the map stays among the updated.           *)
LEMMA UpdateFinishedTick ==
  ASSUME CountInv, TickInv, NEW w \in Workers, UpdateFinished(w)
  PROVE  TickInv' /\ TickStep
<1> USE DEF mapVars
<1>1. /\ pc[w] = "kids" /\ kids[w] = {} /\ pc' = [pc EXCEPT ![w] = "idle"]
      /\ cur' = [cur EXCEPT ![w] = NoMap]
      /\ UNCHANGED <<wpc, todo, kids, live, done, skipped, queue>>
  BY DEF UpdateFinished
<1>2. /\ pc'[w] = "idle"
      /\ \A v \in Workers \ {w} : pc'[v] = pc[v] /\ cur'[v] = cur[v]
  BY <1>1 DEF CountInv, TypeOK
<1>3. Queued' = Queued /\ Busy' = Busy \ {w} /\ w \in Busy /\ cur[w] \in done
  BY <1>1, <1>2 DEF Queued, Busy, TickInv, RequestStage
<1>4. Running' \subseteq Running /\ Running \subseteq Running' \cup {cur[w]}
  BY <1>2, <1>3 DEF Running, Busy
<1>5. Handled' = Handled
  BY <1>1, <1>3, <1>4 DEF Handled
<1>6. ExclusiveUpdates'
  <2>1. \A u, v \in Busy' : cur'[u] = cur'[v] => u = v
    BY <1>2, <1>3 DEF TickInv, ExclusiveUpdates, Busy
  <2> QED
    BY <1>1, <1>3, <1>4, <2>1 DEF TickInv, ExclusiveUpdates
<1>7. RequestStage' /\ KidsOpen'
  BY <1>1, <1>2, <1>3, <1>5 DEF TickInv, RequestStage, KidsOpen
<1>8. TodoOpen' /\ ChildrenFollow' /\ AllAccounted' /\ NoOrphans'
  BY <1>1, <1>5 DEF TickInv, TodoOpen, ChildrenFollow, AllAccounted, NoOrphans, InTick
<1>9. phase' = phase
  BY <1>1 DEF phase
<1> QED
  BY <1>1, <1>6, <1>7, <1>8, <1>9, TickStutter DEF TickInv

-----------------------------------------------------------------------------
LEMMA InitTickInv == Init => TickInv /\ Tick!TickInit
<1> SUFFICES ASSUME Init PROVE TickInv /\ Tick!TickInit
  OBVIOUS
<1>1. /\ queue = <<>> /\ wpc = "world" /\ todo = {} /\ live = {} /\ done = {} /\ skipped = {}
      /\ \A w \in Workers : pc[w] \in {"idle", "exited"} /\ kids[w] = {}
  BY DEF Init
<1>2. Busy = {} /\ Queued = {} /\ Running = {}
  <2>1. \A i \in 1 .. Len(queue) : FALSE
    BY <1>1
  <2>2. Busy = {}
    BY <1>1 DEF Busy
  <2> QED
    BY <2>1, <2>2 DEF Queued, Running
<1>3. ExclusiveUpdates /\ RequestStage /\ KidsOpen
  BY <1>1, <1>2 DEF ExclusiveUpdates, RequestStage, KidsOpen
<1>4. TodoOpen /\ ChildrenFollow /\ AllAccounted /\ NoOrphans
  BY <1>1 DEF TodoOpen, ChildrenFollow, AllAccounted, NoOrphans, InTick
<1>5. Tick!TickInit
  BY <1>1, Phases DEF Tick!TickInit
<1> QED
  BY <1>3, <1>4, <1>5 DEF TickInv

(* Every step keeps TickInv and is a step of the tick or none.             *)
LEMMA NextTickInv ==
  ASSUME CountInv, TickInv, LateMaps = {}, [Next]_vars
  PROVE  TickInv' /\ TickStep
<1>1. CASE UNCHANGED vars
  <2>1. /\ UNCHANGED <<queue, pc, cur, kids, live, done, skipped, todo>> /\ wpc' = wpc
        /\ phase' = phase
    BY <1>1 DEF vars, updaterVars, worldVars, workerVars, mapVars, phase
  <2> QED
    BY <2>1, TickQuiet, TickStutter DEF InTick, TickInv, TodoOpen
<1>2. CASE WorldStep
  BY <1>2, WorldThreadTick, ScheduleBaseTick, UpdateInlineTick DEF WorldStep
<1>3. CASE Environment
  BY <1>3, EnvironmentTick, WorldThreadTick DEF Environment
<1>4. ASSUME NEW w \in Workers, WorkerStep(w)
      PROVE  TickInv' /\ TickStep
  BY <1>4, DequeueTick, ExitTick, FinishMapTick, UpdateFinishedTick, ScheduleInstanceTick,
     DestroyInstanceTick DEF WorkerStep
<1> QED
  BY <1>1, <1>2, <1>3, <1>4 DEF Next, Terminated

(* As long as no map update calls CreateBaseMap, no map is updated twice   *)
(* in a tick or by two threads at once, and DestroyInstance never deletes  *)
(* a map whose update is queued or running.                                *)
THEOREM UpdatesAreExclusive ==
  ASSUME LateMaps = {}
  PROVE  Spec => []ExclusiveUpdates
<1>1. CountInv /\ TickInv /\ [Next]_vars => TickInv'
  BY NextTickInv
<1>2. TickInv => ExclusiveUpdates
  BY DEF TickInv
<1>3. Spec => [](CountInv /\ TickInv)
  BY <1>1, InitCountInv, NextCountInv, InitTickInv, PTL DEF Spec
<1> QED
  BY <1>2, <1>3, PTL

(* Under the same condition the threads, the queue and the counter of the  *)
(* parallel update implement the tick MapTick describes: every map is      *)
(* updated at most once, an instance after its base map, and the delayed   *)
(* updates start when every map was updated or left out.                   *)
THEOREM UpdaterImplementsTick ==
  ASSUME LateMaps = {}
  PROVE  Spec => ImplementsTick
<1>1. CountInv /\ TickInv /\ [Next]_vars => TickInv'
  BY NextTickInv
<1>2. CountInv /\ TickInv /\ [Next]_vars => [Tick!TickNext]_(Tick!tickVars)
  BY NextTickInv DEF TickStep
<1>3. Spec => [](CountInv /\ TickInv)
  BY <1>1, InitCountInv, NextCountInv, InitTickInv, PTL DEF Spec
<1> QED
  BY <1>2, <1>3, InitTickInv, PTL DEF Spec, ImplementsTick, Tick!TickSpec
=============================================================================
