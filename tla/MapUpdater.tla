------------------------------ MODULE MapUpdater ------------------------------
(***************************************************************************)
(* The parallel map update of worldserver: MapManager::Update on the world *)
(* thread, MapInstanced::Update on the threads of DelayExecutor, and the   *)
(* counter, condition variable and request queue of MapUpdater that join   *)
(* them.                                                                   *)
(*                                                                         *)
(* A tick schedules one request per base map, and a base map that is       *)
(* instanceable schedules (from its own worker) one request per instance   *)
(* or destroys the instance.  The world thread sleeps on m_condition until *)
(* pending_requests is zero and then runs the delayed updates alone.       *)
(***************************************************************************)
EXTENDS Naturals, Sequences, FiniteSets

CONSTANTS
    Workers,      \* threads of DelayExecutor (MapUpdate.Threads)
    BaseMaps,     \* map ids: the keys MapManager::i_maps can have
    Instances,    \* instances: the keys m_InstancedMaps of a base map can have
    Parent,       \* Parent[c]: the MapInstanced that owns instance c
    LateMaps,     \* base maps some map update may ask CreateBaseMap for
    QueueLimit,   \* requests that fit under the high water mark of the queue
    NoMap         \* "this worker runs no request"

ASSUME ConstantsAssumption ==
    /\ IsFiniteSet(Workers)
    /\ BaseMaps \cap Instances = {}
    /\ NoMap \notin BaseMaps \cup Instances
    /\ Parent \in [Instances -> BaseMaps]
    /\ LateMaps \subseteq BaseMaps
    /\ QueueLimit \in Nat

VARIABLES
    pending,      \* MapUpdater::pending_requests
    queue,        \* DelayExecutor::queue_, the maps of the MapUpdateRequests
    qopen,        \* the ACE queue is activated
    activated,    \* DelayExecutor::activated_
    wpc,          \* where the world thread is
    asleep,       \* the world thread is inside m_condition.wait()
    todo,         \* base maps the loop of MapManager::Update still visits
    pc,           \* where each worker is
    cur,          \* the map of the request each worker runs
    kids,         \* instances the loop of MapInstanced::Update still visits
    live,         \* Map objects that exist
    done,         \* maps whose Update ran to its end in this tick (history)
    skipped       \* maps this tick decided not to update (history)

worldVars == <<wpc, asleep, todo>>
workerVars == <<pc, cur, kids>>
updaterVars == <<pending, queue, qopen, activated>>
mapVars == <<live, done, skipped>>
vars == <<updaterVars, worldVars, workerVars, mapVars>>

Maps == BaseMaps \cup Instances

(* Faulty variant: the loop walks every loaded map with the parent's id or *)
(* without a parent.                                                       *)
ChildrenOf_AnyMap(b) == {c \in live : c \in Instances => Parent[c] = b}

(* The instances a base map owns, m_InstancedMaps.                         *)
ChildrenOf(b) == {c \in live \cap Instances : Parent[c] = b}

(* The workers inside a request, and the maps queued and running.          *)
Busy == {w \in Workers : pc[w] \in {"map", "kids"}}
Queued == {queue[i] : i \in 1 .. Len(queue)}
Running == {cur[w] : w \in Busy}

(* DelayExecutor::start succeeded, or MapUpdate.Threads is 0.              *)
Init ==
    /\ activated \in BOOLEAN
    /\ pending = 0 /\ queue = <<>> /\ qopen = TRUE
    /\ wpc = "world" /\ asleep = FALSE /\ todo = {}
    /\ pc = [w \in Workers |-> IF activated THEN "idle" ELSE "exited"]
    /\ cur = [w \in Workers |-> NoMap]
    /\ kids = [w \in Workers |-> {}]
    /\ live = {} /\ done = {} /\ skipped = {}

-----------------------------------------------------------------------------
(* ACE_Activation_Queue::enqueue with a zero timeout: refused when the     *)
(* queue is deactivated or full.                                           *)
Enqueues == qopen /\ Len(queue) < QueueLimit

(* Faulty variant: the counter is not taken back when enqueue fails.       *)
schedule_update_NoRollback(m) ==
    /\ pending' = pending + 1
    /\ IF Enqueues THEN queue' = Append(queue, m) /\ UNCHANGED skipped
                   ELSE skipped' = skipped \cup {m} /\ UNCHANGED queue

(* MapUpdater::schedule_update, one critical section of m_mutex: the       *)
(* counter is raised before the request is visible to a worker, and taken  *)
(* back when the queue refuses it.                                         *)
schedule_update(m) ==
    \/ /\ Enqueues
       /\ queue' = Append(queue, m)
       /\ pending' = pending + 1
       /\ UNCHANGED skipped
    \/ /\ ~Enqueues
       /\ pending' = (pending + 1) - 1
       /\ skipped' = skipped \cup {m}
       /\ UNCHANGED queue

-----------------------------------------------------------------------------
(* The world thread.                                                       *)

(* MapManager::CreateBaseMap outside MapManager::Update (logins,           *)
(* teleports, game events...).                                             *)
CreateBaseMap(b) ==
    /\ wpc = "world" /\ b \in BaseMaps \ live
    /\ live' = live \cup {b}
    /\ UNCHANGED <<updaterVars, worldVars, workerVars, done, skipped>>

(* MapInstanced::CreateInstance and CreateBattleground.                    *)
CreateInstance(c) ==
    /\ wpc = "world" /\ c \in Instances \ live /\ Parent[c] \in live
    /\ live' = live \cup {c}
    /\ UNCHANGED <<updaterVars, worldVars, workerVars, done, skipped>>

(* MapManager::Update when i_timer has passed.                             *)
BeginUpdate ==
    /\ wpc = "world"
    /\ wpc' = "schedule" /\ todo' = live \cap BaseMaps
    /\ done' = {} /\ skipped' = {}
    /\ UNCHANGED <<updaterVars, asleep, workerVars, live>>

(* What the iterator of that loop can still visit once the base maps of L  *)
(* were inserted into i_maps, a std::unordered_map, under it: when the     *)
(* insertion rehashes, the nodes are linked in a new order, so visited     *)
(* maps can come again and others can be left behind.                      *)
LoopAfterInsert(rest, L) ==
    IF L = {} \/ wpc # "schedule" THEN {rest}
                                  ELSE SUBSET ((live \cap BaseMaps) \cup L)

(* One turn of its loop with an activated updater.                         *)
ScheduleBase(b) ==
    /\ wpc = "schedule" /\ activated /\ b \in todo
    /\ schedule_update(b)
    /\ todo' = todo \ {b}
    /\ UNCHANGED <<qopen, activated, wpc, asleep, workerVars, live, done>>

(* The same turn without threads: Map::Update in line, and for each        *)
(* instance MapInstanced::Update destroys it (D), fails to because players *)
(* are still inside (K), or updates it in line.  L: see                    *)
(* CreateBaseMapInUpdate.                                                  *)
UpdateInline(b) ==
    /\ wpc = "schedule" /\ ~activated /\ b \in todo
    /\ \E D \in SUBSET ChildrenOf(b), L \in SUBSET (LateMaps \ live) :
       \E K \in SUBSET (ChildrenOf(b) \ D) :
          /\ live' = (live \ D) \cup L
          /\ skipped' = skipped \cup K
          /\ done' = done \cup {b} \cup (ChildrenOf(b) \ (D \cup K))
          /\ todo' \in LoopAfterInsert(todo \ {b}, L)
    /\ UNCHANGED <<updaterVars, wpc, asleep, workerVars>>

(* The loop ends; m_updater.wait() only when the updater is activated.     *)
EndSchedule ==
    /\ wpc = "schedule" /\ todo = {}
    /\ wpc' = IF activated THEN "wait" ELSE "delayed"
    /\ UNCHANGED <<updaterVars, asleep, todo, workerVars, mapVars>>

(* Faulty variant: wait for an empty queue instead of finished requests.   *)
waitTest_QueueEmpty(next) ==
    /\ ~asleep
    /\ IF queue # <<>> THEN asleep' = TRUE /\ UNCHANGED wpc
                       ELSE wpc' = next /\ UNCHANGED asleep

(* MapUpdater::wait: the test of the while loop, under m_mutex.  Going to  *)
(* sleep releases m_mutex, so no broadcast falls between the two.          *)
waitTest(next) ==
    /\ ~asleep
    /\ IF pending > 0 THEN asleep' = TRUE /\ UNCHANGED wpc
                      ELSE wpc' = next /\ UNCHANGED asleep

WaitUpdate ==
    /\ wpc = "wait" /\ waitTest("delayed")
    /\ UNCHANGED <<updaterVars, todo, workerVars, mapVars>>

WaitUnload ==
    /\ wpc = "unload" /\ waitTest("deactivate")
    /\ UNCHANGED <<updaterVars, todo, workerVars, mapVars>>

(* A condition variable may wake its waiter without a broadcast.           *)
SpuriousWakeup ==
    /\ asleep /\ asleep' = FALSE
    /\ UNCHANGED <<updaterVars, wpc, todo, workerVars, mapVars>>

(* Map::DelayedUpdate of every map, the rest of MapManager::Update.        *)
DelayedUpdate ==
    /\ wpc = "delayed" /\ wpc' = "world"
    /\ UNCHANGED <<updaterVars, asleep, todo, workerVars, mapVars>>

(* MapManager::UnloadAll after WorldRunnable::run has left its loop: every *)
(* map is deleted before the updater is asked to finish.                   *)
UnloadAll ==
    /\ wpc = "world" /\ live' = {}
    /\ wpc' = IF activated THEN "unload" ELSE "down"
    /\ UNCHANGED <<updaterVars, asleep, todo, workerVars, done, skipped>>

(* Faulty variant: the queue is left active, so dequeue never returns.     *)
Deactivate_QueueActive ==
    /\ wpc = "deactivate" /\ wpc' = "join"
    /\ activated' = FALSE
    /\ UNCHANGED <<pending, queue, qopen, asleep, todo, workerVars, mapVars>>

(* DelayExecutor::deactivate up to the join of its threads.                *)
Deactivate ==
    /\ wpc = "deactivate" /\ wpc' = "join"
    /\ activated' = FALSE /\ qopen' = FALSE
    /\ UNCHANGED <<pending, queue, asleep, todo, workerVars, mapVars>>

(* ACE_Task_Base::wait.                                                    *)
Join ==
    /\ wpc = "join" /\ \A w \in Workers : pc[w] = "exited"
    /\ wpc' = "down"
    /\ UNCHANGED <<updaterVars, asleep, todo, workerVars, mapVars>>

-----------------------------------------------------------------------------
(* The threads of DelayExecutor.                                           *)

(* DelayExecutor::svc, a request is there.                                 *)
Dequeue(w) ==
    /\ pc[w] = "idle" /\ qopen /\ queue # <<>>
    /\ queue' = Tail(queue)
    /\ pc' = [pc EXCEPT ![w] = "map"]
    /\ cur' = [cur EXCEPT ![w] = Head(queue)]
    /\ UNCHANGED <<pending, qopen, activated, worldVars, kids, mapVars>>

(* DelayExecutor::svc, the queue was deactivated: dequeue returns NULL     *)
(* whatever the queue holds.                                               *)
Exit(w) ==
    /\ pc[w] = "idle" /\ ~qopen
    /\ pc' = [pc EXCEPT ![w] = "exited"]
    /\ UNCHANGED <<updaterVars, worldVars, cur, kids, mapVars>>

(* MapManager::CreateBaseMap called by the code of a map update (area      *)
(* lookups, pools, terrain swaps).  Its Lock does not cover the loop of    *)
(* MapManager::Update.                                                     *)
CreateBaseMapInUpdate(w, b) ==
    /\ pc[w] = "map" /\ b \in LateMaps \ live
    /\ live' = live \cup {b}
    /\ todo' \in LoopAfterInsert(todo, {b})
    /\ UNCHANGED <<updaterVars, wpc, asleep, workerVars, done, skipped>>

(* Map::Update returns; MapInstanced::Update starts on its instances.      *)
FinishMap(w) ==
    /\ pc[w] = "map"
    /\ pc' = [pc EXCEPT ![w] = "kids"]
    /\ kids' = [kids EXCEPT ![w] = ChildrenOf(cur[w])]
    /\ done' = done \cup {cur[w]}
    /\ UNCHANGED <<updaterVars, worldVars, cur, live, skipped>>

(* Faulty variant: the instance is scheduled before CanUnload is asked, so *)
(* it may be destroyed as well.                                            *)
ScheduleInstance_BeforeUnloadTest(w, c) ==
    /\ pc[w] = "kids" /\ c \in kids[w] /\ c \notin Queued
    /\ schedule_update(c)
    /\ UNCHANGED <<qopen, activated, worldVars, workerVars, live, done>>

(* One turn of the loop of MapInstanced::Update, CanUnload is false.       *)
ScheduleInstance(w, c) ==
    /\ pc[w] = "kids" /\ c \in kids[w]
    /\ schedule_update(c)
    /\ kids' = [kids EXCEPT ![w] = @ \ {c}]
    /\ UNCHANGED <<qopen, activated, worldVars, pc, cur, live, done>>

(* Faulty variant: the loop goes one further although erase(itr++) of a    *)
(* destroyed instance has already done so; the one after it is left out.   *)
DestroyInstance_SkipsNext(w, c) ==
    /\ pc[w] = "kids" /\ c \in kids[w]
    /\ \/ /\ live' = live \ {c} /\ UNCHANGED skipped
          /\ \E d \in kids[w] : kids' = [kids EXCEPT ![w] = @ \ {c, d}]
       \/ /\ skipped' = skipped \cup {c} /\ UNCHANGED live
          /\ kids' = [kids EXCEPT ![w] = @ \ {c}]
    /\ UNCHANGED <<updaterVars, worldVars, pc, cur, done>>

(* CanUnload is true: MapInstanced::DestroyInstance deletes the map, or    *)
(* keeps it, not updated, because HavePlayers.                             *)
DestroyInstance(w, c) ==
    /\ pc[w] = "kids" /\ c \in kids[w]
    /\ \/ live' = live \ {c} /\ UNCHANGED skipped
       \/ skipped' = skipped \cup {c} /\ UNCHANGED live
    /\ kids' = [kids EXCEPT ![w] = @ \ {c}]
    /\ UNCHANGED <<updaterVars, worldVars, pc, cur, done>>

(* Faulty variant: no broadcast.                                           *)
UpdateFinished_NoBroadcast(w) ==
    /\ pc[w] = "kids" /\ kids[w] = {}
    /\ pc' = [pc EXCEPT ![w] = "idle"]
    /\ cur' = [cur EXCEPT ![w] = NoMap]
    /\ pending' = IF pending = 0 THEN 0 ELSE pending - 1
    /\ UNCHANGED <<queue, qopen, activated, worldVars, kids, mapVars>>

(* MapUpdater::update_finished, one critical section of m_mutex; a zero    *)
(* counter is reported and left alone.                                     *)
UpdateFinished(w) ==
    /\ pc[w] = "kids" /\ kids[w] = {}
    /\ pc' = [pc EXCEPT ![w] = "idle"]
    /\ cur' = [cur EXCEPT ![w] = NoMap]
    /\ IF pending = 0 THEN UNCHANGED <<pending, asleep>>
                      ELSE pending' = pending - 1 /\ asleep' = FALSE
    /\ UNCHANGED <<queue, qopen, activated, wpc, todo, kids, mapVars>>

-----------------------------------------------------------------------------
WorldStep ==
    \/ \E b \in BaseMaps : ScheduleBase(b)
    \/ \E b \in BaseMaps : UpdateInline(b)
    \/ EndSchedule \/ WaitUpdate \/ DelayedUpdate
    \/ WaitUnload \/ Deactivate \/ Join

WorkerStep(w) ==
    \/ Dequeue(w) \/ Exit(w) \/ FinishMap(w) \/ UpdateFinished(w)
    \/ \E c \in Instances : ScheduleInstance(w, c) \/ DestroyInstance(w, c)

(* What the players, the timer and the administrator decide.               *)
Environment ==
    \/ \E b \in BaseMaps : CreateBaseMap(b)
    \/ \E c \in Instances : CreateInstance(c)
    \/ BeginUpdate \/ UnloadAll \/ SpuriousWakeup
    \/ \E w \in Workers, b \in LateMaps : CreateBaseMapInUpdate(w, b)

Terminated == wpc = "down" /\ UNCHANGED vars

Next ==
    \/ WorldStep
    \/ \E w \in Workers : WorkerStep(w)
    \/ Environment
    \/ Terminated

(* The operating system runs every thread that can run, and no map update  *)
(* loops for ever; nothing is owed by the environment.                     *)
Fairness == WF_vars(WorldStep) /\ \A w \in Workers : WF_vars(WorkerStep(w))

Spec == Init /\ [][Next]_vars /\ Fairness

-----------------------------------------------------------------------------
(* The state of the updater, the world thread and the workers has its      *)
(* types: an instance loop only ever holds instances, the scheduling loop  *)
(* only base maps.                                                         *)
TypeOK ==
    /\ pending \in Nat
    /\ queue \in Seq(Maps)
    /\ qopen \in BOOLEAN /\ activated \in BOOLEAN /\ asleep \in BOOLEAN
    /\ wpc \in {"world", "schedule", "wait", "delayed", "unload",
                "deactivate", "join", "down"}
    /\ todo \in SUBSET BaseMaps
    /\ pc \in [Workers -> {"idle", "map", "kids", "exited"}]
    /\ cur \in [Workers -> Maps \cup {NoMap}]
    /\ kids \in [Workers -> SUBSET Instances]
    /\ live \in SUBSET Maps /\ done \in SUBSET Maps /\ skipped \in SUBSET Maps

(* The counter of MapUpdater is exact: it counts the requests in the queue *)
(* and the ones a worker is inside, so update_finished never meets the     *)
(* zero it reports as a bug, and wait() never returns early.               *)
PendingExact == pending = Len(queue) + Cardinality(Busy)

(* MapUpdater::wait is a barrier: whatever the world thread does outside   *)
(* the scheduling loop and the wait (sessions, delayed updates, unloading, *)
(* the deletion of every map) runs with no map update queued or running.   *)
Barrier ==
    wpc \notin {"schedule", "wait"} => queue = <<>> /\ Busy = {}

(* No Map object is updated by two threads at once or queued for a second  *)
(* update of the same tick, and none is deleted (DestroyInstance) while a  *)
(* request for it is queued or running.                                    *)
ExclusiveUpdates ==
    /\ \A i, j \in 1 .. Len(queue) : queue[i] = queue[j] => i = j
    /\ \A v, w \in Busy : cur[v] = cur[w] => v = w
    /\ Queued \cap (Running \cup done) = {}
    /\ Queued \cup Running \subseteq live

(* A tick ends: schedule_update, wait and update_finished lose no wakeup   *)
(* and MapManager::Update returns to the world loop.                       *)
TickEnds == wpc = "schedule" ~> wpc = "world"

(* Shutdown ends: once UnloadAll has deleted the maps, every worker leaves *)
(* svc() and the world thread gets past the join.                          *)
ShutdownCompletes == wpc = "unload" ~> wpc = "down"

(* The promise of the whole, stated in MapTick.                            *)
phase ==
    CASE wpc = "world" -> "world"
      [] wpc \in {"schedule", "wait"} -> "updating"
      [] wpc = "delayed" -> "settled"
      [] OTHER -> "down"

Tick == INSTANCE MapTick WITH updated <- done, missed <- skipped

(* Every tick updates every map at most once, destroys no instance it has  *)
(* updated or is going to update, and leaves out only maps it chose to.    *)
ImplementsTick == Tick!TickSpec
=============================================================================
