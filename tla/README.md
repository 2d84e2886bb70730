# Verification of Project Neltharion's server core

TLA+ models, TLC runs and TLAPS proofs for the parts of the server
(`src/source/src/server`, a TrinityCore 4.3.4 fork in C++) that decide *when*
and *in which order* things happen: the threads that update the maps, the ids
and lockouts of dungeon instances, the sessions and the login queue, the trade
between two players, and the pool through which every change reaches the
database. The content of the game (spells, scripts, quests) is
data to these parts and is not modelled.

Contents: inventory · modules and runs · proofs · findings · limits · plan

## 1. Inventory

Paths are below `src/source/src/server/`.

| Component | State it keeps | Operations | Interacts with | Correct when |
|---|---|---|---|---|
| **Map updater** (`game/Maps/MapUpdater`, `shared/Threading/DelayExecutor`) | `pending_requests`, `m_mutex`, `m_condition`, ACE request queue, `activated_` | `schedule_update`, `wait`, `update_finished`, `activate`, `deactivate`; `svc` on each thread | called by the world thread and by its own workers; runs `Map::Update` | the counter is exact, `wait` is a barrier, no wakeup is lost, shutdown ends |
| **Map manager** (`game/Maps/MapManager`) | `i_maps`, timer | `Update`, `CreateBaseMap`, `UnloadAll` | world loop; map updates call back into `CreateBaseMap` | a tick updates each map at most once and ends before the world goes on |
| **Instance maps** (`MapInstanced`, `InstanceMap`) | `m_InstancedMaps`, unload timer, player references | `CreateInstanceForPlayer`, `Update`, `DestroyInstance`, `AddPlayerToMap`, `RemovePlayerFromMap`, `Reset` | updater, saves, players | no map is deleted while it is updated or has players |
| **Instance ids** (`MapManager`) | `_nextInstanceId`, `_instanceIds` | `InitInstanceIds`, `RegisterInstanceId`, `GenerateInstanceId`, `FreeInstanceId` | saves, battlegrounds | an id in use is never handed out; ids are reused from the bottom |
| **Instance saves** (`game/Instances/InstanceSaveMgr`, `Player`) | saves, binds, reset queue; tables `instance`, `character_instance`, `characters` | `AddInstanceSave`, `UnloadIfEmpty`, `ScheduleReset`, `Update`/`_ResetInstance`, `LoadInstances`, `LoadResetTimes`; login, logout, teleport, `ResetInstances` | ids, instance maps, database | a bind points to a save, a stored lockout keeps its id and has a reset coming |
| **Database pool** (`shared/Database`) | activation queue, connections with a mutex or a thread each | `Execute`, `AsyncQuery`, `CommitTransaction`, `DirectCommitTransaction`, `Close`; `svc`; `ExecuteTransaction`, `_HandleMySQLErrno` | every component; the MySQL server | transactions are atomic, outcomes are honest, order is kept, every future is set |
| **World sessions, login queue** (`game/World`, `game/Server`) | `m_sessions`, `m_QueuedPlayer`, `m_disconnects`, `addSessQueue`, `m_playerLimit`; per session `m_inQueue`, its queries, its socket, its player | `AddSession`, `AddSession_`, `AddQueuedPlayer`, `RemoveQueuedPlayer`, `UpdateSessions`, `InitializeSession`, `KickAll`, `SetPlayerAmountLimit` | network threads, world loop, login database | the queue names living sessions only, nobody waits while there is room or for ever, nobody is overtaken, everyone is saved at the end |
| **Trade** (`game/Handlers/TradeHandler`, `Player`) | a `TradeData` per player: partner, item GUIDs, money, spell, acceptance; inventories and money | initiate, set and clear item, gold, spell, accept, unaccept, cancel; `moveItems`, `ModifyMoney` | inventories, spells, logout, database | the two sides agree, an acceptance stands for what was seen, items and money are conserved |
| Dungeon finder, battleground queue, groups and loot rolls, auction house and mail, authserver, threat lists, event processor | | | | not modelled |
| Entities, spells, AI, movement, achievements, guilds, calendar, collision, DBC stores, scripts, extractors | | | | not planned (rules over large data, geometry, file formats) |

What is hard here: the world thread and the `MapUpdate.Threads` workers share
maps with no lock of their own and rely on the barrier alone; workers
schedule work for each other; the condition variable and the full queue have
error paths that only a schedule reaches. Instances live in four places
(memory of a save, memory of a map, a queue of timed resets, database rows)
that are changed by different handlers, with players in transit between maps
and a server that may stop anywhere. Database operations cross a queue, a
thread and a connection that may be refused, deadlocked or lost half way.
Sockets close on network threads at any moment between the steps of a session
on the world thread, and a session that waits is named in two containers. A
trade is agreed on in many packets, while its items and money can go elsewhere
between any two of them.
`PROJECT.json` lists each of these hazards at its line with the properties
that watch it.

## 2. Modules and runs

```
MapTick           what a tick promises
   ^ refined by
MapUpdater        threads, queue, counter       EXTENDED by MCMapUpdater, MapUpdaterProofs
InstanceIds       id allocator                  EXTENDED by InstanceIdsProofs
   ^ INSTANCE'd by
InstanceSaves     saves, binds, resets, rows    EXTENDED by InstanceSavesProofs
DatabasePool      operations, connections       EXTENDED by DatabasePoolProofs
SessionQueue      sessions, login queue         EXTENDED by MCSessionQueue, SessionQueueProofs
Trade             TradeData, accept             EXTENDED by MCTrade, TradeProofs
                                                (and TradeItemsProofs, which extends it)
```

Operators whose name has an underscore suffix after a code name
(`waitTest_QueueEmpty`) are deliberately faulty variants of the definition
that follows them. No specification uses them; they show that the property
they are paired with in `PROJECT.json` notices such a bug.

### MapUpdater, MapTick

*State.* `pending`, `queue`, `qopen`, `activated` are the fields of MapUpdater
and DelayExecutor; `wpc`, `asleep`, `todo` say where the world thread is in
`MapManager::Update` or `UnloadAll`; `pc`, `cur`, `kids` where each worker is
in `svc`, `MapUpdateRequest::call` and `MapInstanced::Update`; `live` holds the
Map objects; `done` and `skipped` are history.

*Actions.* One per critical section of `m_mutex` and per step between them
that another thread can observe. `schedule_update` is one action with its
rollback, because it holds `m_mutex` throughout. `waitTest` is the test of the
`while` in `wait`; falling asleep releases the mutex, so it is one action with
the test. `SpuriousWakeup` is there because condition variables have it.
`UpdateInline` is the loop body when no threads are configured.
`CreateBaseMapInUpdate` is a map update that needs a base map that does not
exist: it inserts into `i_maps` while the world thread may be iterating, and
`LoopAfterInsert` lets the iterator continue anywhere, as a rehash of
`std::unordered_map` does.

*Abstract specification.* `MapTick` has neither threads nor counters: between
two runs of the world loop each map is updated at most once, an instance after
its base map, instances vanish instead of being updated, and the delayed
updates start when every map has been dealt with. `ImplementsTick` checks that
`MapUpdater` implements it with `updated <- done`, `missed <- skipped` and
`phase` computed from `wpc`.

*Runs.* `map_update`: two workers, three base maps, three instances of two of
them, a queue limit of two (so that requests are refused both in the loop of
the world thread and in the loop of a worker), no late maps. It checks the
counter (`PendingExact`), the barrier (`Barrier`), that no map is queued,
running or deleted twice over (`ExclusiveUpdates`), that ticks and shutdown end
(`TickEnds`, `ShutdownCompletes`) and the refinement. `map_update_late`: one
base map may be created by map updates. The barrier and progress still hold;
`ExclusiveUpdates` and the refinement do not (a rehash can make the loop
schedule a map twice, or miss it), which is why they are stated for the first
run only and the hazard is listed.

Two workers are enough for every race between workers, because no step looks
at more than one other thread; one base map with two instances and one with a
single one give destroy-while-running and schedule-while-waiting.

*Fairness.* Weak fairness of the world thread and of each worker: operating
system threads run, and no map update loops for ever. Nothing is assumed of
the environment (creation of maps, the timer, shutdown, spurious wakeups).

### InstanceIds

*State.* `next` (`_nextInstanceId`), `size`, `cap`, `bits` (the
`std::vector<bool>`) and the history variable `given`: ids handed out or
registered and not freed. `Word` is 32 in the code. The capacity the library
reserves is any whole number of words up to `MaxCap` above what is needed.
`LoadIds` stands for `InitInstanceIds` and the registration loop of
`LoadResetTimes`.

*A bit at or past `size`.* Writing it is undefined behaviour. The model takes
the outcome a release build has: the word lies in unused or foreign memory and
the bit is not there when the vector is asked or has grown.

*Runs.* `instance_ids` (`Word = 3`, ids up to 7, so that two word boundaries
are crossed, from every set of stored rows): next is the lowest free id
(`LowestAvailable`), freed ids are clear, and an id in use can be returned
again only at a word boundary (`OnlyWordMultiplesRepeat`).
`instance_ids_repeat` shows that at a word boundary it is (finding 1).

### InstanceSaves

One normal dungeon, players without a group. *State.* The allocator's
variables (`Alloc == INSTANCE InstanceIds`), and per player `online`, `holder`
(login queries under way and what they read), `ref` (the map the player's
reference is linked to), `tele` (far teleport pending), `bind`; in memory
`saves`, `maps`, `timer` (unload timers), `events` (pending resets per event
id) and `overdue` (stored instances the last start found past their reset time);
in the database `rows`, `lockRows`, `inDb`.

*Actions.* Login in two steps (query, load), because rows can change in
between; teleport in two steps (`TeleportTo`, the client's worldport
acknowledgement), because the reference stays linked meanwhile; logout, save,
`ResetInstances`, a reset that fires, a map that unloads, and `Restart`, which
loses the memory at any point and runs `LoadInstances`/`LoadResetTimes`: expired
rows are deleted, and of the others those whose reset time the latest respawn
plus two hours puts into the past keep their row and get no reset. The login
query is a LEFT JOIN with `instance`: a lock row whose instance is not stored
binds nothing and stays. Each action includes what its handler calls: leaving a map starts the unload
timer, schedules the reset and may delete the save.

*Abstractions.* Times are not kept: a scheduled reset may fire at any later
moment. Statements take effect at once and in order (`DatabasePool`, property
`InOrder`, is what justifies the order). `MaxEvents` bounds the events with
one id by disabling the steps that would exceed it.

*Run.* `instance_saves` (two players, two ids, event ids that do not wrap, at
most two events per id): no stored lockout has a free id (`StoredIdsInUse`),
no bind dangles (`BindHasSave`), the assertion of `AddPlayerToMap` holds for
as long as the player is inside (`SameSave`), an empty stored instance that is not
overdue has a reset coming (`StoredHasReset`), nobody is locked to two stored
instances (`OneLock`).
`instance_saves_cancel` and `instance_saves_login` are findings 2 and 3. Two
players are what the stale-event and login races need; a third id adds states
but no new order of events, since ids meet only in the allocator.

### DatabasePool

*State.* `queue`, `pool`; per connection `job`, `phase`, `pos`, `tries`,
`errno`, `down` (its handle is NULL); the server's `tx`, `unc`, `db`; `outcome`
per operation and the history variables `order` and `hit` (the faults an
operation met, and whether it found another one's transaction open).

*Actions.* One per statement sent, so that anything may happen between two
statements of a transaction. The server is external: it may refuse a
statement, choose it as a deadlock victim (which rolls the transaction back),
or lose the connection before or after executing the statement; `MaxFaults`
bounds these. `ControlRefused` is a refused START TRANSACTION, ROLLBACK or
COMMIT, whose results the code does not look at: the statements then run in
autocommit mode, or a transaction stays open, which the next START TRANSACTION on
that connection commits and in which a next single statement takes part.
`ConnectionLost` is `_HandleMySQLErrno` with a successful reconnect, which
repeats the one statement; `ReconnectFails` is the path where `Open()` fails,
for want of a server (`m_Mysql` stays NULL) or of a prepared statement (the
handle is good). `Crash` ends the process between any two steps.

*Run.* `database_pool` (one worker, as the default configuration has, one
synchronous connection, one statement, two queued and one direct transaction
of two statements, two faults): atomicity, honest outcomes, at-most-once,
order, and that each enqueued operation ends. The exemptions in these
properties are the cases in which the code does not deliver, listed as hazards:
`Torn` (the connection was lost, or the transaction's own START TRANSACTION or
ROLLBACK refused), a refused COMMIT, and a statement that ran inside another
operation's open transaction. Two faults include a fault in the
handling of a fault; two queued transactions and a statement give every
successor to a transaction that is left open.

*Fairness.* Weak fairness of each connection's thread while it has work: the
thread runs and the server answers, possibly with an error.

### SessionQueue

*State.* `addQ` (`addSessQueue`), `sess` (`m_sessions`), `queue`
(`m_QueuedPlayer`), `limit`, `disc` (the keys of `m_disconnects`); `todo`, the
accounts the current pass of `UpdateSessions` has still to visit; `stop`, how far
`WorldRunnable::run` is in shutting down. A session keeps `m_inQueue`, whether
the answer to `InitializeSession` is outstanding, whether its socket is open,
`forceExit`, and whether a character is loading or in the world. `raised` and
`lowered` are history: a change of the limit that has not been made up for yet.

*Actions.* `AuthSession`, `CloseNew` and `CloseSocket` are network threads and
happen at any time. `AddNext` (with all of `AddSession_`), `BeginPass` and the
`Update...` actions are the world thread: a pass visits every session once, in
any order. One visit can do several things; it is modelled as visits of several
passes, which reach the same states because a visit touches only its own session
unless it ends it. `UpdateEnd` calls `RemoveQueuedPlayer` twice, as the code
does. A player can log in only when an earlier visit has answered the list of
characters, so a session added in the last pass brings nobody in; that is why
`KickAll` followed by one pass is enough for `AllSaved`.

*Run.* `session_queue` (two ordinary accounts and one of the staff, limits none
and one, at most one session in `addQ`). The queue holds no deleted session and
none twice (`QueueExact`); whoever is marked as waiting is in the queue or about
to be let in (`NoStuckWaiter`), which matters because such a session never times
out; nobody plays while waiting, or after leaving the queue and before being let
in (`NoPlayInQueue`); no slot is left idle or given
away twice (`NoIdleSlot`, `NoOverfill`), where the staff inside takes slots, against
what the configuration file says (section 4); nobody is overtaken (`FirstCome`);
everybody has been saved when the server stops (`AllSaved`). Three accounts are
one inside, one first and one second in the queue; the same properties hold
with four accounts and with limits 0, 1 and 2, which take longer. The model may
stop (`CHECK_DEADLOCK FALSE`), because the server may. No fairness is assumed and
no liveness is stated: a client decides when, and whether, it leaves.

### Trade

*State.* `trade` (the `TradeData` of each player), `inv` (how many places of an
inventory hold an item), `gold`, `away` (items in mails, auctions and banks) and
the history `seen` (the two offers a player had before him when he accepted).

*Actions.* All trade packets are handled on the world thread
(`PROCESS_THREADUNSAFE`). `CMSG_CAST_SPELL` is `PROCESS_THREADSAFE`
(`Opcodes.cpp:146`), so a cast on the item in the trade window runs in a map
update, which the barrier of `MapUpdater` keeps apart from the handlers. So each
handler is one action, and what interleaves is handlers: the packets of both players, `CancelTrade` (also logout and flight),
`Spend`, `ItemLeaves` and `ItemComes`. `HandleAcceptTradeOpcode` is one action for
each of its ways out. Whether an item may be traded and whether a spell may be
cast depends on rules that are not modelled, so these refusals may happen
whenever they can (`AcceptRefused`, `AcceptNoSpell`). Handlers that change nothing
are stuttering steps. `moveItems` removes all items and then stores them slot by
slot: `MoveSlots` is its loop, a recursive function over the number of slots done,
`MoveSlot` one pass of it and `Return` its way back. `Used` and `GetItemCount`
count the places that items take.

*Run.* `trade` (three players; three tokens, of which nobody may have more than
two, and two other goods; bags of two, three and no places; two traded slots and
the one that is not; a maximum of two gold). The partner never dangles
(`TradeIsMutual`); an acceptance stands for the offers as they are now
(`AcceptanceCurrent`); a trade neither loses nor doubles items, and never touches
those that are not in its slots or belong to others (`ItemsKept`); it makes no
money (`GoldKept`), and what it completes it delivers (`Delivered`). The
exemptions state the cases in which the code does not do so (section 4).
Bounds: `MaxAway` items outside the inventories; the slot that is not traded is
filled for a partner who has a spell; nothing is followed up after an item has
been lost or doubled (`Intact`), because a clone has no identity in the model.
Two slots are what the swap of several items of a kind and of a full bag needs;
the third player is there to be a second partner. Both players are saved in one
transaction, whose atomicity is the subject of `DatabasePool`.

## 3. Proofs

Every proof follows one plan: an inductive invariant, checked with TLC on the
instance of the run before it was proved; one lemma per action, one step per
conjunct the action can disturb; the properties as consequences. Everything
holds for every value of the constants that the named `ASSUME`s allow, which
TLC evaluates in the runs. A few theorems have a hypothesis of their own, given
with them below.

**MapUpdaterProofs.** Any finite set of workers, any maps, any queue limit.
`CountInv` is `TypeOK`, `PendingExact`, `Barrier` and two facts that
make them inductive: without threads there are no requests
(`NoThreadsNoRequests`, because then nobody waits), and a worker inside a
request has a map (`RequestHasMap`). The barrier alone is not inductive: that
leaving `wait` with a zero counter means that nothing is queued or running
needs the exact count; the count needs finite cardinalities (`BusyAdd`,
`BusyRemove`). Theorems, late maps included: `TypeCorrect`, `PendingIsExact`,
`WaitIsBarrier`.
`TickInv`, on top of it, says where each map of a tick is: still in the loop of
the world thread or of a worker, queued, running, done or skipped, and in one of
these only; an instance gets anywhere only after its base map is done; nothing
is lost on the way. From it follow `UpdatesAreExclusive` and
`UpdaterImplementsTick`, the refinement of `MapTick`, step by step. Both assume
`LateMaps = {}`: no map update calls `CreateBaseMap`. The assumption is needed,
since an insertion into `i_maps` under the loop breaks both (run
`map_update_late`).

**InstanceIdsProofs.** Every word size above one and every capacity policy.
`IdInv` adds to `TypeOK`, `LowestAvailable` and
`FreedIdsAreClear` that the bit of `next` is clear (`NextClear`) and that an id
in use has its bit unless it is a whole number of words (`GivenHasBit`). The
arithmetic (`RoundUpFacts`, `WordGap`) is proved from integer division.
Theorems: `IdTypes`, `NextIsLowest`, `FreedIsClear`, and `RepeatsOnlyAtWords`,
which says that the sizing rule of finding 1 is the only way the allocator can
go wrong.

**InstanceSavesProofs.** Any finite set of players, any number of ids and pending
events. `SavesInv` is `TypeOK`, `StoredIdsInUse`, `BindHasSave`, `SameSave` and
`Linked` (whoever is linked to a map is linked to one that exists, and a player
on the way in to none). Theorems: `SavesTypes`, `LockoutsKeepTheirIds`,
`BindsDoNotDangle`, `BoundPlayersAreInTheirSave`.
`OneLockout` needs `LocksKnown` on top of it: the lock rows of a player are for ids
in use, and the one whose instance is stored is the bind of an online player and
among what a login under way has read. Between query and load a reset may delete
the row, so the login knows the row or more, never less. A lock row without its
instance row may stay behind; that it does not come to be backed by the
instance of somebody else depends on the allocator, so the theorem has the
hypothesis `[]Alloc!NextUnused`: no id in use is given out, which is what finding 1
can break.
`LockoutsExpire` (a stored instance without players has its reset
pending, unless it was overdue at the start) is proved from a stronger
invariant, `StoredScheduled`: *every* stored instance that is not overdue has one,
occupied or not, which is the other side of finding 2. It
assumes `MaxId < EventIds`, i.e. ids below 2^16: two ids that share
the 16 bits of `InstResetEvent::instanceId` take each other's events, and with
three ids and two event ids TLC finds the property violated.

**DatabasePoolProofs.** Any workers, synchronous connections, operations,
statements and faults. The properties speak of what is durable, so they are not
inductive: nothing in them says what a connection that is about to COMMIT has
open. `PoolInv` has three parts more. `ConnOK`: a connection works for one
operation that is not over, and, unless that one is torn, what it has open is
exactly the statements before `pos`, with nothing durable yet (`Paced`, `InHand`).
`OpInv`: what a finished operation has made durable agrees with its report, and
what is open on a connection is of the operation in hand or was left there by one
that is over (`Left`): a torn one, or the whole of one that reported success; so a
later START TRANSACTION that commits it tears nothing. `Accounted`: the queue names an operation once, no two connections
have the same one, and one that has not been started is with none and has left
no trace. Each
action is described by the values it sets (`Sets`, `Typed`, `GoodConn`, `GoodOp`), and
`OpStep` shows once that such a step keeps the invariant. Theorems: `PoolTypes`,
`TransactionsAreAtomic`, `ReportsAreTrue`, `EffectsAreSingle`; `RetryIsDeadCode`
turns finding 4 into a theorem: whatever the server answers, no transaction is
executed twice. `EffectsAreInOrder` needs `OrderInv`: with one worker there is a
frontier in the order of the calls: what the worker has in hand is at it, what
is queued is behind it in order, and nothing behind it is durable or open; what
is open on the worker's connection comes after what is durable.

**SessionQueueProofs.** Any finite set of accounts, any staff, any limits.
`SessionInv` is `TypeOK`, `QueueExact`, `NoStuckWaiter`, `NoOverfill`,
`IdleOnlyRaised` (`NoIdleSlot` also during shutdown), `WaitersDontPlay` (whoever
is marked as waiting has no character, let in or not) and `ShutdownOrder` (from
`KickAll` on, whoever may have a player in the world is kicked and still to be
visited). The work lies in `RemoveQueuedPlayer`, of which `UpdateEnd` makes two
calls: lemmas count who is inside before and after, and show that it lets in the
first of the queue or nobody. Theorems: `SessionTypes`, `QueueIsExact`,
`NobodyIsStuck`, `NobodyPlaysWaiting`, `NoSlotIsIdle`, `NoSlotIsSharedOut`,
`ShutdownSavesAll` and the action property `NobodyIsOvertaken`.

**TradeProofs.** Any finite sets of players and items, any number of slots.
`TradeInv` is `TradeIsMutual`, `AcceptanceCurrent`, the types of windows and
money, and `AcceptedIsTrading` (no acceptance outlives its trade, or the next
trade would begin with it). Theorems: `TradesAreMutual`, `AcceptancesAreCurrent`
and the action property `TradesKeepGold`.

**TradeItemsProofs.** Also any inventories that fit their places at the start.
`ItemsInv` adds to `TradeInv` that every inventory fits and that an item is in one
slot of a window at most (`AllInOneSlot`). The second fact is what `moveItems`
relies on without looking: removal takes an item named twice out once, and the
loop would store it twice. The argument about a completed trade has four parts.
*Counting*: one more item takes one more place, fewer items take no more
(`OneMorePlace`, `PlacesMonotone`). *The loop*: `MoveSlotsLoop` shows that the
recursive function obeys its own equation; claims about it are proved for the
least number of slots for which they would fail (`LeastNumber`, from the
well-foundedness of the numbers), since the induction theorems of the library
take an operator that the provers cannot instantiate. *Safety*: whatever is
refused or returned, a pass of the loop overfills no inventory and touches
nothing but the two items of its slot (`MoveSlotFits`, `MoveSlotsSafe`).
*Delivery*: after n slots each player has what he kept and the first n items of
the other, so his free places are those that `CanStoreItems` counted less n, and
the next item finds one (`CanStoreNext`, `MoveSlotsExchange`); for the maximum of
a kind this needs `WithinMaxCount`, which the code does not test. Theorems:
`TradeTypes`, and the action properties `TradesKeepItems` and `TradesDeliver`.

**Only model-checked.** Liveness (`TickEnds`, `ShutdownCompletes`,
`EveryOperationEnds`), which the prover does not do under fairness, and the
findings, whose properties are false. Every safety property of a passing run is
a theorem.

## 4. Findings

1. `instance_ids_repeat`: with a largest stored id of 32 (64, ...) the bit
   vector is one bit too short and the id is handed out again while in use
   (`MapManager.cpp:469`, also `:531`).
2. `instance_saves_cancel`: entering a normal dungeon does not cancel its reset,
   because the player is already linked when `HavePlayers()` is asked
   (`Map.cpp:3173`); the reset can fire with the player inside.
3. `instance_saves_login`: `CheckInstanceLoginValid` counts the player himself
   (`Player.cpp:21901`), so a solo login inside a dungeon is always ported out.
4. `database_pool_deadlock`: the retry of deadlocked transactions is dead code,
   because ROLLBACK resets the error number (`Transaction.cpp:80`,
   `DatabaseWorkerPool.h:422`).
5. `database_pool_close`: `Close()` flushes the queue instead of draining it
   (`DatabaseWorkerPool.h:112`).

Seen while modelling, without a run of their own; where a property meets one of
them it names it as an exemption:

- `CanStoreItems` compares each item alone with the maximum of its kind, so a
  trade of two of a kind to somebody who may take one more passes the test and
  the second is refused in `moveItems`. The way back ("return the already removed
  items to the original owner", `TradeHandler.cpp:252`) then uses a list of
  destinations that still holds the place found for the item of the other side:
  the item is stored twice, or, with a single free place, not at all. The states
  are in the `trade` run; `ItemsKept` and `Delivered` exempt them
  (`WithinMaxCount`). With three or more slots the clone can take the place that
  was counted for an item of a later slot, which is then lost although its kind
  has no maximum; so the exemption covers every item of such a trade, not only
  those with a maximum.
- Money that would take the receiver to `MAX_MONEY_AMOUNT` is refused after the
  payer has paid, and is gone (`GoldKept`).
- A trade refused because of an item leaves the acceptance in place, although
  the comment at `TradeHandler.cpp:337` speaks of an undo.
- A raised player limit does not drain the login queue: those who wait are let in
  one for one as others leave, and newcomers take the new room before them
  (`NoIdleSlot`, `FirstCome` up to `raised`).
- `HasRecentlyDisconnected` (`World.cpp:313`) takes the times in the wrong order,
  so the tolerance never runs out; the model has it so.
- `worldserver/worldserver.conf.dist:177` says of `PlayerLimit` "Maximum number of
  players in the world. Excluding Mods, GMs and Admins."; `AddSession_` compares
  the count of all sessions with it (`World.cpp:273`). Staff does not wait, but it
  is counted: with a limit of one and a game master inside, a player waits.
  `NoIdleSlot` has the staff as a term of its own; without that term TLC finds the
  property violated.
- The results of START TRANSACTION, ROLLBACK and COMMIT are not looked at
  (`MySQLConnection.cpp:344-357`). A refused START TRANSACTION followed by a refused
  statement leaves half a transaction; a transaction that could not be rolled back
  is committed by the next START TRANSACTION on the connection (`Torn`).
- A bind that was loaded from a row deleted meanwhile recreates the save of a free
  id. When the id goes to somebody else, the lock row of the first player has no
  instance row; a login neither binds nor deletes it (`Player.cpp:21489-21524`), and
  the next entry adds a second one. `OneLock` counts those with an instance.
- `LoadResetTimes` may move the reset time of a stored instance into the past and
  then schedules nothing for it (`InstanceSaveMgr.cpp:364-383`): the lockout stays
  until a player resets it or logs out inside, or the server starts again
  (`overdue`). The loop
  there advances `result` instead of `result2` (`InstanceSaveMgr.cpp:379`), so only
  the first row of respawn times is ever used; the model lets any stored instance
  be overdue.

## 5. Limits

Groups, raid and heroic lockouts, LFG binds, game masters and battlegrounds
are outside `InstanceSaves`; `_ResetOrWarnAll` with them. `CreateBaseMap` is one
action although it looks up before it locks. A `SQLQueryHolder` is one
statement in `DatabasePool`, and an empty transaction is left out. The
clean-up of a transaction's statements and all memory management are left out; so
are the prepared statements themselves, which a failed `PrepareStatements` leaves
without their connection.
`SessionQueue` leaves out the packet queues and their filters, the throttling of
packets, and the error path of `InitializeSession`, which no caller reaches; the
`kick` commands are a closed socket. `Trade` leaves out stacks, the special bags,
the limits over categories of items (`ItemLimitCategory`,
`Player.cpp:12526-12547`) and the effect of a spell cast on completion.

Not modelled: the auction house, mail, groups, the dungeon finder, battlegrounds
and the authserver are state machines within TLC's reach and stay open (section
6). Entities, spells, AI, movement, quests, achievements, collision, extractors
and scripts are rules over large data, geometry or file formats, with little
state of their own whose order matters; vendored libraries under `dep/` are not
this program.

## 6. Plan

1. Auctions and mail, as `Trade` was done, over `DatabasePool`; group loot rolls.
2. `InstanceSaves` with groups, permanent binds and the global reset, and the
   battlegrounds that share the id allocator.
3. `BattlegroundQueue` and the dungeon finder: invitations, proposals, expiry.
