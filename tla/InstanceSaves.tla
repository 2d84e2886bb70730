---------------------------- MODULE InstanceSaves ----------------------------
(***************************************************************************)
(* The life of the instances of one normal (5 player, non-heroic) dungeon: *)
(* the InstanceSaves of InstanceSaveManager, the binds of players without  *)
(* a group, the InstanceMaps of MapInstanced, the reset queue, and the     *)
(* rows of the character database that survive a restart.                  *)
(*                                                                         *)
(* A player's MapReference is linked to the map before AddPlayerToMap and  *)
(* is unlinked only when a far teleport is acknowledged, so HavePlayers()  *)
(* also counts players in transit.  Times are not kept: a scheduled reset  *)
(* may fire at any later moment.  Statements reach the database at once.   *)
(***************************************************************************)
EXTENDS Naturals, FiniteSets

CONSTANTS
    Players,      \* characters, none of them in a group or a game master
    Word, MaxId, MaxCap,   \* parameters of the id allocator
    EventIds,     \* 2^16: InstResetEvent::instanceId is a uint16
    MaxEvents     \* bound: pending resets with the same id

ASSUME SavesAssumption ==
    /\ IsFiniteSet(Players) /\ EventIds \in Nat \ {0} /\ MaxEvents \in Nat
    /\ Word \in Nat /\ Word > 1 /\ MaxId \in Nat /\ MaxCap \in Nat

VARIABLES
    next, size, cap, bits, given,   \* the allocator of MapManager
    online,       \* players whose Player object is in a session
    holder,       \* login queries under way, with the lock rows they read
    ref,          \* the InstanceMap a player's MapReference is linked to
    tele,         \* the far teleport a player is in
    bind,         \* m_boundInstances: the bound save of an online player
    saves,        \* keys of m_instanceSaveById
    maps,         \* keys of m_InstancedMaps
    timer,        \* maps whose m_unloadTimer runs
    events,       \* m_resetTimeQueue: pending type 0 events per event id
    overdue,      \* stored instances whose reset time had passed when the
                  \* server started, and that have no reset scheduled since
    rows,         \* ids in table instance
    lockRows,     \* table character_instance
    inDb          \* players whose row in table characters is in the dungeon

Alloc == INSTANCE InstanceIds

idVars == <<next, size, cap, bits, given>>
playerVars == <<online, holder, ref, tele, bind>>
memVars == <<saves, maps, timer, events, overdue>>
dbVars == <<rows, lockRows, inDb>>
vars == <<idVars, playerVars, memVars, dbVars>>

NoId == 0
Ids == 1 .. MaxId
EventId(i) == i % EventIds

Inside(i, r) == {p \in Players : r[p] = i}
HavePlayers(i, r) == Inside(i, r) # {}

-----------------------------------------------------------------------------
(* InstanceSaveManager::ScheduleReset for event e: cancelling removes one  *)
(* event with that id, or none if there is none.                           *)
ScheduleReset(on, i, ev) ==
    [ev EXCEPT ![EventId(i)] = IF on THEN @ + 1 ELSE IF @ = 0 THEN 0 ELSE @ - 1]

(* InstanceMap::SetResetSchedule with references r and saves sv.           *)
SetResetSchedule(on, i, r, sv, ev) ==
    IF HavePlayers(i, r) \/ i \notin sv THEN ev ELSE ScheduleReset(on, i, ev)

(* Faulty variant: a save goes as soon as nobody is inside its map.        *)
UnloadIfEmpty_IgnoresBinds(i, b, r, sv) ==
    IF HavePlayers(i, r) THEN sv ELSE sv \ {i}

(* InstanceSave::UnloadIfEmpty (with RemoveInstanceSave): the save goes    *)
(* when no online player is bound to it and no player is in its map.       *)
UnloadIfEmpty(i, b, r, sv) ==
    IF HavePlayers(i, r) \/ \E p \in Players : b[p] = i THEN sv ELSE sv \ {i}

(* Faulty variant: every entry generates a new instance.                   *)
CreateInstanceForPlayer_AlwaysNew(b, i) ==
    /\ Alloc!GenerateInstanceId(i)
    /\ maps' = maps \cup {i}

(* MapInstanced::CreateInstanceForPlayer for a player whose bind is b: the *)
(* bound instance, or a newly generated id; the map is found or created.   *)
CreateInstanceForPlayer(b, i) ==
    /\ \/ b # NoId /\ i = b /\ UNCHANGED idVars
       \/ b = NoId /\ Alloc!GenerateInstanceId(i)
    /\ maps' = maps \cup {i}

(* Faulty variant: a new save is not scheduled for its reset.              *)
AddPlayerToMap_NoSchedule(p, i, r, b, sv) ==
    /\ events' = SetResetSchedule(FALSE, i, r, sv \cup {i}, events)
    /\ saves' = sv \cup {i}
    /\ rows' = IF i \in sv THEN rows ELSE rows \cup {i}
    /\ bind' = [b EXCEPT ![p] = IF @ = NoId THEN i ELSE @]
    /\ lockRows' = [lockRows EXCEPT ![p] = IF b[p] = NoId THEN @ \cup {i} ELSE @]

(* InstanceMap::AddPlayerToMap, with the binds b and saves sv found when   *)
(* it runs and the references r, p's included: a save is created, stored   *)
(* and scheduled if there is none, and an unbound player is bound to it.   *)
AddPlayerToMap(p, i, r, b, sv) ==
    LET ev == IF i \in sv THEN events ELSE ScheduleReset(TRUE, i, events)
    IN  /\ events' = SetResetSchedule(FALSE, i, r, sv \cup {i}, ev)
        /\ saves' = sv \cup {i}
        /\ rows' = IF i \in sv THEN rows ELSE rows \cup {i}
        /\ bind' = [b EXCEPT ![p] = IF @ = NoId THEN i ELSE @]
        /\ lockRows' = [lockRows EXCEPT ![p] = IF b[p] = NoId THEN @ \cup {i} ELSE @]
        /\ events'[EventId(i)] <= MaxEvents

(* InstanceMap::RemovePlayerFromMap: r and b are the references and binds  *)
(* once Map::RemovePlayerFromMap has returned, sv the saves before.        *)
RemovePlayerFromMap(i, r, b, sv) ==
    /\ timer' = IF Cardinality(Inside(i, ref)) = 1 THEN timer \cup {i} ELSE timer
    /\ events' = SetResetSchedule(TRUE, i, r, sv, events)
    /\ overdue' = IF events' = events THEN overdue ELSE overdue \ {i}
    /\ saves' = UnloadIfEmpty(i, b, r, sv)
    /\ events'[EventId(i)] <= MaxEvents

-----------------------------------------------------------------------------
(* WorldSession::HandlePlayerLoginOpcode: the login queries are sent.  The *)
(* one for the binds is a LEFT JOIN with table instance; for a lock row    *)
(* without an instance row it gives an id of 0, which counts for nothing.  *)
BeginLogin(p) ==
    /\ p \notin online /\ holder[p] = {}
    /\ holder' = [holder EXCEPT ![p] = {lockRows[p] \cap rows}]
    /\ UNCHANGED <<idVars, online, ref, tele, bind, memVars, dbVars>>

(* Player::_LoadBoundInstances: the rows the query returned decide, not    *)
(* the ones that are there now.  For the id 0 it deletes the bind to       *)
(* instance 0, that is nothing: the lock row stays.                        *)
LoadedBind(p, b) ==
    \E locks \in holder[p] :
        IF locks = {} THEN b = NoId ELSE b \in locks

LoadedSaves(b) == IF b = NoId THEN saves ELSE saves \cup {b}

(* Player::LoadFromDB outside the dungeon.                                 *)
LoginOutside(p) ==
    /\ holder[p] # {} /\ p \notin inDb
    /\ \E b \in Ids \cup {NoId} :
        /\ LoadedBind(p, b)
        /\ bind' = [bind EXCEPT ![p] = b]
        /\ saves' = LoadedSaves(b)
    /\ online' = online \cup {p} /\ holder' = [holder EXCEPT ![p] = {}]
    /\ UNCHANGED <<idVars, ref, tele, maps, timer, events, overdue, dbVars>>

(* Player::CheckInstanceLoginValid for a player without a group: false if  *)
(* the player list of the map has anyone in it.                            *)
CheckInstanceLoginValid(i, r) == Inside(i, r) = {}

(* Player::LoadFromDB and HandlePlayerLogin inside the dungeon: the map is *)
(* linked, the player is added, and is ported back to the entrance if the  *)
(* login is not valid.                                                     *)
LoginInside(p) ==
    /\ holder[p] # {} /\ p \in inDb
    /\ \E b \in Ids \cup {NoId}, i \in Ids :
        LET r == [ref EXCEPT ![p] = i]
            valid == CheckInstanceLoginValid(i, r)
            last == Cardinality(Inside(i, r)) = 1
        IN  /\ LoadedBind(p, b)
            /\ CreateInstanceForPlayer(b, i)
            /\ ref' = r
            /\ AddPlayerToMap(p, i, r, [bind EXCEPT ![p] = b], LoadedSaves(b))
            /\ tele' = [tele EXCEPT ![p] = IF valid THEN "none" ELSE "out"]
            /\ timer' = IF ~valid /\ last THEN timer \cup {i} ELSE timer \ {i}
    /\ online' = online \cup {p} /\ holder' = [holder EXCEPT ![p] = {}]
    /\ UNCHANGED <<overdue, inDb>>

(* Player::TeleportTo to another map.                                      *)
TeleportIn(p) ==
    /\ p \in online /\ tele[p] = "none" /\ ref[p] = NoId
    /\ tele' = [tele EXCEPT ![p] = "in"]
    /\ UNCHANGED <<idVars, online, holder, ref, bind, memVars, dbVars>>

TeleportOut(p) ==
    /\ p \in online /\ tele[p] = "none" /\ ref[p] # NoId
    /\ tele' = [tele EXCEPT ![p] = "out"]
    /\ RemovePlayerFromMap(ref[p], ref, bind, saves)
    /\ UNCHANGED <<idVars, online, holder, ref, bind, maps, dbVars>>

(* HandleMoveWorldportAckOpcode into the dungeon, CanEnter true: nobody    *)
(* else is linked to the map.                                              *)
WorldportAckIn(p) ==
    /\ tele[p] = "in"
    /\ \E i \in Ids :
        LET r == [ref EXCEPT ![p] = i]
        IN  /\ CreateInstanceForPlayer(bind[p], i)
            /\ ~HavePlayers(i, ref)
            /\ ref' = r
            /\ AddPlayerToMap(p, i, r, bind, saves)
            /\ timer' = timer \ {i}
    /\ tele' = [tele EXCEPT ![p] = "none"]
    /\ UNCHANGED <<online, holder, overdue, inDb>>

(* The same with CanEnter false: someone is linked, or an encounter is in  *)
(* progress in a map that was loaded.  The id stays generated.             *)
WorldportAckDenied(p) ==
    /\ tele[p] = "in"
    /\ \E i \in Ids : CreateInstanceForPlayer(bind[p], i) /\ i \in maps
    /\ tele' = [tele EXCEPT ![p] = "out"]
    /\ UNCHANGED <<online, holder, ref, bind, saves, timer, events, overdue, dbVars>>

(* The same to the world outside: Player::ResetMap unlinks the reference.  *)
WorldportAckOut(p) ==
    /\ tele[p] = "out"
    /\ ref' = [ref EXCEPT ![p] = NoId]
    /\ tele' = [tele EXCEPT ![p] = "none"]
    /\ UNCHANGED <<idVars, online, holder, bind, memVars, dbVars>>

(* Player::SaveToDB: the destination counts while a teleport is pending.   *)
SavedInside(p) == IF tele[p] = "none" THEN ref[p] # NoId ELSE tele[p] = "in"

SaveToDB(p) ==
    /\ p \in online
    /\ inDb' = IF SavedInside(p) THEN inDb \cup {p} ELSE inDb \ {p}
    /\ UNCHANGED <<idVars, playerVars, memVars, rows, lockRows>>

(* WorldSession::LogoutPlayer with no teleport pending (pending ones are   *)
(* acknowledged first): the player is saved, CleanupsBeforeDelete takes it *)
(* off its save while still linked, and RemovePlayerFromMap deletes it.    *)
LogoutPlayer(p) ==
    /\ p \in online /\ tele[p] = "none"
    /\ LET b == [bind EXCEPT ![p] = NoId]
           sv == IF bind[p] = NoId THEN saves ELSE UnloadIfEmpty(bind[p], b, ref, saves)
       IN  /\ bind' = b
           /\ ref' = [ref EXCEPT ![p] = NoId]
           /\ IF ref[p] # NoId
                THEN RemovePlayerFromMap(ref[p], ref', b, sv)
                ELSE saves' = sv /\ UNCHANGED <<timer, events, overdue>>
    /\ online' = online \ {p}
    /\ inDb' = IF SavedInside(p) THEN inDb \cup {p} ELSE inDb \ {p}
    /\ UNCHANGED <<idVars, holder, tele, maps, rows, lockRows>>

(* Faulty variant: the rows are left to the pending event too.             *)
ResetInstances_KeepsRows(p) ==
    /\ p \in online /\ tele[p] = "none" /\ bind[p] # NoId
    /\ ~HavePlayers(bind[p], ref)
    /\ timer' = timer \cup ({bind[p]} \cap maps)
    /\ bind' = [bind EXCEPT ![p] = NoId]
    /\ saves' = UnloadIfEmpty(bind[p], bind', ref, saves)
    /\ UNCHANGED <<idVars, online, holder, ref, tele, maps, events, overdue, dbVars>>

(* Player::ResetInstances(INSTANCE_RESET_ALL): refused while the map has   *)
(* players; otherwise the map is unloaded soon, the rows go at once and    *)
(* the player is unbound.  The id is left to the pending event.            *)
ResetInstances(p) ==
    /\ p \in online /\ tele[p] = "none" /\ bind[p] # NoId
    /\ LET i == bind[p]
           b == [bind EXCEPT ![p] = NoId]
       IN  /\ ~HavePlayers(i, ref)
           /\ timer' = timer \cup ({i} \cap maps)
           /\ rows' = rows \ {i} /\ overdue' = overdue \ {i}
           /\ lockRows' = [q \in Players |-> lockRows[q] \ {i}]
           /\ bind' = b
           /\ saves' = UnloadIfEmpty(i, b, ref, saves)
    /\ UNCHANGED <<idVars, online, holder, ref, tele, maps, events, inDb>>

-----------------------------------------------------------------------------
(* Faulty variant: the rows stay when the save is not loaded.              *)
FireReset_LoadedOnly(i) ==
    /\ events[i] > 0
    /\ events' = [events EXCEPT ![i] = @ - 1]
    /\ bind' = [p \in Players |-> IF bind[p] = i THEN NoId ELSE bind[p]]
    /\ saves' = saves \ {i}
    /\ rows' = IF i \in saves THEN rows \ {i} ELSE rows
    /\ overdue' = overdue \cap rows'
    /\ lockRows' = [p \in Players |-> lockRows[p] \ {i}]
    /\ timer' = IF HavePlayers(i, ref) THEN timer ELSE timer \cup ({i} \cap maps)
    /\ Alloc!FreeInstanceId(i)
    /\ UNCHANGED <<online, holder, ref, tele, maps, inDb>>

(* InstanceSaveManager::Update with a due type 0 event: _ResetInstance     *)
(* unbinds the online players and deletes the save (_ResetSave), deletes   *)
(* the rows, resets the map (InstanceMap::Reset) and frees the id, whether *)
(* or not players are inside.                                              *)
FireReset(i) ==
    /\ events[i] > 0
    /\ events' = [events EXCEPT ![i] = @ - 1]
    /\ bind' = [p \in Players |-> IF bind[p] = i THEN NoId ELSE bind[p]]
    /\ saves' = saves \ {i}
    /\ rows' = rows \ {i} /\ overdue' = overdue \ {i}
    /\ lockRows' = [p \in Players |-> lockRows[p] \ {i}]
    /\ timer' = IF HavePlayers(i, ref) THEN timer ELSE timer \cup ({i} \cap maps)
    /\ Alloc!FreeInstanceId(i)
    /\ UNCHANGED <<online, holder, ref, tele, maps, inDb>>

(* Faulty variant: the map goes and its unload timer stays.                *)
UnloadMap_KeepsTimer(i) ==
    /\ i \in timer /\ i \in maps /\ ~HavePlayers(i, ref)
    /\ maps' = maps \ {i}
    /\ UNCHANGED <<idVars, playerVars, saves, timer, events, overdue, dbVars>>

(* MapInstanced::Update and DestroyInstance once the unload timer has run  *)
(* down: a map with linked players stays.                                  *)
UnloadMap(i) ==
    /\ i \in timer /\ i \in maps /\ ~HavePlayers(i, ref)
    /\ maps' = maps \ {i} /\ timer' = timer \ {i}
    /\ UNCHANGED <<idVars, playerVars, saves, events, overdue, dbVars>>

(* The process stops anywhere; LoadInstances at the next start deletes the *)
(* expired rows, the instances nobody is bound to and the binds to deleted *)
(* instances, and registers the rest.  LoadResetTimes then replaces the    *)
(* reset time of an instance by its latest respawn plus two hours, and     *)
(* schedules only what is still to come: the late ones keep their rows and *)
(* get no reset.                                                           *)
Restart(expired, late) ==
    LET kept == {i \in rows \ expired : \E p \in Players : i \in lockRows[p]}
    IN  /\ late \subseteq kept
        /\ Alloc!LoadIds(kept, next', size', cap', bits') /\ given' = kept
        /\ rows' = kept
        /\ lockRows' = [p \in Players |-> lockRows[p] \cap kept]
        /\ events' = [e \in DOMAIN events |->
                        Cardinality({i \in kept \ late : EventId(i) = e})]
        /\ online' = {} /\ holder' = [p \in Players |-> {}]
        /\ ref' = [p \in Players |-> NoId] /\ bind' = [p \in Players |-> NoId]
        /\ tele' = [p \in Players |-> "none"]
        /\ saves' = {} /\ maps' = {} /\ timer' = {} /\ overdue' = late
        /\ UNCHANGED inDb

Init ==
    /\ Alloc!LoadIds({}, next, size, cap, bits) /\ given = {}
    /\ online = {} /\ holder = [p \in Players |-> {}]
    /\ ref = [p \in Players |-> NoId] /\ bind = [p \in Players |-> NoId]
    /\ tele = [p \in Players |-> "none"]
    /\ saves = {} /\ maps = {} /\ timer = {}
    /\ events = [e \in 0 .. MaxId |-> 0] /\ overdue = {}
    /\ rows = {} /\ lockRows = [p \in Players |-> {}] /\ inDb = {}

Next ==
    \/ \E p \in Players :
        \/ BeginLogin(p) \/ LoginOutside(p) \/ LoginInside(p)
        \/ TeleportIn(p) \/ TeleportOut(p)
        \/ WorldportAckIn(p) \/ WorldportAckDenied(p) \/ WorldportAckOut(p)
        \/ SaveToDB(p) \/ LogoutPlayer(p) \/ ResetInstances(p)
    \/ \E i \in Ids : FireReset(i) \/ UnloadMap(i)
    \/ \E expired, late \in SUBSET rows : Restart(expired, late)

Spec == Init /\ [][Next]_vars

-----------------------------------------------------------------------------
(* The state has its types, and a player that is not online has no map, no *)
(* teleport and no bind.                                                   *)
TypeOK ==
    /\ online \subseteq Players
    /\ holder \in [Players -> {{}} \cup {{s} : s \in SUBSET Ids}]
    /\ ref \in [Players -> Ids \cup {NoId}] /\ bind \in [Players -> Ids \cup {NoId}]
    /\ tele \in [Players -> {"none", "in", "out"}]
    /\ saves \subseteq Ids /\ timer \subseteq maps /\ maps \subseteq Ids
    /\ events \in [0 .. MaxId -> Nat]
    /\ rows \subseteq Ids /\ overdue \subseteq rows
    /\ lockRows \in [Players -> SUBSET Ids] /\ inDb \subseteq Players
    /\ \A p \in Players \ online : ref[p] = NoId /\ bind[p] = NoId /\ tele[p] = "none"

(* An id with a row in table instance is never free, so that               *)
(* GenerateInstanceId cannot give a stored lockout to somebody else.       *)
StoredIdsInUse == rows \subseteq given

(* The save an online player's bind points to exists: no path deletes an   *)
(* InstanceSave under a bind.                                              *)
BindHasSave == \A p \in Players : bind[p] # NoId => bind[p] \in saves

(* The assertion of InstanceMap::AddPlayerToMap, for as long as the player *)
(* is inside: a bound solo player is in the map of the bound save.         *)
SameSave == \A p \in Players : ref[p] # NoId /\ bind[p] # NoId => ref[p] = bind[p]

(* A stored instance that nobody is in has a reset pending: no lockout     *)
(* outlives its last visitor for as long as the server runs.  The one      *)
(* exception are the instances that LoadResetTimes found overdue and left  *)
(* without a reset, until a player logs out inside.                        *)
StoredHasReset ==
    \A i \in rows \ overdue : ~HavePlayers(i, ref) => events[EventId(i)] > 0

(* A player is never locked to two stored instances of the dungeon, so     *)
(* that _LoadBoundInstances, which lets the last row win, has no choice.   *)
(* Lock rows whose instance is not stored, left behind by a stale bind,    *)
(* never come to be backed by one again while no id in use is given out.   *)
OneLock == \A p \in Players : Cardinality(lockRows[p] \cap rows) <= 1

(* "for normal instances cancel the reset schedule when the first player   *)
(* enters": no reset is pending for an instance with a player in it.       *)
NoResetWhileInside ==
    \A p \in Players : ref[p] # NoId /\ tele[p] = "none" => events[EventId(ref[p])] = 0

(* "player has not group and there is someone inside, deny entry": a       *)
(* player who logs in to an instance where nobody else is stays in it.     *)
LoginAlone ==
    [][\A p \in online' \ online :
        ref'[p] # NoId /\ ~HavePlayers(ref'[p], ref) => tele'[p] = "none"]_vars
=============================================================================
