-------------------------- MODULE InstanceSavesProofs --------------------------
(***************************************************************************)
(* Theorems about InstanceSaves for any number of players, instances and   *)
(* pending resets, restarts included.                                      *)
(***************************************************************************)
EXTENDS InstanceSaves, FiniteSetTheorems, TLAPS

(* A player is in at most one place: a login is for somebody offline, a    *)
(* linked map exists, and who is on the way in is linked to none.          *)
Linked ==
    \A p \in Players :
        /\ holder[p] # {} => p \notin online
        /\ ref[p] # NoId => ref[p] \in maps
        /\ tele[p] = "in" => ref[p] = NoId

(* The inductive invariant.                                                *)
SavesInv == TypeOK /\ StoredIdsInUse /\ BindHasSave /\ SameSave /\ Linked

(* The binds of a player that a login query finds.                         *)
Stored(p) == lockRows[p] \cap rows

(* A lock row, with an instance or without, is for an id in use; the ones  *)
(* with an instance are what the player, or the answer of its login query, *)
(* knows of: resets only take them away.                                   *)
LocksKnown ==
    \A p \in Players :
        /\ lockRows[p] \subseteq given
        /\ \E x : Stored(p) \subseteq {x}
        /\ p \in online => Stored(p) \subseteq {bind[p]}
        /\ \A s \in holder[p] : Stored(p) \subseteq s /\ \E x : s \subseteq {x}

(* A stored instance keeps its reset from the creation of its save on: the *)
(* cancelling of SetResetSchedule comes when the player is already linked. *)
StoredScheduled == \A i \in rows \ overdue : events[EventId(i)] > 0

(* "No id" is not an id.                                                   *)
LEMMA NoIdIsNone == NoId \notin Ids /\ IsFiniteSet(Ids) /\ Ids \subseteq 0 .. MaxId
<1>1. IsFiniteSet(1 .. MaxId)
  BY SavesAssumption, FS_Interval
<1> QED
  BY <1>1, SavesAssumption DEF NoId, Ids

(* Below 2^16 an event has the id of its instance.                         *)
LEMMA EventIdBelow ==
  ASSUME MaxId < EventIds, NEW i \in Ids
  PROVE  EventId(i) = i /\ EventId(i) \in 0 .. MaxId
<1>1. i \in Nat /\ i < EventIds /\ EventIds \in Nat /\ EventIds > 0 /\ MaxId \in Nat /\ i =< MaxId
  BY SavesAssumption DEF Ids
<1>2. i % EventIds = i
  BY <1>1
<1> QED
  BY <1>1, <1>2 DEF EventId

(* ScheduleReset keeps the types; scheduling never takes an event away.    *)
LEMMA ScheduleFacts ==
  ASSUME NEW ev \in [0 .. MaxId -> Nat], NEW i
  PROVE  /\ ScheduleReset(TRUE, i, ev) \in [0 .. MaxId -> Nat]
         /\ \A e \in 0 .. MaxId : ScheduleReset(TRUE, i, ev)[e] >= ev[e]
         /\ EventId(i) \in 0 .. MaxId => ScheduleReset(TRUE, i, ev)[EventId(i)] > 0
<1> DEFINE f == ScheduleReset(TRUE, i, ev)
           k == EventId(i)
<1>1. f = [ev EXCEPT ![k] = @ + 1]
  BY Zenon DEF ScheduleReset
<1> HIDE DEF f, k
<1>2. \A e \in 0 .. MaxId : ev[e] \in Nat
  OBVIOUS
<1>3. f = [e \in 0 .. MaxId |-> IF e = k THEN ev[e] + 1 ELSE ev[e]]
  BY <1>1
<1>4. f \in [0 .. MaxId -> Nat]
  BY <1>2, <1>3
<1>5. \A e \in 0 .. MaxId : f[e] >= ev[e] /\ (e = k => f[e] > 0)
  BY <1>2, <1>3
<1> QED
  BY <1>4, <1>5 DEF f, k

(* UnloadIfEmpty deletes at most the save of i, and not under a bind.      *)
LEMMA UnloadFacts ==
  ASSUME NEW i, NEW b, NEW r, NEW sv
  PROVE  /\ UnloadIfEmpty(i, b, r, sv) \subseteq sv
         /\ \A p \in Players : b[p] \in sv => b[p] \in UnloadIfEmpty(i, b, r, sv)
  BY DEF UnloadIfEmpty

(* RemovePlayerFromMap with the binds b once the player is off its save.   *)
LEMMA RemoveFacts ==
  ASSUME SavesInv, NEW i, NEW r, NEW b, NEW sv, sv \subseteq Ids, i \in maps,
         RemovePlayerFromMap(i, r, b, sv)
  PROVE  /\ timer' \subseteq maps /\ events' \in [0 .. MaxId -> Nat]
         /\ \A e \in 0 .. MaxId : events'[e] >= events[e]
         /\ saves' \subseteq sv /\ \A p \in Players : b[p] \in sv => b[p] \in saves'
         /\ overdue' \subseteq overdue
         /\ \A j \in overdue \ overdue' : EventId(j) \in 0 .. MaxId => events'[EventId(j)] > 0
<1>1. events \in [0 .. MaxId -> Nat] /\ timer \subseteq maps
  BY DEF SavesInv, TypeOK
<1>2. timer' \subseteq maps
  BY <1>1 DEF RemovePlayerFromMap
<1>3. events' = events \/ events' = ScheduleReset(TRUE, i, events)
  BY Zenon DEF RemovePlayerFromMap, SetResetSchedule
<1>4. /\ events' \in [0 .. MaxId -> Nat]
      /\ \A e \in 0 .. MaxId : events'[e] >= events[e]
  <2>1. CASE events' = events
    <3>1. \A e \in 0 .. MaxId : events[e] \in Nat
      BY <1>1
    <3> QED
      BY <1>1, <2>1, <3>1
  <2>2. CASE events' = ScheduleReset(TRUE, i, events)
    <3>1. /\ ScheduleReset(TRUE, i, events) \in [0 .. MaxId -> Nat]
          /\ \A e \in 0 .. MaxId : ScheduleReset(TRUE, i, events)[e] >= events[e]
      BY <1>1, ScheduleFacts
    <3> QED
      BY <2>2, <3>1
  <2> QED
    BY <1>3, <2>1, <2>2
<1>5. saves' = UnloadIfEmpty(i, b, r, sv)
  BY DEF RemovePlayerFromMap
<1>6. overdue' = IF events' = events THEN overdue ELSE overdue \ {i}
  BY DEF RemovePlayerFromMap
<1>7. ASSUME NEW j \in overdue \ overdue', EventId(j) \in 0 .. MaxId PROVE events'[EventId(j)] > 0
  <2>1. j = i /\ events' = ScheduleReset(TRUE, i, events)
    BY <1>3, <1>6
  <2>2. EventId(i) \in 0 .. MaxId => ScheduleReset(TRUE, i, events)[EventId(i)] > 0
    BY <1>1, ScheduleFacts
  <2> QED
    BY <1>7, <2>1, <2>2
<1>8. overdue' \subseteq overdue
  BY <1>6
<1> QED
  BY <1>2, <1>4, <1>5, <1>7, <1>8, UnloadFacts

EventsGrow == \A e \in 0 .. MaxId : events'[e] >= events[e]

(* What an entry of player p, whose bind was c, does to the lock rows.     *)
Locked(p, c, i) ==
    /\ bind'[p] = i /\ (c = NoId \/ c = i)
    /\ lockRows'[p] = IF c = NoId THEN lockRows[p] \cup {i} ELSE lockRows[p]
    /\ \A q \in Players \ {p} : bind'[q] = bind[q] /\ lockRows'[q] = lockRows[q]
    /\ rows' \subseteq rows \cup {i} /\ (i \in rows' \ rows => c = NoId)
    /\ given \subseteq given' /\ (c = NoId => i = next /\ i \in given')

(* Entering the dungeon: the id, the map, the save and the bind of player  *)
(* p, whose bind was c, when the saves are sv and the map i is linked.     *)
LEMMA EnterFacts ==
  ASSUME SavesInv, NEW p \in Players, NEW i \in Ids, NEW c \in Ids \cup {NoId},
         NEW sv, saves \subseteq sv, sv \subseteq Ids, c # NoId => c \in sv,
         ref' = [ref EXCEPT ![p] = i], CreateInstanceForPlayer(c, i),
         AddPlayerToMap(p, i, ref', [bind EXCEPT ![p] = c], sv)
  PROVE  /\ ref' \in [Players -> Ids \cup {NoId}] /\ bind' \in [Players -> Ids \cup {NoId}]
         /\ lockRows' \in [Players -> SUBSET Ids]
         /\ ref'[p] = i /\ bind'[p] = i
         /\ \A q \in Players \ {p} : ref'[q] = ref[q] /\ bind'[q] = bind[q]
         /\ saves' = sv \cup {i} /\ maps' = maps \cup {i}
         /\ rows \subseteq rows' /\ rows' \subseteq rows \cup {i} /\ rows' \subseteq given'
         /\ Locked(p, c, i)
         /\ events' \in [0 .. MaxId -> Nat] /\ EventsGrow
         /\ i \in rows' \ rows /\ EventId(i) \in 0 .. MaxId => events'[EventId(i)] > 0
<1> DEFINE b == [bind EXCEPT ![p] = c]
           ev == IF i \in sv THEN events ELSE ScheduleReset(TRUE, i, events)
<1>1. /\ events \in [0 .. MaxId -> Nat] /\ rows \subseteq Ids /\ rows \subseteq given
      /\ ref \in [Players -> Ids \cup {NoId}] /\ bind \in [Players -> Ids \cup {NoId}]
      /\ lockRows \in [Players -> SUBSET Ids]
  BY DEF SavesInv, TypeOK, StoredIdsInUse
<1>2. /\ events' = SetResetSchedule(FALSE, i, ref', sv \cup {i}, ev)
      /\ saves' = sv \cup {i} /\ rows' = IF i \in sv THEN rows ELSE rows \cup {i}
      /\ bind' = [b EXCEPT ![p] = IF b[p] = NoId THEN i ELSE b[p]]
      /\ lockRows' = [lockRows EXCEPT ![p] =
                        IF b[p] = NoId THEN lockRows[p] \cup {i} ELSE lockRows[p]]
  BY Zenon DEF AddPlayerToMap
<1>3. ref' \in [Players -> Ids \cup {NoId}] /\ ref'[p] = i
      /\ \A q \in Players \ {p} : ref'[q] = ref[q]
  BY <1>1
<1>4. c = NoId \/ c = i
  BY DEF CreateInstanceForPlayer
<1>5. /\ b \in [Players -> Ids \cup {NoId}] /\ b[p] = c
      /\ \A q \in Players \ {p} : b[q] = bind[q]
  BY <1>1
<1> HIDE DEF b
<1>6. /\ bind' \in [Players -> Ids \cup {NoId}] /\ bind'[p] = i
      /\ \A q \in Players \ {p} : bind'[q] = bind[q]
  BY <1>2, <1>4, <1>5
<1>7. /\ lockRows' \in [Players -> SUBSET Ids]
      /\ lockRows'[p] = IF c = NoId THEN lockRows[p] \cup {i} ELSE lockRows[p]
      /\ \A q \in Players \ {p} : lockRows'[q] = lockRows[q]
  <2>1. PICK l : l = IF c = NoId THEN lockRows[p] \cup {i} ELSE lockRows[p]
    OBVIOUS
  <2>2. lockRows' = [lockRows EXCEPT ![p] = l]
    BY <1>2, <1>5, <2>1
  <2>3. l \subseteq Ids
    BY <1>1, <2>1
  <2>4. lockRows' \in [Players -> SUBSET Ids] /\ lockRows'[p] = l
        /\ \A q \in Players \ {p} : lockRows'[q] = lockRows[q]
    BY <1>1, <2>2, <2>3
  <2> QED
    BY <2>1, <2>4
<1>8. maps' = maps \cup {i}
  BY DEF CreateInstanceForPlayer
<1>9. i \in given' \/ (i \in sv /\ given' = given)
  BY DEF CreateInstanceForPlayer, Alloc!GenerateInstanceId, idVars
<1>10. given \subseteq given'
  BY DEF CreateInstanceForPlayer, Alloc!GenerateInstanceId, idVars
<1>11. rows \subseteq rows' /\ rows' \subseteq rows \cup {i} /\ rows' \subseteq given'
  BY <1>1, <1>2, <1>9, <1>10
<1>12. events' = ev
  <2>1. HavePlayers(i, ref')
    BY <1>3 DEF HavePlayers, Inside
  <2> QED
    BY <1>2, <2>1 DEF SetResetSchedule
<1>13. /\ ev \in [0 .. MaxId -> Nat] /\ \A e \in 0 .. MaxId : ev[e] >= events[e]
       /\ i \notin sv /\ EventId(i) \in 0 .. MaxId => ev[EventId(i)] > 0
  <2>1. \A e \in 0 .. MaxId : events[e] \in Nat
    BY <1>1
  <2>2. CASE i \in sv
    <3>1. ev = events
      BY <2>2
    <3> HIDE DEF ev
    <3> QED
      BY <1>1, <2>1, <2>2, <3>1
  <2>3. CASE i \notin sv
    <3>1. ev = ScheduleReset(TRUE, i, events)
      BY <2>3
    <3> HIDE DEF ev
    <3> QED
      BY <1>1, <3>1, ScheduleFacts
  <2> QED
    BY <2>2, <2>3
<1> HIDE DEF ev
<1>14. i \in rows' \ rows => i \notin sv /\ c = NoId
  BY <1>2, <1>4
<1>15. c = NoId => i = next /\ i \in given'
  BY DEF CreateInstanceForPlayer, Alloc!GenerateInstanceId
<1> QED
  BY <1>2, <1>3, <1>4, <1>6, <1>7, <1>8, <1>10, <1>11, <1>12, <1>13, <1>14, <1>15 DEF EventsGrow, Locked

USE DEF idVars, playerVars, memVars, dbVars

(* The steps that keep everything but one or two variables.                *)
LEMMA BeginLoginStep ==
  ASSUME SavesInv, NEW p \in Players, BeginLogin(p)
  PROVE  SavesInv'
<1>1. /\ TypeOK /\ Stored(p) \in SUBSET Ids
      /\ holder' = [holder EXCEPT ![p] = {Stored(p)}] /\ p \notin online
      /\ UNCHANGED <<next, size, cap, bits, given, online, ref, tele, bind, saves, maps,
                     timer, events, overdue, rows, lockRows, inDb>>
  BY DEF SavesInv, TypeOK, BeginLogin, Stored
<1>2. /\ holder' \in [Players -> {{}} \cup {{s} : s \in SUBSET Ids}]
      /\ holder'[p] = {Stored(p)} /\ \A q \in Players \ {p} : holder'[q] = holder[q]
  BY <1>1 DEF TypeOK
<1>3. TypeOK'
  BY <1>1, <1>2 DEF TypeOK
<1>4. Linked'
  BY <1>1, <1>2 DEF SavesInv, Linked
<1>5. StoredIdsInUse' /\ BindHasSave' /\ SameSave'
  BY <1>1 DEF SavesInv, StoredIdsInUse, BindHasSave, SameSave
<1> QED
  BY <1>3, <1>4, <1>5 DEF SavesInv

(* A teleport into the dungeon begins.                                     *)
LEMMA TeleportInStep ==
  ASSUME SavesInv, NEW p \in Players, TeleportIn(p)
  PROVE  SavesInv'
<1>1. /\ TypeOK /\ tele' = [tele EXCEPT ![p] = "in"] /\ p \in online /\ ref[p] = NoId
      /\ UNCHANGED <<next, size, cap, bits, given, online, holder, ref, bind, saves, maps,
                     timer, events, overdue, rows, lockRows, inDb>>
  BY DEF SavesInv, TeleportIn
<1>2. /\ tele' \in [Players -> {"none", "in", "out"}]
      /\ \A q \in Players \ {p} : tele'[q] = tele[q]
  BY <1>1 DEF TypeOK
<1>3. TypeOK'
  BY <1>1, <1>2 DEF TypeOK
<1>4. Linked'
  BY <1>1, <1>2 DEF SavesInv, Linked
<1>5. StoredIdsInUse' /\ BindHasSave' /\ SameSave'
  BY <1>1 DEF SavesInv, StoredIdsInUse, BindHasSave, SameSave
<1> QED
  BY <1>3, <1>4, <1>5 DEF SavesInv

(* A player arrives outside and is unlinked.                               *)
LEMMA WorldportAckOutStep ==
  ASSUME SavesInv, NEW p \in Players, WorldportAckOut(p)
  PROVE  SavesInv'
<1>1. /\ TypeOK /\ tele' = [tele EXCEPT ![p] = "none"] /\ ref' = [ref EXCEPT ![p] = NoId]
      /\ UNCHANGED <<next, size, cap, bits, given, online, holder, bind, saves, maps,
                     timer, events, overdue, rows, lockRows, inDb>>
  BY DEF SavesInv, WorldportAckOut
<1>2. /\ tele' \in [Players -> {"none", "in", "out"}] /\ tele'[p] = "none"
      /\ ref' \in [Players -> Ids \cup {NoId}] /\ ref'[p] = NoId
      /\ \A q \in Players \ {p} : tele'[q] = tele[q] /\ ref'[q] = ref[q]
  BY <1>1 DEF TypeOK
<1>3. TypeOK'
  BY <1>1, <1>2 DEF TypeOK
<1>4. Linked'
  BY <1>1, <1>2 DEF SavesInv, Linked
<1>5. StoredIdsInUse' /\ BindHasSave' /\ SameSave'
  BY <1>1, <1>2 DEF SavesInv, StoredIdsInUse, BindHasSave, SameSave
<1> QED
  BY <1>3, <1>4, <1>5 DEF SavesInv

(* A player is saved.                                                      *)
LEMMA SaveToDBStep ==
  ASSUME SavesInv, NEW p \in Players, SaveToDB(p)
  PROVE  SavesInv'
  BY DEF SavesInv, SaveToDB, TypeOK, StoredIdsInUse, BindHasSave, SameSave, Linked

(* A map without players is unloaded.                                      *)
LEMMA UnloadMapStep ==
  ASSUME SavesInv, NEW i \in Ids, UnloadMap(i)
  PROVE  SavesInv'
  BY DEF SavesInv, UnloadMap, HavePlayers, Inside, TypeOK, StoredIdsInUse, BindHasSave,
         SameSave, Linked

(* A step that changes nothing.                                            *)
LEMMA SavesStutter ==
  ASSUME SavesInv, UNCHANGED vars
  PROVE  SavesInv'
  BY DEF vars, SavesInv, TypeOK, StoredIdsInUse, BindHasSave, SameSave, Linked

(* A server without instances.                                             *)
LEMMA SavesInit ==
  ASSUME Init
  PROVE  SavesInv /\ LocksKnown /\ StoredScheduled
<1>1. MaxId \in Nat
  BY SavesAssumption
<1>2. /\ online = {} /\ holder = [p \in Players |-> {}]
      /\ ref = [p \in Players |-> NoId] /\ bind = [p \in Players |-> NoId]
      /\ tele = [p \in Players |-> "none"] /\ saves = {} /\ maps = {} /\ timer = {}
      /\ events = [e \in 0 .. MaxId |-> 0] /\ overdue = {}
      /\ rows = {} /\ lockRows = [p \in Players |-> {}] /\ inDb = {}
  BY DEF Init
<1> QED
  BY <1>1, <1>2 DEF SavesInv, TypeOK, StoredIdsInUse, BindHasSave, SameSave, Linked,
     LocksKnown, Stored, StoredScheduled

(* What the answer of a login query makes of the player's bind.            *)
LEMMA LoadedFacts ==
  ASSUME SavesInv, NEW p \in Players, NEW b \in Ids \cup {NoId}, holder[p] # {}, LoadedBind(p, b)
  PROVE  /\ LocksKnown => Stored(p) \subseteq {b}
         /\ saves \subseteq LoadedSaves(b) /\ LoadedSaves(b) \subseteq Ids
         /\ b # NoId => b \in LoadedSaves(b)
         /\ p \notin online /\ ref[p] = NoId /\ bind[p] = NoId /\ tele[p] = "none"
<1>1. PICK s \in holder[p] : IF s = {} THEN b = NoId ELSE b \in s
  BY DEF LoadedBind
<1>2. LocksKnown => Stored(p) \subseteq s /\ \E x : s \subseteq {x}
  BY DEF LocksKnown
<1>3. LocksKnown => Stored(p) \subseteq {b}
  BY <1>1, <1>2
<1>4. p \notin online
  BY DEF SavesInv, Linked
<1> QED
  BY <1>3, <1>4 DEF SavesInv, TypeOK, LoadedSaves

(* A login outside the dungeon loads the bind and its save.                *)
LEMMA LoginOutsideStep ==
  ASSUME SavesInv, NEW p \in Players, LoginOutside(p)
  PROVE  SavesInv'
<1>1. PICK b \in Ids \cup {NoId} :
        /\ LoadedBind(p, b) /\ bind' = [bind EXCEPT ![p] = b] /\ saves' = LoadedSaves(b)
  BY DEF LoginOutside
<1>2. /\ TypeOK /\ holder[p] # {} /\ online' = online \cup {p}
      /\ holder' = [holder EXCEPT ![p] = {}]
      /\ UNCHANGED <<given, ref, tele, maps, timer, events, overdue, rows, lockRows, inDb>>
  BY DEF LoginOutside, SavesInv
<1>3. /\ saves \subseteq saves' /\ saves' \subseteq Ids /\ (b # NoId => b \in saves')
      /\ ref[p] = NoId
  BY <1>1, <1>2, LoadedFacts
<1>4. /\ holder' \in [Players -> {{}} \cup {{s} : s \in SUBSET Ids}]
      /\ holder'[p] = {} /\ \A q \in Players \ {p} : holder'[q] = holder[q]
  BY <1>2 DEF TypeOK
<1>5. /\ bind' \in [Players -> Ids \cup {NoId}]
      /\ bind'[p] = b /\ \A q \in Players \ {p} : bind'[q] = bind[q]
  BY <1>1, <1>2 DEF TypeOK
<1>6. TypeOK'
  <2>1. \A q \in Players \ online' : ref'[q] = NoId /\ bind'[q] = NoId /\ tele'[q] = "none"
    BY <1>2, <1>5 DEF TypeOK
  <2> QED
    BY <1>2, <1>3, <1>4, <1>5, <2>1 DEF TypeOK
<1>7. Linked'
  BY <1>2, <1>4 DEF SavesInv, Linked
<1>8. StoredIdsInUse' /\ BindHasSave' /\ SameSave'
  <2>1. BindHasSave'
    BY <1>3, <1>5 DEF SavesInv, BindHasSave
  <2>2. StoredIdsInUse' /\ SameSave'
    BY <1>2, <1>3, <1>5 DEF SavesInv, StoredIdsInUse, SameSave
  <2> QED
    BY <2>1, <2>2
<1> QED
  BY <1>6, <1>7, <1>8 DEF SavesInv

(* Who enters is linked to the map of the save bound to, old or new.       *)
LEMMA EnterStep ==
  ASSUME SavesInv, NEW p \in Players, NEW i \in Ids, NEW c \in Ids \cup {NoId},
         NEW sv, saves \subseteq sv, sv \subseteq Ids, c # NoId => c \in sv,
         ref' = [ref EXCEPT ![p] = i], CreateInstanceForPlayer(c, i),
         AddPlayerToMap(p, i, ref', [bind EXCEPT ![p] = c], sv),
         holder' = [holder EXCEPT ![p] = {}], online' = online \cup {p}, UNCHANGED <<overdue, inDb>>,
         NEW t \in {"none", "out"}, tele' = [tele EXCEPT ![p] = t],
         timer' \subseteq timer \cup {i}
  PROVE  SavesInv'
<1>1. /\ ref' \in [Players -> Ids \cup {NoId}] /\ bind' \in [Players -> Ids \cup {NoId}]
      /\ lockRows' \in [Players -> SUBSET Ids]
      /\ ref'[p] = i /\ bind'[p] = i
      /\ \A q \in Players \ {p} : ref'[q] = ref[q] /\ bind'[q] = bind[q]
      /\ saves' = sv \cup {i} /\ maps' = maps \cup {i}
      /\ rows \subseteq rows' /\ rows' \subseteq rows \cup {i} /\ rows' \subseteq given'
      /\ events' \in [0 .. MaxId -> Nat]
  BY EnterFacts
<1>2. TypeOK
  BY DEF SavesInv
<1>3. /\ holder' \in [Players -> {{}} \cup {{s} : s \in SUBSET Ids}]
      /\ holder'[p] = {} /\ \A q \in Players \ {p} : holder'[q] = holder[q]
  BY <1>2 DEF TypeOK
<1>4. /\ tele' \in [Players -> {"none", "in", "out"}]
      /\ tele'[p] = t /\ \A q \in Players \ {p} : tele'[q] = tele[q]
  BY <1>2 DEF TypeOK
<1>5. TypeOK'
  <2>1. /\ online' \subseteq Players /\ inDb' \subseteq Players /\ saves' \subseteq Ids
        /\ timer' \subseteq maps' /\ maps' \subseteq Ids /\ rows' \subseteq Ids
        /\ overdue' \subseteq rows'
    BY <1>1, <1>2 DEF TypeOK
  <2>2. \A q \in Players \ online' : ref'[q] = NoId /\ bind'[q] = NoId /\ tele'[q] = "none"
    BY <1>1, <1>2, <1>4 DEF TypeOK
  <2> QED
    BY <1>1, <1>3, <1>4, <2>1, <2>2 DEF TypeOK
<1>6. Linked'
  BY <1>1, <1>3, <1>4 DEF SavesInv, Linked
<1>7. StoredIdsInUse' /\ BindHasSave' /\ SameSave'
  BY <1>1 DEF SavesInv, StoredIdsInUse, BindHasSave, SameSave
<1> QED
  BY <1>5, <1>6, <1>7 DEF SavesInv

(* A player enters who knows all the binds that are stored for it.         *)
Enters(p) ==
    /\ \E c \in Ids \cup {NoId}, i \in Ids :
            Locked(p, c, i) /\ (LocksKnown => Stored(p) \subseteq {c})
    /\ online' = online \cup {p} /\ holder' = [holder EXCEPT ![p] = {}]

(* A login inside the dungeon.                                             *)
LEMMA LoginInsideStep ==
  ASSUME SavesInv, NEW p \in Players, LoginInside(p)
  PROVE  /\ SavesInv' /\ EventsGrow /\ overdue' = overdue /\ Enters(p)
         /\ \A i \in rows' \ rows : EventId(i) \in 0 .. MaxId => events'[EventId(i)] > 0
<1>1. PICK b \in Ids \cup {NoId}, i \in Ids :
        /\ LoadedBind(p, b) /\ CreateInstanceForPlayer(b, i)
        /\ ref' = [ref EXCEPT ![p] = i]
        /\ AddPlayerToMap(p, i, [ref EXCEPT ![p] = i], [bind EXCEPT ![p] = b], LoadedSaves(b))
        /\ tele' = [tele EXCEPT ![p] =
                IF CheckInstanceLoginValid(i, [ref EXCEPT ![p] = i]) THEN "none" ELSE "out"]
        /\ timer' \subseteq timer \cup {i}
  <2>1. PICK b \in Ids \cup {NoId}, i \in Ids :
        /\ LoadedBind(p, b) /\ CreateInstanceForPlayer(b, i)
        /\ ref' = [ref EXCEPT ![p] = i]
        /\ AddPlayerToMap(p, i, [ref EXCEPT ![p] = i], [bind EXCEPT ![p] = b], LoadedSaves(b))
        /\ tele' = [tele EXCEPT ![p] =
                IF CheckInstanceLoginValid(i, [ref EXCEPT ![p] = i]) THEN "none" ELSE "out"]
        /\ timer' = IF ~CheckInstanceLoginValid(i, [ref EXCEPT ![p] = i])
                       /\ Cardinality(Inside(i, [ref EXCEPT ![p] = i])) = 1
                      THEN timer \cup {i} ELSE timer \ {i}
    BY Zenon DEF LoginInside
  <2>2. timer' \subseteq timer \cup {i}
    BY <2>1
  <2> QED
    BY <2>1, <2>2
<1>2. /\ holder[p] # {} /\ online' = online \cup {p} /\ holder' = [holder EXCEPT ![p] = {}]
      /\ UNCHANGED <<overdue, inDb>>
  BY DEF LoginInside
<1>3. /\ saves \subseteq LoadedSaves(b) /\ LoadedSaves(b) \subseteq Ids
      /\ b # NoId => b \in LoadedSaves(b)
      /\ LocksKnown => Stored(p) \subseteq {b}
  BY <1>1, <1>2, LoadedFacts
<1>4. AddPlayerToMap(p, i, ref', [bind EXCEPT ![p] = b], LoadedSaves(b))
  BY <1>1
<1>5. PICK t \in {"none", "out"} : tele' = [tele EXCEPT ![p] = t]
  BY <1>1
<1>6. SavesInv'
  BY <1>1, <1>2, <1>3, <1>4, <1>5, EnterStep
<1>7. /\ EventsGrow /\ rows' \subseteq rows \cup {i} /\ Locked(p, b, i)
      /\ i \in rows' \ rows /\ EventId(i) \in 0 .. MaxId => events'[EventId(i)] > 0
  <2>1. PICK sv : sv = LoadedSaves(b)
    OBVIOUS
  <2> QED
    BY <1>1, <1>3, <1>4, <2>1, EnterFacts
<1>8. Enters(p)
  BY <1>2, <1>3, <1>7 DEF Enters
<1> QED
  BY <1>2, <1>6, <1>7, <1>8

(* An acknowledged teleport into the dungeon.                              *)
LEMMA WorldportAckInStep ==
  ASSUME SavesInv, NEW p \in Players, WorldportAckIn(p)
  PROVE  /\ SavesInv' /\ EventsGrow /\ overdue' = overdue /\ Enters(p)
         /\ \A i \in rows' \ rows : EventId(i) \in 0 .. MaxId => events'[EventId(i)] > 0
<1>1. PICK i \in Ids :
        /\ CreateInstanceForPlayer(bind[p], i) /\ ref' = [ref EXCEPT ![p] = i]
        /\ AddPlayerToMap(p, i, [ref EXCEPT ![p] = i], bind, saves)
        /\ timer' = timer \ {i}
  BY Zenon DEF WorldportAckIn
<1>2. /\ tele[p] = "in" /\ tele' = [tele EXCEPT ![p] = "none"] /\ UNCHANGED <<online, holder, overdue, inDb>>
  BY DEF WorldportAckIn
<1>3. TypeOK /\ p \in online /\ holder[p] = {}
  BY <1>2 DEF SavesInv, TypeOK, Linked
<1>4. PICK c \in Ids \cup {NoId} : c = bind[p]
  BY <1>3 DEF TypeOK
<1>5. bind = [bind EXCEPT ![p] = c]
  BY <1>3, <1>4 DEF TypeOK
<1>6. /\ AddPlayerToMap(p, i, ref', [bind EXCEPT ![p] = c], saves)
      /\ CreateInstanceForPlayer(c, i) /\ ref' = [ref EXCEPT ![p] = i]
  BY <1>1, <1>4, <1>5
<1>7. /\ saves \subseteq saves /\ saves \subseteq Ids /\ (c # NoId => c \in saves)
  BY <1>3, <1>4 DEF SavesInv, TypeOK, BindHasSave
<1>8. /\ timer' \subseteq timer \cup {i} /\ UNCHANGED <<overdue, inDb>> /\ online' = online \cup {p}
      /\ holder' = [holder EXCEPT ![p] = {}] /\ tele' = [tele EXCEPT ![p] = "none"]
  BY <1>1, <1>2, <1>3 DEF TypeOK
<1>9. SavesInv'
  BY <1>6, <1>7, <1>8, EnterStep
<1>10. /\ EventsGrow /\ rows' \subseteq rows \cup {i} /\ Locked(p, c, i)
       /\ i \in rows' \ rows /\ EventId(i) \in 0 .. MaxId => events'[EventId(i)] > 0
  <2>1. PICK sv : sv = saves
    OBVIOUS
  <2> QED
    BY <1>6, <1>7, <2>1, EnterFacts
<1>11. Enters(p)
  <2>1. LocksKnown => Stored(p) \subseteq {c}
    BY <1>3, <1>4 DEF LocksKnown
  <2> QED
    BY <1>8, <1>10, <2>1 DEF Enters
<1> QED
  BY <1>2, <1>9, <1>10, <1>11

(* A row that is no longer overdue has got its reset.                      *)
Rescheduled ==
    \A j \in overdue \ overdue' : EventId(j) \in 0 .. MaxId => events'[EventId(j)] > 0

(* A teleport out of the dungeon: the reference stays, the reset is        *)
(* scheduled, and the save stays because its player is bound or linked.    *)
LEMMA TeleportOutStep ==
  ASSUME SavesInv, NEW p \in Players, TeleportOut(p)
  PROVE  SavesInv' /\ EventsGrow /\ rows' = rows /\ Rescheduled
<1>1. /\ TypeOK /\ tele' = [tele EXCEPT ![p] = "out"] /\ p \in online /\ ref[p] # NoId
      /\ RemovePlayerFromMap(ref[p], ref, bind, saves)
      /\ UNCHANGED <<given, online, holder, ref, bind, maps, rows, lockRows, inDb>>
  BY DEF SavesInv, TeleportOut
<1>2. ref[p] \in maps /\ saves \subseteq Ids
  BY <1>1 DEF SavesInv, TypeOK, Linked
<1>3. /\ timer' \subseteq maps /\ events' \in [0 .. MaxId -> Nat]
      /\ \A e \in 0 .. MaxId : events'[e] >= events[e]
      /\ saves' \subseteq saves /\ \A q \in Players : bind[q] \in saves => bind[q] \in saves'
      /\ overdue' \subseteq overdue /\ Rescheduled
  BY <1>1, <1>2, RemoveFacts DEF Rescheduled
<1>4. /\ tele' \in [Players -> {"none", "in", "out"}] /\ tele'[p] = "out"
      /\ \A q \in Players \ {p} : tele'[q] = tele[q]
  BY <1>1 DEF TypeOK
<1>5. TypeOK'
  <2>1. \A q \in Players \ online' : ref'[q] = NoId /\ bind'[q] = NoId /\ tele'[q] = "none"
    BY <1>1, <1>4 DEF TypeOK
  <2> QED
    BY <1>1, <1>3, <1>4, <2>1 DEF TypeOK
<1>6. Linked'
  BY <1>1, <1>4 DEF SavesInv, Linked
<1>7. StoredIdsInUse' /\ BindHasSave' /\ SameSave'
  BY <1>1, <1>3 DEF SavesInv, StoredIdsInUse, BindHasSave, SameSave
<1> QED
  BY <1>1, <1>3, <1>5, <1>6, <1>7 DEF SavesInv, EventsGrow

(* A refused entry may use up an id and changes nothing else.              *)
LEMMA WorldportAckDeniedStep ==
  ASSUME SavesInv, NEW p \in Players, WorldportAckDenied(p)
  PROVE  SavesInv' /\ events' = events /\ rows' = rows /\ overdue' = overdue
<1>1. PICK i \in Ids : CreateInstanceForPlayer(bind[p], i) /\ i \in maps
  BY DEF WorldportAckDenied
<1>2. given \subseteq given' /\ maps' = maps
  BY <1>1 DEF CreateInstanceForPlayer, Alloc!GenerateInstanceId
<1>3. /\ TypeOK /\ tele' = [tele EXCEPT ![p] = "out"] /\ tele[p] = "in"
      /\ UNCHANGED <<online, holder, ref, bind, saves, timer, events, overdue, rows, lockRows, inDb>>
  BY DEF SavesInv, WorldportAckDenied
<1>4. /\ tele' \in [Players -> {"none", "in", "out"}] /\ tele'[p] = "out" /\ p \in online
      /\ \A q \in Players \ {p} : tele'[q] = tele[q]
  BY <1>3 DEF TypeOK
<1>5. TypeOK'
  <2>1. \A q \in Players \ online' : ref'[q] = NoId /\ bind'[q] = NoId /\ tele'[q] = "none"
    BY <1>3, <1>4 DEF TypeOK
  <2> QED
    BY <1>2, <1>3, <1>4, <2>1 DEF TypeOK
<1>6. Linked'
  BY <1>2, <1>3, <1>4 DEF SavesInv, Linked
<1>7. StoredIdsInUse' /\ BindHasSave' /\ SameSave'
  BY <1>2, <1>3 DEF SavesInv, StoredIdsInUse, BindHasSave, SameSave
<1> QED
  BY <1>3, <1>5, <1>6, <1>7 DEF SavesInv

(* A logout: the bind goes first, then the reference.                      *)
LEMMA LogoutPlayerStep ==
  ASSUME SavesInv, NEW p \in Players, LogoutPlayer(p)
  PROVE  SavesInv' /\ EventsGrow /\ rows' = rows /\ Rescheduled
<1> DEFINE b == [bind EXCEPT ![p] = NoId]
           sv == IF bind[p] = NoId THEN saves ELSE UnloadIfEmpty(bind[p], b, ref, saves)
<1>1. /\ TypeOK /\ bind' = b /\ ref' = [ref EXCEPT ![p] = NoId]
      /\ \/ ref[p] # NoId /\ RemovePlayerFromMap(ref[p], ref', b, sv)
         \/ saves' = sv /\ UNCHANGED <<timer, events, overdue>>
      /\ tele[p] = "none" /\ p \in online /\ online' = online \ {p} /\ inDb' \subseteq inDb \cup {p}
      /\ UNCHANGED <<given, holder, tele, maps, rows, lockRows>>
  BY DEF SavesInv, LogoutPlayer
<1>2. /\ bind' \in [Players -> Ids \cup {NoId}] /\ bind'[p] = NoId
      /\ ref' \in [Players -> Ids \cup {NoId}] /\ ref'[p] = NoId
      /\ \A q \in Players \ {p} : bind'[q] = bind[q] /\ ref'[q] = ref[q]
  BY <1>1 DEF TypeOK
<1> HIDE DEF b
<1>3. sv \subseteq saves /\ \A q \in Players : b[q] \in saves => b[q] \in sv
  <2>1. PICK i : i = bind[p]
    OBVIOUS
  <2>2. sv = saves \/ sv = UnloadIfEmpty(i, b, ref, saves)
    BY <2>1
  <2> HIDE DEF sv
  <2> QED
    BY <2>2, UnloadFacts
<1> HIDE DEF sv
<1>4. \A e \in 0 .. MaxId : events[e] \in Nat
  BY <1>1 DEF TypeOK
<1>5. /\ timer' \subseteq maps /\ events' \in [0 .. MaxId -> Nat]
      /\ \A e \in 0 .. MaxId : events'[e] >= events[e]
      /\ saves' \subseteq sv /\ \A q \in Players : b[q] \in sv => b[q] \in saves'
      /\ overdue' \subseteq overdue /\ Rescheduled
  <2>1. CASE ref[p] # NoId /\ RemovePlayerFromMap(ref[p], ref', b, sv)
    <3>1. ref[p] \in maps /\ sv \subseteq Ids
      BY <1>1, <1>3, <2>1 DEF SavesInv, TypeOK, Linked
    <3> QED
      BY <2>1, <3>1, RemoveFacts DEF Rescheduled
  <2>2. CASE saves' = sv /\ UNCHANGED <<timer, events, overdue>>
    BY <1>1, <1>4, <2>2 DEF TypeOK, Rescheduled
  <2> QED
    BY <1>1, <2>1, <2>2
<1>6. TypeOK'
  <2>1. \A q \in Players \ online' : ref'[q] = NoId /\ bind'[q] = NoId /\ tele'[q] = "none"
    BY <1>1, <1>2 DEF TypeOK
  <2>2. saves' \subseteq Ids
    BY <1>1, <1>3, <1>5 DEF TypeOK
  <2> QED
    BY <1>1, <1>2, <1>5, <2>1, <2>2 DEF TypeOK
<1>7. Linked'
  BY <1>1, <1>2 DEF SavesInv, Linked
<1>8. BindHasSave'
  BY <1>1, <1>2, <1>3, <1>5 DEF SavesInv, BindHasSave
<1>9. StoredIdsInUse' /\ SameSave'
  BY <1>1, <1>2 DEF SavesInv, StoredIdsInUse, SameSave
<1> QED
  BY <1>1, <1>5, <1>6, <1>7, <1>8, <1>9 DEF SavesInv, EventsGrow

(* The reset a player asks for: rows go, the id stays in use.              *)
LEMMA ResetInstancesStep ==
  ASSUME SavesInv, NEW p \in Players, ResetInstances(p)
  PROVE  /\ SavesInv' /\ events' = events /\ rows' \subseteq rows
         /\ overdue' = overdue \cap rows'
<1> DEFINE i == bind[p]
           b == [bind EXCEPT ![p] = NoId]
<1>1. /\ TypeOK /\ bind' = b /\ timer' = timer \cup ({i} \cap maps) /\ rows' = rows \ {i}
      /\ overdue' = overdue \ {i} /\ lockRows' = [q \in Players |-> lockRows[q] \ {i}]
      /\ saves' = UnloadIfEmpty(i, b, ref, saves)
      /\ p \in online /\ UNCHANGED <<given, online, holder, ref, tele, maps, events, inDb>>
  BY DEF SavesInv, ResetInstances
<1>2. /\ bind' \in [Players -> Ids \cup {NoId}] /\ bind'[p] = NoId
      /\ \A q \in Players \ {p} : bind'[q] = bind[q]
  BY <1>1 DEF TypeOK
<1>3. saves' \subseteq saves /\ \A q \in Players : bind'[q] \in saves => bind'[q] \in saves'
  <2> HIDE DEF b, i
  <2> QED
    BY <1>1, UnloadFacts
<1>4. lockRows' \in [Players -> SUBSET Ids] /\ overdue \subseteq rows
  BY <1>1 DEF TypeOK
<1> HIDE DEF b, i
<1>5. TypeOK'
  <2>1. \A q \in Players \ online' : ref'[q] = NoId /\ bind'[q] = NoId /\ tele'[q] = "none"
    BY <1>1, <1>2 DEF TypeOK
  <2>2. /\ saves' \subseteq Ids /\ timer' \subseteq maps' /\ rows' \subseteq Ids
        /\ overdue' \subseteq rows'
    BY <1>1, <1>3, <1>4 DEF TypeOK
  <2> QED
    BY <1>1, <1>2, <1>4, <2>1, <2>2 DEF TypeOK
<1>6. Linked'
  BY <1>1 DEF SavesInv, Linked
<1>7. BindHasSave'
  BY <1>2, <1>3 DEF SavesInv, BindHasSave
<1>8. StoredIdsInUse' /\ SameSave'
  BY <1>1, <1>2 DEF SavesInv, StoredIdsInUse, SameSave
<1> QED
  BY <1>1, <1>4, <1>5, <1>6, <1>7, <1>8 DEF SavesInv

(* A reset that fires frees the id with everything that names it, the      *)
(* references of players inside excepted.                                  *)
LEMMA FireResetStep ==
  ASSUME SavesInv, NEW i \in Ids, FireReset(i)
  PROVE  /\ SavesInv' /\ rows' = rows \ {i} /\ overdue' = overdue \cap rows'
         /\ \A e \in (0 .. MaxId) \ {i} : events'[e] = events[e]
<1>1. /\ TypeOK /\ events[i] > 0 /\ events' = [events EXCEPT ![i] = events[i] - 1]
      /\ bind' = [p \in Players |-> IF bind[p] = i THEN NoId ELSE bind[p]]
      /\ saves' = saves \ {i} /\ rows' = rows \ {i} /\ overdue' = overdue \ {i}
      /\ lockRows' = [p \in Players |-> lockRows[p] \ {i}]
      /\ timer' = IF HavePlayers(i, ref) THEN timer ELSE timer \cup ({i} \cap maps)
      /\ given' = given \ {i}
      /\ UNCHANGED <<online, holder, ref, tele, maps, inDb>>
  BY DEF SavesInv, FireReset, Alloc!FreeInstanceId
<1>2. /\ events' \in [0 .. MaxId -> Nat]
      /\ \A e \in (0 .. MaxId) \ {i} : events'[e] = events[e]
  <2>1. events \in [0 .. MaxId -> Nat] /\ i \in 0 .. MaxId
    BY <1>1, NoIdIsNone DEF TypeOK
  <2>2. events[i] - 1 \in Nat
    BY <1>1, <2>1
  <2> QED
    BY <1>1, <2>1, <2>2
<1>3. bind' \in [Players -> Ids \cup {NoId}]
  BY <1>1 DEF TypeOK
<1>4. \A q \in Players : bind'[q] = IF bind[q] = i THEN NoId ELSE bind[q]
  BY <1>1
<1>5. lockRows' \in [Players -> SUBSET Ids] /\ overdue' = overdue \cap rows'
  BY <1>1 DEF TypeOK
<1>6. TypeOK'
  <2>1. \A q \in Players \ online' : ref'[q] = NoId /\ bind'[q] = NoId /\ tele'[q] = "none"
    BY <1>1, <1>4 DEF TypeOK
  <2>2. saves' \subseteq Ids /\ timer' \subseteq maps' /\ rows' \subseteq Ids
    BY <1>1 DEF TypeOK
  <2> QED
    BY <1>1, <1>2, <1>3, <1>5, <2>1, <2>2 DEF TypeOK
<1>7. Linked'
  BY <1>1 DEF SavesInv, Linked
<1>8. BindHasSave' /\ StoredIdsInUse' /\ SameSave'
  BY <1>1, <1>4 DEF SavesInv, BindHasSave, StoredIdsInUse, SameSave
<1> QED
  BY <1>1, <1>2, <1>5, <1>6, <1>7, <1>8 DEF SavesInv

(* LoadInstances registers the ids of exactly the rows it keeps, and       *)
(* LoadResetTimes schedules all of them but the late ones.                 *)
LEMMA RestartStep ==
  ASSUME SavesInv, NEW expired, NEW late, Restart(expired, late)
  PROVE  /\ SavesInv'
         /\ \A i \in rows' \ overdue' : EventId(i) \in 0 .. MaxId => events'[EventId(i)] > 0
<1> DEFINE kept == {i \in rows \ expired : \E p \in Players : i \in lockRows[p]}
           due(e) == {i \in kept \ late : EventId(i) = e}
<1>1. /\ TypeOK /\ given' = kept /\ rows' = kept /\ overdue' = late /\ late \subseteq kept
      /\ lockRows' = [p \in Players |-> lockRows[p] \cap kept]
      /\ events' = [e \in DOMAIN events |-> Cardinality(due(e))]
      /\ online' = {} /\ holder' = [p \in Players |-> {}]
      /\ ref' = [p \in Players |-> NoId] /\ bind' = [p \in Players |-> NoId]
      /\ tele' = [p \in Players |-> "none"]
      /\ saves' = {} /\ maps' = {} /\ timer' = {} /\ inDb' = inDb
  BY DEF SavesInv, Restart
<1>2. kept \subseteq rows /\ kept \subseteq Ids
  BY <1>1 DEF TypeOK
<1> HIDE DEF kept
<1>3. \A e : IsFiniteSet(due(e)) /\ Cardinality(due(e)) \in Nat
  <2> SUFFICES ASSUME NEW e PROVE IsFiniteSet(due(e)) /\ Cardinality(due(e)) \in Nat
    OBVIOUS
  <2>1. due(e) \subseteq Ids
    BY <1>2
  <2> HIDE DEF due
  <2> QED
    BY <2>1, NoIdIsNone, FS_Subset, FS_CardinalityType
<1>4. \A i \in kept \ late : Cardinality(due(EventId(i))) > 0
  <2> SUFFICES ASSUME NEW i \in kept \ late PROVE Cardinality(due(EventId(i))) > 0
    OBVIOUS
  <2> DEFINE S == due(EventId(i))
  <2>1. S # {}
    OBVIOUS
  <2>2. IsFiniteSet(S) /\ Cardinality(S) \in Nat
    BY <1>3
  <2> HIDE DEF S
  <2>3. Cardinality(S) # 0
    BY <2>1, <2>2, FS_EmptySet
  <2>4. Cardinality(S) > 0
    BY <2>2, <2>3
  <2> QED
    BY <2>4 DEF S
<1>5. /\ DOMAIN events = 0 .. MaxId
      /\ events' \in [0 .. MaxId -> Nat]
      /\ \A e \in 0 .. MaxId : events'[e] = Cardinality(due(e))
  <2>1. DOMAIN events = 0 .. MaxId
    BY <1>1 DEF TypeOK
  <2> HIDE DEF due
  <2> QED
    BY <1>1, <1>3, <2>1
<1> HIDE DEF due
<1>6. \A i \in rows' \ overdue' : EventId(i) \in 0 .. MaxId => events'[EventId(i)] > 0
  BY <1>1, <1>4, <1>5
<1>7. lockRows' \in [Players -> SUBSET Ids]
  BY <1>1 DEF TypeOK
<1>8. TypeOK'
  BY <1>1, <1>2, <1>5, <1>7 DEF TypeOK
<1>9. Linked'
  BY <1>1 DEF Linked
<1>10. BindHasSave' /\ StoredIdsInUse' /\ SameSave'
  BY <1>1 DEF BindHasSave, StoredIdsInUse, SameSave
<1> QED
  BY <1>6, <1>8, <1>9, <1>10 DEF SavesInv

(* Every step keeps SavesInv.                                             *)
LEMMA SavesStep ==
  ASSUME SavesInv, [Next]_vars
  PROVE  SavesInv'
<1>1. CASE UNCHANGED vars
  BY <1>1, SavesStutter
<1>2. ASSUME NEW p \in Players, BeginLogin(p) \/ LoginOutside(p) \/ LoginInside(p)
      PROVE  SavesInv'
  BY <1>2, BeginLoginStep, LoginOutsideStep, LoginInsideStep
<1>3. ASSUME NEW p \in Players, TeleportIn(p) \/ TeleportOut(p)
      PROVE  SavesInv'
  BY <1>3, TeleportInStep, TeleportOutStep
<1>4. ASSUME NEW p \in Players,
             WorldportAckIn(p) \/ WorldportAckDenied(p) \/ WorldportAckOut(p)
      PROVE  SavesInv'
  BY <1>4, WorldportAckInStep, WorldportAckDeniedStep, WorldportAckOutStep
<1>5. ASSUME NEW p \in Players, SaveToDB(p) \/ LogoutPlayer(p) \/ ResetInstances(p)
      PROVE  SavesInv'
  BY <1>5, SaveToDBStep, LogoutPlayerStep, ResetInstancesStep
<1>6. ASSUME NEW i \in Ids, FireReset(i) \/ UnloadMap(i)
      PROVE  SavesInv'
  BY <1>6, FireResetStep, UnloadMapStep
<1>7. ASSUME NEW expired \in SUBSET rows, NEW late \in SUBSET rows, Restart(expired, late)
      PROVE  SavesInv'
  BY <1>7, RestartStep
<1> QED
  BY <1>1, <1>2, <1>3, <1>4, <1>5, <1>6, <1>7 DEF Next

(* SavesInv holds in every reachable state, through restarts.              *)
THEOREM SavesInvariant == Spec => []SavesInv
<1>1. Init => SavesInv
  BY SavesInit
<1>2. SavesInv /\ [Next]_vars => SavesInv'
  BY SavesStep
<1> QED
  BY <1>1, <1>2, PTL DEF Spec

(* The state of saves, binds, maps and tables keeps its types.             *)
THEOREM SavesTypes == Spec => []TypeOK
<1>1. SavesInv => TypeOK
  BY DEF SavesInv
<1> QED
  BY <1>1, SavesInvariant, PTL

(* GenerateInstanceId never gives the id of a stored lockout to somebody   *)
(* else: only _ResetInstance, which deletes the rows, frees an id.         *)
THEOREM LockoutsKeepTheirIds == Spec => []StoredIdsInUse
<1>1. SavesInv => StoredIdsInUse
  BY DEF SavesInv
<1> QED
  BY <1>1, SavesInvariant, PTL

(* No path of UnloadIfEmpty or _ResetSave deletes a save under a bind.     *)
THEOREM BindsDoNotDangle == Spec => []BindHasSave
<1>1. SavesInv => BindHasSave
  BY DEF SavesInv
<1> QED
  BY <1>1, SavesInvariant, PTL

(* The assertion in InstanceMap::AddPlayerToMap cannot fail.               *)
THEOREM BoundPlayersAreInTheirSave == Spec => []SameSave
<1>1. SavesInv => SameSave
  BY DEF SavesInv
<1> QED
  BY <1>1, SavesInvariant, PTL
(* Lock rows and stored instances that only become fewer, with the same    *)
(* players, binds and queries.                                             *)
LEMMA LocksFewer ==
  ASSUME LocksKnown,
         \A p \in Players : lockRows'[p] \subseteq given' /\ Stored(p)' \subseteq Stored(p),
         \A p \in Players : holder'[p] \subseteq holder[p] /\ (p \in online' => p \in online),
         \A p \in online' : Stored(p)' \subseteq {bind'[p]}
  PROVE  LocksKnown'
<1> SUFFICES ASSUME NEW p \in Players
             PROVE  /\ lockRows'[p] \subseteq given' /\ \E x : Stored(p)' \subseteq {x}
                    /\ p \in online' => Stored(p)' \subseteq {bind'[p]}
                    /\ \A s \in holder'[p] : Stored(p)' \subseteq s /\ \E x : s \subseteq {x}
  BY DEF LocksKnown
<1>1. PICK x : Stored(p) \subseteq {x}
  BY DEF LocksKnown
<1>2. \A s \in holder[p] : Stored(p) \subseteq s /\ \E y : s \subseteq {y}
  BY DEF LocksKnown
<1>3. /\ lockRows'[p] \subseteq given' /\ Stored(p)' \subseteq Stored(p)
      /\ holder'[p] \subseteq holder[p]
  OBVIOUS
<1>4. Stored(p)' \subseteq {x}
  BY <1>1, <1>3
<1>5. \A s \in holder'[p] : Stored(p)' \subseteq s /\ \E y : s \subseteq {y}
  BY <1>2, <1>3
<1> QED
  BY <1>3, <1>4, <1>5

(* An entry: the id of a new instance is in nobody's lock rows.            *)
LEMMA LocksEnter ==
  ASSUME SavesInv, LocksKnown, Alloc!NextUnused, NEW p \in Players, Enters(p)
  PROVE  LocksKnown'
<1>1. PICK c \in Ids \cup {NoId}, i \in Ids : Locked(p, c, i) /\ Stored(p) \subseteq {c}
  BY DEF Enters
<1>2. /\ bind'[p] = i /\ (c = NoId \/ c = i)
      /\ lockRows'[p] = IF c = NoId THEN lockRows[p] \cup {i} ELSE lockRows[p]
      /\ \A q \in Players \ {p} : bind'[q] = bind[q] /\ lockRows'[q] = lockRows[q]
      /\ rows' \subseteq rows \cup {i} /\ (i \in rows' \ rows => c = NoId)
      /\ given \subseteq given' /\ (c = NoId => i = next /\ i \in given')
  BY <1>1 DEF Locked
<1>3. /\ online' = online \cup {p} /\ holder'[p] = {}
      /\ \A q \in Players \ {p} : holder'[q] = holder[q]
  BY DEF Enters, SavesInv, TypeOK
<1>4. rows \subseteq Ids /\ \A q \in Players : lockRows[q] \subseteq given
  BY DEF SavesInv, TypeOK, LocksKnown
<1>5. c = NoId => i \notin given
  BY <1>2 DEF Alloc!NextUnused
<1>6. \A q \in Players : lockRows'[q] \subseteq given'
  BY <1>2, <1>4
<1>7. \A q \in Players \ {p} : Stored(q)' \subseteq Stored(q)
  BY <1>2, <1>4, <1>5 DEF Stored
<1>8. Stored(p)' \subseteq {i}
  <2>1. CASE c = NoId
    <3>1. Stored(p) = {}
      BY <1>1, <1>4, <2>1, NoIdIsNone DEF Stored
    <3> QED
      BY <1>2, <2>1, <3>1 DEF Stored
  <2>2. CASE c # NoId
    BY <1>1, <1>2, <2>2 DEF Stored
  <2> QED
    BY <2>1, <2>2
<1> SUFFICES ASSUME NEW q \in Players
             PROVE  /\ \E x : Stored(q)' \subseteq {x}
                    /\ q \in online' => Stored(q)' \subseteq {bind'[q]}
                    /\ \A s \in holder'[q] : Stored(q)' \subseteq s /\ \E x : s \subseteq {x}
  BY <1>6 DEF LocksKnown
<1>9. CASE q = p
  BY <1>2, <1>3, <1>8, <1>9
<1>10. CASE q # p
  <2>1. PICK x : Stored(q) \subseteq {x}
    BY DEF LocksKnown
  <2>2. /\ q \in online => Stored(q) \subseteq {bind[q]}
        /\ \A s \in holder[q] : Stored(q) \subseteq s /\ \E y : s \subseteq {y}
    BY DEF LocksKnown
  <2>3. /\ Stored(q)' \subseteq Stored(q) /\ bind'[q] = bind[q] /\ holder'[q] = holder[q]
        /\ (q \in online' => q \in online)
    BY <1>2, <1>3, <1>7, <1>10
  <2> QED
    BY <2>1, <2>2, <2>3
<1> QED
  BY <1>9, <1>10

(* The two halves of a login outside the dungeon.                          *)
LEMMA LocksLogin ==
  ASSUME SavesInv, LocksKnown, NEW p \in Players, BeginLogin(p) \/ LoginOutside(p)
  PROVE  LocksKnown'
<1>1. /\ UNCHANGED <<given, rows, lockRows>> /\ online \subseteq online'
      /\ online' \subseteq online \cup {p}
  BY DEF BeginLogin, LoginOutside
<1>2. \A q \in Players \ {p} : bind'[q] = bind[q] /\ holder'[q] = holder[q]
  <2>1. \E b, h : (bind' = bind \/ bind' = [bind EXCEPT ![p] = b]) /\ holder' = [holder EXCEPT ![p] = h]
    BY DEF BeginLogin, LoginOutside
  <2> QED
    BY <2>1 DEF SavesInv, TypeOK
<1>3. Stored(p) \subseteq Ids
  BY DEF SavesInv, TypeOK, Stored
<1>4. /\ \A s \in holder'[p] : s = Stored(p)
      /\ p \in online' => Stored(p) \subseteq {bind'[p]}
  <2>1. CASE BeginLogin(p)
    BY <2>1 DEF BeginLogin, Stored, SavesInv, TypeOK
  <2>2. CASE LoginOutside(p)
    <3>1. PICK b \in Ids \cup {NoId} : LoadedBind(p, b) /\ bind' = [bind EXCEPT ![p] = b]
      BY <2>2 DEF LoginOutside
    <3>2. holder[p] # {} /\ holder' = [holder EXCEPT ![p] = {}]
      BY <2>2 DEF LoginOutside
    <3>3. Stored(p) \subseteq {b}
      BY <3>1, <3>2, LoadedFacts
    <3>4. holder'[p] = {} /\ bind'[p] = b
      BY <3>1, <3>2 DEF SavesInv, TypeOK
    <3> QED
      BY <3>3, <3>4
  <2> QED
    BY <2>1, <2>2
<1> SUFFICES ASSUME NEW q \in Players
             PROVE  /\ lockRows'[q] \subseteq given' /\ \E x : Stored(q)' \subseteq {x}
                    /\ q \in online' => Stored(q)' \subseteq {bind'[q]}
                    /\ \A s \in holder'[q] : Stored(q)' \subseteq s /\ \E x : s \subseteq {x}
  BY DEF LocksKnown
<1>5. Stored(q)' = Stored(q) /\ lockRows'[q] = lockRows[q] /\ given' = given
  BY <1>1 DEF Stored
<1>6. PICK x : Stored(q) \subseteq {x}
  BY DEF LocksKnown
<1>7. /\ lockRows[q] \subseteq given /\ (q \in online => Stored(q) \subseteq {bind[q]})
      /\ \A s \in holder[q] : Stored(q) \subseteq s /\ \E y : s \subseteq {y}
  BY DEF LocksKnown
<1>8. CASE q = p
  BY <1>4, <1>5, <1>6, <1>7, <1>8
<1>9. CASE q # p
  BY <1>1, <1>2, <1>5, <1>6, <1>7, <1>9
<1> QED
  BY <1>8, <1>9

(* The steps that touch neither lock rows nor stored instances.            *)
LEMMA LocksSame ==
  ASSUME SavesInv, LocksKnown, UNCHANGED <<rows, lockRows, holder>>, given \subseteq given',
         online' \subseteq online, \A p \in online' : bind'[p] = bind[p]
  PROVE  LocksKnown'
<1>1. \A p \in Players : Stored(p)' = Stored(p) /\ lockRows'[p] \subseteq given'
  BY DEF Stored, LocksKnown
<1>2. \A p \in online' : Stored(p)' \subseteq {bind'[p]}
  BY <1>1 DEF LocksKnown, SavesInv, TypeOK
<1> QED
  BY <1>1, <1>2, LocksFewer

(* The resets take lock rows away with the instance and the binds to it.   *)
LEMMA LocksReset ==
  ASSUME SavesInv, LocksKnown, NEW i,
         rows' = rows \ {i}, lockRows' = [p \in Players |-> lockRows[p] \ {i}],
         given \ {i} \subseteq given', UNCHANGED <<online, holder>>,
         \A p \in Players : bind'[p] = bind[p] \/ bind[p] = i
  PROVE  LocksKnown'
<1>1. \A p \in Players : Stored(p)' = Stored(p) \ {i} /\ lockRows'[p] \subseteq given'
  BY DEF Stored, LocksKnown
<1>2. \A p \in online' : Stored(p)' \subseteq {bind'[p]}
  BY <1>1 DEF LocksKnown, SavesInv, TypeOK
<1> QED
  BY <1>1, <1>2, LocksFewer

(* A restart keeps the lock rows of the instances it keeps.                *)
LEMMA LocksRestart ==
  ASSUME LocksKnown, NEW expired, NEW late, Restart(expired, late)
  PROVE  LocksKnown'
<1>1. PICK kept : /\ given' = kept /\ rows' = kept /\ kept \subseteq rows
                  /\ lockRows' = [p \in Players |-> lockRows[p] \cap kept]
                  /\ online' = {} /\ holder' = [p \in Players |-> {}]
  BY DEF Restart
<1>2. \A p \in Players : Stored(p)' \subseteq Stored(p) /\ lockRows'[p] \subseteq given'
  BY <1>1 DEF Stored
<1> QED
  BY <1>1, <1>2, LocksFewer

(* Every step keeps LocksKnown while GenerateInstanceId has an unused id.  *)
LEMMA LocksStep ==
  ASSUME SavesInv, LocksKnown, Alloc!NextUnused, [Next]_vars
  PROVE  LocksKnown'
<1>1. CASE UNCHANGED vars
  BY <1>1, LocksSame DEF vars
<1>2. ASSUME NEW p \in Players, BeginLogin(p) \/ LoginOutside(p)
      PROVE  LocksKnown'
  BY <1>2, LocksLogin
<1>3. ASSUME NEW p \in Players, LoginInside(p) \/ WorldportAckIn(p)
      PROVE  LocksKnown'
  <2>1. Enters(p)
    BY <1>3, LoginInsideStep, WorldportAckInStep
  <2> QED
    BY <2>1, LocksEnter
<1>4. ASSUME NEW p \in Players,
             TeleportIn(p) \/ TeleportOut(p) \/ WorldportAckOut(p) \/ SaveToDB(p)
      PROVE  LocksKnown'
  <2>1. UNCHANGED <<given, rows, lockRows, holder, online, bind>>
    BY <1>4 DEF TeleportIn, TeleportOut, WorldportAckOut, SaveToDB
  <2> QED
    BY <2>1, LocksSame
<1>5. ASSUME NEW p \in Players, WorldportAckDenied(p)
      PROVE  LocksKnown'
  <2>1. given \subseteq given'
    BY <1>5 DEF WorldportAckDenied, CreateInstanceForPlayer, Alloc!GenerateInstanceId
  <2>2. UNCHANGED <<rows, lockRows, holder, online, bind>>
    BY <1>5 DEF WorldportAckDenied
  <2> QED
    BY <2>1, <2>2, LocksSame
<1>6. ASSUME NEW p \in Players, LogoutPlayer(p)
      PROVE  LocksKnown'
  <2>1. /\ UNCHANGED <<given, rows, lockRows, holder>> /\ online' = online \ {p}
        /\ bind' = [bind EXCEPT ![p] = NoId]
    BY <1>6 DEF LogoutPlayer
  <2>2. \A q \in online' : bind'[q] = bind[q]
    BY <2>1 DEF SavesInv, TypeOK
  <2> QED
    BY <2>1, <2>2, LocksSame
<1>7. ASSUME NEW p \in Players, ResetInstances(p)
      PROVE  LocksKnown'
  <2>1. PICK i : i = bind[p]
    OBVIOUS
  <2>2. /\ rows' = rows \ {i} /\ lockRows' = [q \in Players |-> lockRows[q] \ {i}]
        /\ bind' = [bind EXCEPT ![p] = NoId] /\ UNCHANGED <<given, online, holder>>
    BY <1>7, <2>1 DEF ResetInstances
  <2>3. \A q \in Players : bind'[q] = bind[q] \/ bind[q] = i
    BY <2>1, <2>2 DEF SavesInv, TypeOK
  <2> QED
    BY <2>2, <2>3, LocksReset
<1>8. ASSUME NEW i \in Ids, FireReset(i)
      PROVE  LocksKnown'
  <2>1. /\ rows' = rows \ {i} /\ lockRows' = [q \in Players |-> lockRows[q] \ {i}]
        /\ bind' = [q \in Players |-> IF bind[q] = i THEN NoId ELSE bind[q]]
        /\ given' = given \ {i} /\ UNCHANGED <<online, holder>>
    BY <1>8 DEF FireReset, Alloc!FreeInstanceId
  <2>2. \A q \in Players : bind'[q] = bind[q] \/ bind[q] = i
    BY <2>1
  <2> QED
    BY <2>1, <2>2, LocksReset
<1>9. ASSUME NEW i \in Ids, UnloadMap(i)
      PROVE  LocksKnown'
  BY <1>9, LocksSame DEF UnloadMap
<1>10. ASSUME NEW expired \in SUBSET rows, NEW late \in SUBSET rows, Restart(expired, late)
       PROVE  LocksKnown'
  BY <1>10, LocksRestart
<1> QED
  BY <1>1, <1>2, <1>3, <1>4, <1>5, <1>6, <1>7, <1>8, <1>9, <1>10 DEF Next

(* Nobody is locked to two stored instances of the dungeon, although       *)
(* logins read rows that resets may have taken away meanwhile and lock     *)
(* rows can outlive their instance, for as long as GenerateInstanceId has  *)
(* an unused id.  By RepeatsOnlyAtWords of InstanceIdsProofs it has one    *)
(* unless the next id is a multiple of the word size; given an id in use,  *)
(* a lock row left without instance could get one again.                   *)
THEOREM OneLockout == Spec /\ []Alloc!NextUnused => []OneLock
<1>1. Init => LocksKnown
  BY SavesInit
<1>2. SavesInv /\ LocksKnown /\ Alloc!NextUnused /\ [Next]_vars => LocksKnown'
  BY LocksStep
<1>3. LocksKnown => OneLock
  <2> SUFFICES ASSUME LocksKnown, NEW p \in Players PROVE Cardinality(lockRows[p] \cap rows) <= 1
    BY DEF OneLock
  <2>1. PICK x : lockRows[p] \cap rows \subseteq {x}
    BY DEF LocksKnown, Stored
  <2>2. lockRows[p] \cap rows = {} \/ lockRows[p] \cap rows = {x}
    BY <2>1
  <2>3. Cardinality({}) = 0 /\ Cardinality({x}) = 1
    BY FS_EmptySet, FS_Singleton
  <2> QED
    BY <2>2, <2>3
<1> QED
  BY <1>1, <1>2, <1>3, SavesInvariant, PTL DEF Spec

(* A stored instance without players has its reset pending, for ever, as   *)
(* long as the ids stay below 2^16, the width of InstResetEvent's field,   *)
(* and unless LoadResetTimes found its reset time past and did not         *)
(* schedule it.                                                            *)
THEOREM LockoutsExpire ==
  ASSUME MaxId < EventIds
  PROVE  Spec => []StoredHasReset
<1>1. Init => StoredScheduled
  BY SavesInit
<1>2. SavesInv /\ StoredScheduled /\ [Next]_vars => StoredScheduled'
  <2> SUFFICES ASSUME SavesInv, StoredScheduled, [Next]_vars, NEW j \in rows' \ overdue'
               PROVE  events'[EventId(j)] > 0
    BY DEF StoredScheduled
  <2>1. TypeOK /\ SavesInv'
    <3>1. SavesInv'
      BY SavesStep
    <3> QED
      BY <3>1 DEF SavesInv
  <2>2. j \in Ids
    BY <2>1 DEF SavesInv, TypeOK
  <2>3. EventId(j) = j /\ j \in 0 .. MaxId
    BY <2>2, EventIdBelow
  <2>4. /\ events[j] \in Nat /\ events'[j] \in Nat
        /\ j \in rows \ overdue => events[j] > 0
    BY <2>1, <2>3 DEF SavesInv, TypeOK, StoredScheduled
  <2>5. CASE j \in rows \ overdue /\ events'[j] >= events[j]
    BY <2>3, <2>4, <2>5
  <2>6. CASE UNCHANGED <<events, rows, overdue>>
    BY <2>3, <2>4, <2>6
  <2>7. ASSUME NEW p \in Players, LoginInside(p) \/ WorldportAckIn(p)
        PROVE  events'[EventId(j)] > 0
    <3>1. /\ EventsGrow /\ overdue' = overdue
          /\ \A i \in rows' \ rows : EventId(i) \in 0 .. MaxId => events'[EventId(i)] > 0
      BY <2>7, LoginInsideStep, WorldportAckInStep
    <3> QED
      BY <2>3, <2>4, <2>5, <3>1 DEF EventsGrow
  <2>8. ASSUME NEW p \in Players, TeleportOut(p) \/ LogoutPlayer(p)
        PROVE  events'[EventId(j)] > 0
    <3>1. EventsGrow /\ rows' = rows /\ Rescheduled
      BY <2>8, TeleportOutStep, LogoutPlayerStep
    <3> QED
      BY <2>3, <2>4, <2>5, <3>1 DEF EventsGrow, Rescheduled
  <2>9. ASSUME NEW p \in Players, ResetInstances(p) \/ WorldportAckDenied(p)
        PROVE  events'[EventId(j)] > 0
    <3>1. events' = events /\ rows' \subseteq rows /\ overdue \cap rows' \subseteq overdue'
      BY <2>9, ResetInstancesStep, WorldportAckDeniedStep
    <3> QED
      BY <2>3, <2>4, <3>1
  <2>10. ASSUME NEW p \in Players,
               \/ BeginLogin(p) \/ LoginOutside(p) \/ TeleportIn(p)
               \/ WorldportAckOut(p) \/ SaveToDB(p)
        PROVE  events'[EventId(j)] > 0
    BY <2>6, <2>10 DEF BeginLogin, LoginOutside, TeleportIn, WorldportAckOut, SaveToDB
  <2>11. ASSUME NEW i \in Ids, FireReset(i) \/ UnloadMap(i)
         PROVE  events'[EventId(j)] > 0
    <3>1. CASE FireReset(i)
      <4>1. /\ rows' = rows \ {i} /\ overdue' = overdue \cap rows'
            /\ \A e \in (0 .. MaxId) \ {i} : events'[e] = events[e]
        BY <3>1, FireResetStep
      <4> QED
        BY <2>3, <2>4, <4>1
    <3>2. CASE UnloadMap(i)
      BY <2>6, <3>2 DEF UnloadMap
    <3> QED
      BY <2>11, <3>1, <3>2
  <2>12. ASSUME NEW expired \in SUBSET rows, NEW late \in SUBSET rows, Restart(expired, late)
         PROVE  events'[EventId(j)] > 0
    BY <2>3, <2>12, RestartStep
  <2>13. CASE UNCHANGED vars
    BY <2>6, <2>13 DEF vars
  <2> QED
    BY <2>7, <2>8, <2>9, <2>10, <2>11, <2>12, <2>13 DEF Next
<1>3. StoredScheduled => StoredHasReset
  BY DEF StoredScheduled, StoredHasReset
<1> QED
  BY <1>1, <1>2, <1>3, SavesInvariant, PTL DEF Spec
=============================================================================
