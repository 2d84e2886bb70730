------------------------------- MODULE Trade -------------------------------
(***************************************************************************)
(* Trade between two players: TradeData, the handlers of TradeHandler.cpp  *)
(* and the parts of Player they rely on.  They run on the world thread,    *)
(* one packet at a time, except CMSG_CAST_SPELL, which is handled in the   *)
(* update of the player's map: the barrier of MapUpdater keeps that apart  *)
(* from the world thread.  What can happen between two packets is that a   *)
(* player spends money, an item leaves an inventory or comes to it, or a   *)
(* player logs out.                                                        *)
(*                                                                         *)
(* A trade slot holds the GUID of an item, so an item that has left the    *)
(* inventory is still named in the window.  An item takes one place of an  *)
(* inventory; stacks are not split or merged.                              *)
(***************************************************************************)
EXTENDS Integers, FiniteSets, FiniteSetsExt

CONSTANTS
    Players, NoPlayer,
    Items, NoItem,
    TradedCount,   \* TRADE_SLOT_TRADED_COUNT
    Kind,          \* the entry (item template) of an item
    MaxCount,      \* how many of a kind one player may have; 0 is no maximum
    Capacity,      \* places in the inventory of a player
    MaxMoney,      \* MAX_MONEY_AMOUNT
    Casters,       \* players with a spell for an item of somebody else
    StartInvs, StartGold,
    MaxAway        \* bound: items that are in nobody's inventory

Inventory == [Items -> Nat]

(* The places that the items S take in inventory f.                        *)
PlacesTaken(f, S) == UNION {{i} \X (1 .. f[i]) : i \in S}

Used(f) == Cardinality(PlacesTaken(f, Items))

ASSUME TradeAssumption ==
    /\ IsFiniteSet(Players) /\ NoPlayer \notin Players
    /\ IsFiniteSet(Items) /\ NoItem \notin Items
    /\ TradedCount \in Nat /\ MaxMoney \in Nat \ {0} /\ MaxAway \in Nat
    /\ \A i \in Items : MaxCount[Kind[i]] \in Nat
    /\ Capacity \in [Players -> Nat] /\ Casters \subseteq Players
    /\ \A v \in StartInvs :
        v \in [Players -> Inventory] /\ \A p \in Players : Used(v[p]) =< Capacity[p]
    /\ StartGold \in [Players -> 0 .. MaxMoney - 1]

VARIABLES
    trade,         \* m_trade of each player
    inv,           \* how many places of a player's inventory hold an item
    gold,          \* GetMoney()
    away,          \* items in a mail, an auction or a bank of a guild
    seen           \* history: the offers a player has accepted

vars == <<trade, inv, gold, away, seen>>

Traded == 1 .. TradedCount
NonTraded == 0
Slots == Traded \cup {NonTraded}

(* TradeData.                                                              *)
TradeData == [trader : Players \cup {NoPlayer}, items : [Slots -> Items \cup {NoItem}],
              money : Nat, spell : BOOLEAN, accepted : BOOLEAN]

NewTrade(q) == [trader |-> q, items |-> [s \in Slots |-> NoItem],
                money |-> 0, spell |-> FALSE, accepted |-> FALSE]

NoTrade == NewTrade(NoPlayer)

InTrade(p) == trade[p].trader # NoPlayer

(* TradeData::GetItem: the item in a slot, if the player still has it.     *)
GetItem(p, s) ==
    LET i == trade[p].items[s]
    IN  IF i # NoItem /\ inv[p][i] > 0 THEN i ELSE NoItem

HasItem(p, i) == \E s \in Slots : trade[p].items[s] = i

-----------------------------------------------------------------------------
(* The setters of TradeData on the trades t: whatever changes what one     *)
(* player gives takes back the acceptance of both.                         *)
Unaccepted(t, p) == [t EXCEPT ![p].accepted = FALSE, ![t[p].trader].accepted = FALSE]

SetSpell(t, p, spell) ==
    IF t[p].spell = spell THEN t
    ELSE Unaccepted([t EXCEPT ![p].spell = spell], p)

(* Faulty variant: the partner stays accepted.                             *)
SetItem_OwnOnly(t, p, s, i) ==
    IF t[p].items[s] = i THEN t
    ELSE LET t1 == [t EXCEPT ![p].items[s] = i, ![p].accepted = FALSE]
             t2 == IF s = NonTraded THEN SetSpell(t1, t[p].trader, FALSE) ELSE t1
         IN  SetSpell(t2, p, FALSE)

SetItem(t, p, s, i) ==
    IF t[p].items[s] = i THEN t
    ELSE LET t1 == Unaccepted([t EXCEPT ![p].items[s] = i], p)
             t2 == IF s = NonTraded THEN SetSpell(t1, t[p].trader, FALSE) ELSE t1
         IN  SetSpell(t2, p, FALSE)

SetMoney(t, p, m) ==
    IF t[p].money = m \/ gold[p] < m THEN t
    ELSE Unaccepted([t EXCEPT ![p].money = m], p)

(* Faulty variant: the partner's side is kept.                             *)
TradeCancel_OneSide(t, p) == [t EXCEPT ![p] = NoTrade]

(* Player::TradeCancel.                                                    *)
TradeCancel(t, p) ==
    IF t[p].trader = NoPlayer THEN t
    ELSE [t EXCEPT ![p] = NoTrade, ![t[p].trader] = NoTrade]

-----------------------------------------------------------------------------
(* The handlers.  One that changes nothing is a stuttering step.           *)

(* HandleInitiateTradeOpcode, when none of its checks refuses.             *)
InitiateTrade(p, q) ==
    /\ p # q
    /\ ~InTrade(p) /\ ~InTrade(q)
    /\ trade' = [trade EXCEPT ![p] = NewTrade(q), ![q] = NewTrade(p)]
    /\ UNCHANGED <<inv, gold, away>>

SetTradeGold(p, m) ==
    /\ InTrade(p) /\ trade[p].money # m
    /\ trade' = SetMoney(trade, p, m)
    /\ UNCHANGED <<inv, gold, away>>

(* Faulty variant: an item may be put into a second slot.                  *)
SetTradeItem_Again(p, s, i) ==
    /\ InTrade(p) /\ inv[p][i] > 0
    /\ s = NonTraded => trade[p].trader \in Casters
    /\ trade' = SetItem(trade, p, s, i)
    /\ UNCHANGED <<inv, gold, away>>

(* An item that cannot be traded is refused as well.  Bound: the slot that *)
(* is not traded, which only spells look at, is used for casters only.     *)
SetTradeItem(p, s, i) ==
    /\ InTrade(p) /\ inv[p][i] > 0
    /\ s = NonTraded => trade[p].trader \in Casters
    /\ ~HasItem(p, i)
    /\ trade' = SetItem(trade, p, s, i)
    /\ UNCHANGED <<inv, gold, away>>

ClearTradeItem(p, s) ==
    /\ InTrade(p) /\ trade[p].items[s] # NoItem
    /\ trade' = SetItem(trade, p, s, NoItem)
    /\ UNCHANGED <<inv, gold, away>>

(* Spell::cast, in a map update, of a spell on the item the partner shows  *)
(* in the slot that is not traded: the spell is kept until the trade       *)
(* completes.                                                              *)
CastOnTradeItem(p) ==
    /\ p \in Casters /\ InTrade(p) /\ ~trade[p].spell
    /\ GetItem(trade[p].trader, NonTraded) # NoItem
    /\ trade' = SetSpell(trade, p, TRUE)
    /\ UNCHANGED <<inv, gold, away>>

UnacceptTrade(p) ==
    /\ InTrade(p) /\ trade[p].accepted
    /\ trade' = [trade EXCEPT ![p].accepted = FALSE]
    /\ UNCHANGED <<inv, gold, away>>

(* HandleCancelTradeOpcode, the start of a flight, and the logout of p:    *)
(* CleanupsBeforeDelete.                                                   *)
CancelTrade(p) ==
    /\ InTrade(p)
    /\ trade' = TradeCancel(trade, p)
    /\ UNCHANGED <<inv, gold, away>>

-----------------------------------------------------------------------------
(* Inventories.                                                            *)

(* Player::GetItemCount.                                                   *)
GetItemCount(k, f) == Cardinality(PlacesTaken(f, {i \in Items : Kind[i] = k}))

(* Player::CanTakeMoreSimilarItems; no item has an ItemLimitCategory here. *)
CanTakeMoreSimilarItems(i, f) ==
    LET most == MaxCount[Kind[i]]
    IN  most = 0 \/ GetItemCount(Kind[i], f) + 1 =< most

(* Player::CanStoreItem.                                                   *)
CanStoreItem(v, p, i) ==
    i # NoItem => Used(v[p]) < Capacity[p] /\ CanTakeMoreSimilarItems(i, v[p])

(* What p gives in the slots that are traded, empty slots included.        *)
Offered(p) == [s \in Traded |-> GetItem(p, s)]

(* The inventory f without the items of the slots o.                       *)
Without(f, o) == [i \in Items |-> IF \E s \in Traded : o[s] = i THEN f[i] - 1 ELSE f[i]]

(* Faulty variant: all items are tested against the same free place.       *)
CanStoreItems_One(p, mine, his) ==
    \A s \in Traded : his[s] # NoItem =>
        /\ CanTakeMoreSimilarItems(his[s], inv[p])
        /\ Used(Without(inv[p], mine)) < Capacity[p]

(* Player::CanStoreItems for the items his, when p gives mine: the places  *)
(* of items in trade count as free, the items themselves still count for   *)
(* the maximum of their kind, and each new one is compared with it alone.  *)
CanStoreItems(p, mine, his) ==
    LET new == {s \in Traded : his[s] # NoItem}
    IN  /\ Used(Without(inv[p], mine)) + Cardinality(new) =< Capacity[p]
        /\ \A s \in new : CanTakeMoreSimilarItems(his[s], inv[p])

(* MoveItemToInventory.                                                    *)
Store(v, p, i) == IF i = NoItem THEN v ELSE [v EXCEPT ![p][i] = @ + 1]

(* "return the already removed items to the original owner" r, with a list *)
(* of destinations that still holds the place found for the other item, if *)
(* one was found: the item then needs a second place, and a clone of it is *)
(* stored in the first.                                                    *)
Return(v, r, i, found) ==
    IF i = NoItem \/ ~CanStoreItem(v, r, i) THEN v
    ELSE IF ~found THEN Store(v, r, i)
    ELSE IF Used(v[r]) + 2 =< Capacity[r] THEN Store(Store(v, r, i), r, i)
    ELSE v

(* One slot of moveItems: both items change hands, or both are returned.   *)
MoveSlot(v, p, q, mine, his) ==
    LET toTrader == CanStoreItem(v, q, mine)
        toPlayer == CanStoreItem(v, p, his)
    IN  IF toTrader /\ toPlayer
        THEN Store(Store(v, q, mine), p, his)
        ELSE Return(Return(v, p, mine, his # NoItem /\ toPlayer),
                    q, his, mine # NoItem /\ toTrader)

(* The loop of moveItems: the inventories v after each number of slots.    *)
MoveSlots(v, p, q, mine, his) ==
    LET moved[n \in 0 .. TradedCount] ==
            IF n = 0 THEN v ELSE MoveSlot(moved[n - 1], p, q, mine[n], his[n])
    IN  moved

(* The items are removed first and then stored slot by slot.               *)
moveItems(p, q) ==
    LET mine == Offered(p)
        his == Offered(q)
        removed == [inv EXCEPT ![p] = Without(@, mine), ![q] = Without(@, his)]
    IN  MoveSlots(removed, p, q, mine, his)[TradedCount]

(* Faulty variant: the maximum itself can be reached.                      *)
ModifyMoney_UpTo(m, amount) ==
    IF amount < 0
    THEN IF m > -amount THEN m + amount ELSE 0
    ELSE IF m =< MaxMoney - amount THEN m + amount ELSE m

(* Player::ModifyMoney: less than nothing is nothing, and what would reach *)
(* the maximum is refused as a whole.                                      *)
ModifyMoney(m, amount) ==
    IF amount < 0
    THEN IF m > -amount THEN m + amount ELSE 0
    ELSE IF m < MaxMoney - amount THEN m + amount ELSE m

-----------------------------------------------------------------------------
(* HandleAcceptTradeOpcode, one action for each way out.                   *)

HasEnoughMoney(p) == gold[p] >= trade[p].money

(* Faulty variant: only the money of the player himself is looked at.      *)
MoneyThere_OwnOnly(p) == HasEnoughMoney(p)

(* Both still have the money they offer.                                   *)
MoneyThere(p) == HasEnoughMoney(p) /\ HasEnoughMoney(trade[p].trader)

AcceptedBy(p) == [trade EXCEPT ![p].accepted = TRUE]

AcceptNoMoney(p) ==
    /\ InTrade(p) /\ InTrade(trade[p].trader) /\ ~MoneyThere(p)
    /\ trade' = IF ~HasEnoughMoney(p) THEN [trade EXCEPT ![p].accepted = FALSE]
                ELSE [AcceptedBy(p) EXCEPT ![trade[p].trader].accepted = FALSE]
    /\ UNCHANGED <<inv, gold, away>>

(* An item in the window that cannot be traded now, on either side: the    *)
(* acceptance stays.                                                       *)
AcceptRefused(p) ==
    /\ InTrade(p) /\ InTrade(trade[p].trader) /\ MoneyThere(p)
    /\ \E r \in {p, trade[p].trader}, s \in Traded : GetItem(r, s) # NoItem
    /\ trade' = AcceptedBy(p)
    /\ UNCHANGED <<inv, gold, away>>

AcceptFirst(p) ==
    /\ InTrade(p) /\ InTrade(trade[p].trader) /\ MoneyThere(p)
    /\ ~trade[trade[p].trader].accepted
    /\ trade' = AcceptedBy(p)
    /\ UNCHANGED <<inv, gold, away>>

(* Both have accepted.                                                     *)
Agreed(p) ==
    /\ InTrade(p) /\ InTrade(trade[p].trader) /\ MoneyThere(p)
    /\ trade[trade[p].trader].accepted

(* The spell of r, which is p or the trader, cannot be cast now.           *)
AcceptNoSpell(p, r) ==
    /\ Agreed(p) /\ r \in {p, trade[p].trader}
    /\ trade[r].spell
    /\ trade' = SetSpell(AcceptedBy(p), r, FALSE)
    /\ UNCHANGED <<inv, gold, away>>

(* Every spell has an item to be cast on.                                  *)
SpellsCastable(p) ==
    \A r \in {p, trade[p].trader} :
        trade[r].spell => GetItem(trade[r].trader, NonTraded) # NoItem

HasRoom(p, q) ==
    /\ CanStoreItems(q, Offered(q), Offered(p))
    /\ CanStoreItems(p, Offered(p), Offered(q))

AcceptNoRoom(p) ==
    /\ Agreed(p) /\ SpellsCastable(p)
    /\ ~HasRoom(p, trade[p].trader)
    /\ trade' = Unaccepted(trade, p)
    /\ UNCHANGED <<inv, gold, away>>

(* The trade takes place.                                                  *)
AcceptComplete(p) ==
    LET q == trade[p].trader
        m == trade[p].money
        n == trade[q].money
    IN  /\ Agreed(p) /\ SpellsCastable(p) /\ HasRoom(p, q)
        /\ inv' = moveItems(p, q)
        /\ gold' = [gold EXCEPT ![p] = ModifyMoney(ModifyMoney(@, -m), n),
                                ![q] = ModifyMoney(ModifyMoney(@, -n), m)]
        /\ trade' = [trade EXCEPT ![p] = NoTrade, ![q] = NoTrade]
        /\ UNCHANGED away

-----------------------------------------------------------------------------
(* What else happens to money and items while the window is open.          *)
Spend(p) ==
    /\ gold[p] > 0
    /\ gold' = [gold EXCEPT ![p] = ModifyMoney(@, -1)]
    /\ UNCHANGED <<trade, inv, away>>

ItemLeaves(p, i) ==
    /\ inv[p][i] > 0 /\ Cardinality(away) < MaxAway
    /\ inv' = [inv EXCEPT ![p][i] = @ - 1]
    /\ away' = away \cup {i}
    /\ UNCHANGED <<trade, gold>>

ItemComes(p, i) ==
    /\ i \in away /\ CanStoreItem(inv, p, i)
    /\ inv' = Store(inv, p, i)
    /\ away' = away \ {i}
    /\ UNCHANGED <<trade, gold>>

-----------------------------------------------------------------------------
Offer(t, p) == <<t[p].items, t[p].money, t[p].spell>>

(* A player who accepts has the two offers before him.                     *)
History ==
    seen' = [p \in Players |->
        IF ~trade'[p].accepted THEN <<>>
        ELSE IF trade[p].accepted THEN seen[p]
        ELSE <<Offer(trade', p), Offer(trade', trade'[p].trader)>>]

Init ==
    /\ trade = [p \in Players |-> NoTrade]
    /\ inv \in StartInvs /\ gold = StartGold
    /\ away = {}
    /\ seen = [p \in Players |-> <<>>]

Step ==
    \E p \in Players :
        \/ \E q \in Players : InitiateTrade(p, q) \/ AcceptNoSpell(p, q)
        \/ \E m \in 0 .. MaxMoney : SetTradeGold(p, m)
        \/ \E s \in Slots, i \in Items : SetTradeItem(p, s, i)
        \/ \E s \in Slots : ClearTradeItem(p, s)
        \/ CastOnTradeItem(p) \/ UnacceptTrade(p) \/ CancelTrade(p)
        \/ AcceptNoMoney(p) \/ AcceptRefused(p) \/ AcceptFirst(p)
        \/ AcceptNoRoom(p) \/ AcceptComplete(p)
        \/ Spend(p)
        \/ \E i \in Items : ItemLeaves(p, i) \/ ItemComes(p, i)

(* Where an item is: places in inventories, or elsewhere.                  *)
Places(i) == MapThenSumSet(LAMBDA p : inv[p][i], Players) + (IF i \in away THEN 1 ELSE 0)

(* Bound: nothing is followed up once moveItems has lost or doubled an     *)
(* item, because a clone has no identity of its own here.                  *)
Intact == \A i \in Items : Places(i) = 1

Next == Intact /\ Step /\ History

Spec == Init /\ [][Next]_vars

-----------------------------------------------------------------------------
(* The state has its types: money stays below its maximum, and nobody has  *)
(* more items than places.                                                 *)
TypeOK ==
    /\ trade \in [Players -> TradeData]
    /\ inv \in [Players -> Inventory]
    /\ \A p \in Players : Used(inv[p]) =< Capacity[p]
    /\ gold \in [Players -> 0 .. MaxMoney - 1]
    /\ away \subseteq Items

(* m_trader never dangles: the partner of a trade is in the world and      *)
(* trades with nobody else.                                                *)
TradeIsMutual ==
    \A p \in Players : InTrade(p) =>
        /\ trade[p].trader # p
        /\ trade[trade[p].trader].trader = p

(* An acceptance stands for the two offers as they are now: whatever has   *)
(* changed in the windows since the player pressed the button has taken it *)
(* back.  An item that has left the inventory changes no window: the trade *)
(* completes without it.                                                   *)
AcceptanceCurrent ==
    \A p \in Players : trade[p].accepted =>
        seen[p] = <<Offer(trade, p), Offer(trade, trade[p].trader)>>

(* What r has and what he is to receive is not more of any kind than the   *)
(* maximum, which moveItems meets item by item.                            *)
WithinMaxCount(r) ==
    LET his == Offered(trade[r].trader)
    IN  \A i \in Items :
            \/ MaxCount[Kind[i]] = 0
            \/ GetItemCount(Kind[i], inv[r])
                + Cardinality({s \in Traded : his[s] # NoItem /\ Kind[his[s]] = Kind[i]})
                    =< MaxCount[Kind[i]]

(* What p and his partner give stays between them, if neither gets too     *)
(* many of a kind; what they do not give stays where it is.                *)
ExchangedFairly(p) ==
    LET q == trade[p].trader
        given(i) == \E s \in Traded : Offered(p)[s] = i \/ Offered(q)[s] = i
    IN  /\ InTrade(p)
        /\ \A r \in Players \ {p, q} : inv'[r] = inv[r]
        /\ \A i \in Items : ~given(i) => inv'[p][i] = inv[p][i] /\ inv'[q][i] = inv[q][i]
        /\ WithinMaxCount(p) /\ WithinMaxCount(q) =>
                \A i \in Items : inv'[p][i] + inv'[q][i] = inv[p][i] + inv[q][i]

(* "return the already removed items to the original owner": a trade       *)
(* neither loses nor doubles an item, unless somebody was to receive too   *)
(* many of a kind, and then none but the items that are traded.            *)
ItemsKept == [][trade' # trade /\ inv' # inv => \E p \in Players : ExchangedFairly(p)]_vars

(* The money of p and his partner stays between them, except what would    *)
(* take the one who receives it to the maximum.                            *)
PaidFairly(p) ==
    LET q == trade[p].trader
        refused(r, s) == trade[s].money > 0
                            /\ gold[r] - trade[r].money + trade[s].money >= MaxMoney
    IN  /\ InTrade(p)
        /\ \A r \in Players \ {p, q} : gold'[r] = gold[r]
        /\ \/ gold'[p] + gold'[q] = gold[p] + gold[q]
           \/ /\ gold'[p] + gold'[q] < gold[p] + gold[q]
              /\ refused(p, q) \/ refused(q, p)

(* A trade makes no money and touches nobody else's; the two lose some     *)
(* only if what one of them receives would take him to the maximum.        *)
GoldKept == [][trade' # trade /\ gold' # gold => \E p \in Players : PaidFairly(p)]_vars

(* "If we trade in both directions we had to check, if the trade will work *)
(* before we actually do it": a trade that completes delivers every item   *)
(* that is still there, unless somebody gets too many of a kind.           *)
Delivered ==
    [][\A p \in Players :
        /\ InTrade(p) /\ ~InTrade(p)' /\ AcceptComplete(p)
        /\ \A r \in {p, trade[p].trader} : WithinMaxCount(r)
        => \A r \in {p, trade[p].trader}, s \in Traded :
                Offered(r)[s] # NoItem => inv'[trade[r].trader][Offered(r)[s]] > 0]_vars
=============================================================================
