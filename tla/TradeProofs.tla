----------------------------- MODULE TradeProofs -----------------------------
(***************************************************************************)
(* Theorems about the windows and the money of Trade, for any players,     *)
(* items, inventories and maximum of money.  Nothing here depends on what  *)
(* moveItems does with the items, which is in TradeItemsProofs.            *)
(***************************************************************************)
EXTENDS Trade, TLAPS

Trades == [Players -> TradeData]

(* The part of TypeOK that is about trade windows and purses.              *)
WindowTypes ==
    /\ trade \in Trades
    /\ gold \in [Players -> 0 .. MaxMoney - 1]

(* An acceptance belongs to a trade: NoTrade has none.                     *)
AcceptedIsTrading == \A p \in Players : trade[p].accepted => InTrade(p)

(* The inductive invariant.                                                *)
TradeInv ==
    WindowTypes /\ TradeIsMutual /\ AcceptedIsTrading /\ AcceptanceCurrent

-----------------------------------------------------------------------------
(* What the setters of TradeData do to the trades t of p and his partner:  *)
(* nothing, or both acceptances are gone; the pair stays a pair, and       *)
(* nobody else is touched.                                                 *)
Paired(t, p, q) == p # q /\ t[p].trader = q /\ t[q].trader = p

SetterKeeps(t, u, p, q) ==
    /\ u \in Trades /\ Paired(u, p, q)
    /\ \A r \in Players \ {p, q} : u[r] = t[r]
    /\ u = t \/ (~u[p].accepted /\ ~u[q].accepted)

(* UpdateTrade's caller: SetAccepted(false) on both sides.                 *)
LEMMA UnacceptedKeeps ==
  ASSUME NEW t \in Trades, NEW p \in Players, NEW q \in Players, Paired(t, p, q)
  PROVE  /\ Unaccepted(t, p) \in Trades /\ Paired(Unaccepted(t, p), p, q)
         /\ \A r \in Players \ {p, q} : Unaccepted(t, p)[r] = t[r]
         /\ ~Unaccepted(t, p)[p].accepted /\ ~Unaccepted(t, p)[q].accepted
<1>1. /\ \A r \in Players : t[r] \in TradeData
      /\ p # q /\ t[p].trader = q /\ t[q].trader = p
  BY DEF Trades, Paired
<1>2. Unaccepted(t, p) = [t EXCEPT ![p] = [t[p] EXCEPT !.accepted = FALSE],
                                   ![q] = [t[q] EXCEPT !.accepted = FALSE]]
  BY <1>1 DEF Unaccepted, Trades
<1>3. /\ [t[p] EXCEPT !.accepted = FALSE] \in TradeData
      /\ [t[q] EXCEPT !.accepted = FALSE] \in TradeData
  BY <1>1 DEF TradeData
<1>4. /\ Unaccepted(t, p) \in Trades
      /\ Unaccepted(t, p)[p] = [t[p] EXCEPT !.accepted = FALSE]
      /\ Unaccepted(t, p)[q] = [t[q] EXCEPT !.accepted = FALSE]
      /\ \A r \in Players \ {p, q} : Unaccepted(t, p)[r] = t[r]
  BY <1>1, <1>2, <1>3 DEF Trades
<1> QED
  BY <1>1, <1>4 DEF TradeData, Paired

(* TradeData::SetSpell.                                                    *)
LEMMA SetSpellKeeps ==
  ASSUME NEW t \in Trades, NEW p \in Players, NEW q \in Players, Paired(t, p, q),
         NEW spell \in BOOLEAN
  PROVE  SetterKeeps(t, SetSpell(t, p, spell), p, q)
<1> DEFINE s == [t EXCEPT ![p].spell = spell]
<1>1. s \in Trades /\ Paired(s, p, q) /\ \A r \in Players \ {p, q} : s[r] = t[r]
  BY DEF Trades, TradeData, Paired
<1>2. CASE t[p].spell = spell
  BY <1>2 DEF SetSpell, SetterKeeps
<1>3. CASE t[p].spell # spell
  <2>1. SetSpell(t, p, spell) = Unaccepted(s, p)
    BY <1>3 DEF SetSpell
  <2> HIDE DEF s
  <2> QED
    BY <1>1, <2>1, UnacceptedKeeps DEF SetterKeeps
<1> QED
  BY <1>2, <1>3

(* TradeData::SetItem.                                                     *)
LEMMA SetItemKeeps ==
  ASSUME NEW t \in Trades, NEW p \in Players, NEW q \in Players, Paired(t, p, q),
         NEW s \in Slots, NEW i \in Items \cup {NoItem}
  PROVE  SetterKeeps(t, SetItem(t, p, s, i), p, q)
<1> DEFINE t0 == [t EXCEPT ![p].items[s] = i]
           t1 == Unaccepted(t0, p)
           t2 == IF s = NonTraded THEN SetSpell(t1, q, FALSE) ELSE t1
<1>1. CASE t[p].items[s] = i
  BY <1>1 DEF SetItem, SetterKeeps
<1>2. CASE t[p].items[s] # i
  <2>1. t0 \in Trades /\ Paired(t0, p, q) /\ \A r \in Players \ {p, q} : t0[r] = t[r]
    BY DEF Trades, TradeData, Paired
  <2>2. SetItem(t, p, s, i) = SetSpell(t2, p, FALSE)
    BY <1>2 DEF SetItem, Paired
  <2> HIDE DEF t0
  <2>3. /\ t1 \in Trades /\ Paired(t1, p, q)
        /\ \A r \in Players \ {p, q} : t1[r] = t[r]
        /\ ~t1[p].accepted /\ ~t1[q].accepted
    BY <2>1, UnacceptedKeeps
  <2> HIDE DEF t1
  <2>4. Paired(t1, q, p)
    BY <2>3 DEF Paired
  <2>5. SetterKeeps(t1, SetSpell(t1, q, FALSE), q, p)
    BY <2>3, <2>4, SetSpellKeeps
  <2>6. /\ t2 \in Trades /\ Paired(t2, p, q)
        /\ \A r \in Players \ {p, q} : t2[r] = t[r]
        /\ ~t2[p].accepted /\ ~t2[q].accepted
    BY <2>3, <2>5 DEF SetterKeeps, Paired
  <2> HIDE DEF t2
  <2>7. SetterKeeps(t2, SetSpell(t2, p, FALSE), p, q)
    BY <2>6, SetSpellKeeps
  <2> QED
    BY <2>2, <2>6, <2>7 DEF SetterKeeps
<1> QED
  BY <1>1, <1>2

(* TradeData::SetMoney.                                                    *)
LEMMA SetMoneyKeeps ==
  ASSUME NEW t \in Trades, NEW p \in Players, NEW q \in Players, Paired(t, p, q),
         NEW m \in Nat
  PROVE  SetterKeeps(t, SetMoney(t, p, m), p, q)
<1> DEFINE s == [t EXCEPT ![p].money = m]
<1>1. s \in Trades /\ Paired(s, p, q) /\ \A r \in Players \ {p, q} : s[r] = t[r]
  BY DEF Trades, TradeData, Paired
<1>2. CASE SetMoney(t, p, m) = t
  BY <1>2 DEF SetterKeeps
<1>3. CASE SetMoney(t, p, m) = Unaccepted(s, p)
  <2> HIDE DEF s
  <2> QED
    BY <1>1, <1>3, UnacceptedKeeps DEF SetterKeeps
<1> QED
  BY <1>2, <1>3 DEF SetMoney

-----------------------------------------------------------------------------
(* A player who accepts now has the offers before him; one who has         *)
(* accepted before keeps what he saw, which stands if the offers do.       *)
LEMMA StandingAcceptance ==
  ASSUME TradeInv, History, NEW r \in Players, trade'[r].accepted,
         trade[r].accepted =>
            /\ trade'[r].trader = trade[r].trader
            /\ Offer(trade', r) = Offer(trade, r)
            /\ Offer(trade', trade[r].trader) = Offer(trade, trade[r].trader)
  PROVE  seen'[r] = <<Offer(trade', r), Offer(trade', trade'[r].trader)>>
<1>1. CASE trade[r].accepted
  <2>1. seen'[r] = seen[r]
    BY <1>1 DEF History
  <2>2. seen[r] = <<Offer(trade, r), Offer(trade, trade[r].trader)>>
    BY <1>1 DEF TradeInv, AcceptanceCurrent
  <2> QED
    BY <1>1, <2>1, <2>2
<1>2. CASE ~trade[r].accepted
  BY <1>2 DEF History
<1> QED
  BY <1>1, <1>2

(* The partner of somebody outside the pair is outside it, too.            *)
LEMMA OutsidePair ==
  ASSUME TradeInv, NEW p \in Players, NEW q \in Players,
         trade[p].trader \in {q, NoPlayer}, trade[q].trader \in {p, NoPlayer},
         NEW r \in Players \ {p, q}, InTrade(r)
  PROVE  trade[r].trader \in Players \ {p, q} /\ trade[trade[r].trader].trader = r
<1>1. trade[r].trader \in Players
  BY DEF TradeInv, WindowTypes, Trades, TradeData, InTrade
<1>2. trade[trade[r].trader].trader = r /\ r # NoPlayer
  BY TradeAssumption DEF TradeInv, TradeIsMutual
<1> QED
  BY <1>1, <1>2

(* A step inside a pair that stays a pair keeps the invariant if it takes  *)
(* back every acceptance whose offers it changes.                          *)
LEMMA PairStep ==
  ASSUME TradeInv, History, NEW p \in Players, NEW q \in Players,
         Paired(trade, p, q),
         gold' \in [Players -> 0 .. MaxMoney - 1],
         trade' \in Trades, Paired(trade', p, q),
         \A r \in Players \ {p, q} : trade'[r] = trade[r],
         \A r \in {p, q} : trade[r].accepted /\ trade'[r].accepted =>
            Offer(trade', p) = Offer(trade, p) /\ Offer(trade', q) = Offer(trade, q)
  PROVE  TradeInv'
<1>0. p # NoPlayer /\ q # NoPlayer
  BY TradeAssumption
<1>1. \A r \in Players \ {p, q} : InTrade(r) =>
        trade[r].trader \in Players \ {p, q} /\ trade[trade[r].trader].trader = r
  BY OutsidePair DEF Paired
<1>2. WindowTypes'
  BY DEF WindowTypes
<1>3. TradeIsMutual'
  <2>1. ASSUME NEW r \in Players, InTrade(r)'
        PROVE  trade'[r].trader # r /\ trade'[trade'[r].trader].trader = r
    <3>1. CASE r \in {p, q}
      BY <3>1 DEF Paired
    <3>2. CASE r \notin {p, q}
      <4>1. trade'[r] = trade[r] /\ InTrade(r)
        BY <2>1, <3>2 DEF InTrade
      <4>2. trade[r].trader \in Players \ {p, q} /\ trade[trade[r].trader].trader = r
        BY <1>1, <3>2, <4>1
      <4>3. trade[r].trader # r
        BY <4>1 DEF TradeInv, TradeIsMutual
      <4> QED
        BY <4>1, <4>2, <4>3
    <3> QED
      BY <3>1, <3>2
  <2> QED
    BY <2>1 DEF TradeIsMutual
<1>4. AcceptedIsTrading'
  <2>1. ASSUME NEW r \in Players, trade'[r].accepted
        PROVE  trade'[r].trader # NoPlayer
    <3>1. CASE r \in {p, q}
      BY <1>0, <3>1 DEF Paired
    <3>2. CASE r \notin {p, q}
      BY <2>1, <3>2 DEF TradeInv, AcceptedIsTrading, InTrade
    <3> QED
      BY <3>1, <3>2
  <2> QED
    BY <2>1 DEF AcceptedIsTrading, InTrade
<1>5. AcceptanceCurrent'
  <2>1. ASSUME NEW r \in Players, trade'[r].accepted
        PROVE  seen'[r] = <<Offer(trade', r), Offer(trade', trade'[r].trader)>>
    <3>1. CASE r \in {p, q}
      BY <2>1, <3>1, StandingAcceptance DEF Paired
    <3>2. CASE r \notin {p, q}
      <4>1. trade'[r] = trade[r] /\ InTrade(r)
        BY <2>1, <3>2 DEF TradeInv, AcceptedIsTrading
      <4>2. trade[r].trader \in Players \ {p, q}
        BY <1>1, <3>2, <4>1
      <4>3. trade'[trade[r].trader] = trade[trade[r].trader]
        BY <4>2
      <4> QED
        BY <2>1, <4>1, <4>3, StandingAcceptance DEF Offer
    <3> QED
      BY <3>1, <3>2
  <2> QED
    BY <2>1 DEF AcceptanceCurrent
<1> QED
  BY <1>2, <1>3, <1>4, <1>5 DEF TradeInv

(* A pair that begins or ends a trade starts from nothing.                 *)
LEMMA FreshStep ==
  ASSUME TradeInv, History, NEW p \in Players, NEW q \in Players,
         gold' \in [Players -> 0 .. MaxMoney - 1],
         trade' \in Trades,
         trade[p].trader \in {q, NoPlayer}, trade[q].trader \in {p, NoPlayer},
         \/ trade'[p].trader = NoPlayer /\ trade'[q].trader = NoPlayer
         \/ Paired(trade', p, q),
         ~trade'[p].accepted, ~trade'[q].accepted,
         \A r \in Players \ {p, q} : trade'[r] = trade[r]
  PROVE  TradeInv'
<1>1. \A r \in Players \ {p, q} : InTrade(r) =>
        trade[r].trader \in Players \ {p, q} /\ trade[trade[r].trader].trader = r
  BY OutsidePair
<1>2. WindowTypes'
  BY DEF WindowTypes
<1>3. TradeIsMutual'
  <2>1. ASSUME NEW r \in Players, InTrade(r)'
        PROVE  trade'[r].trader # r /\ trade'[trade'[r].trader].trader = r
    <3>1. CASE r \in {p, q}
      BY <2>1, <3>1 DEF Paired, InTrade
    <3>2. CASE r \notin {p, q}
      <4>1. trade'[r] = trade[r] /\ InTrade(r)
        BY <2>1, <3>2 DEF InTrade
      <4>2. trade[r].trader \in Players \ {p, q} /\ trade[trade[r].trader].trader = r
        BY <1>1, <3>2, <4>1
      <4>3. trade[r].trader # r
        BY <4>1 DEF TradeInv, TradeIsMutual
      <4> QED
        BY <4>1, <4>2, <4>3
    <3> QED
      BY <3>1, <3>2
  <2> QED
    BY <2>1 DEF TradeIsMutual
<1>4. AcceptedIsTrading'
  BY DEF TradeInv, AcceptedIsTrading, InTrade
<1>5. AcceptanceCurrent'
  <2>1. ASSUME NEW r \in Players, trade'[r].accepted
        PROVE  seen'[r] = <<Offer(trade', r), Offer(trade', trade'[r].trader)>>
    <3>1. r \in Players \ {p, q} /\ trade'[r] = trade[r]
      BY <2>1
    <3>2. InTrade(r)
      BY <2>1, <3>1 DEF TradeInv, AcceptedIsTrading
    <3>3. trade'[trade[r].trader] = trade[trade[r].trader]
      BY <1>1, <3>1, <3>2
    <3> QED
      BY <2>1, <3>1, <3>3, StandingAcceptance DEF Offer
  <2> QED
    BY <2>1 DEF AcceptanceCurrent
<1> QED
  BY <1>2, <1>3, <1>4, <1>5 DEF TradeInv

(* A step that leaves all trades alone.                                    *)
LEMMA OutsideStep ==
  ASSUME TradeInv, History, trade' = trade,
         gold' \in [Players -> 0 .. MaxMoney - 1]
  PROVE  TradeInv'
<1>1. AcceptanceCurrent'
  <2>1. ASSUME NEW r \in Players, trade'[r].accepted
        PROVE  seen'[r] = <<Offer(trade', r), Offer(trade', trade'[r].trader)>>
    BY <2>1, StandingAcceptance
  <2> QED
    BY <2>1 DEF AcceptanceCurrent
<1> QED
  BY <1>1 DEF TradeInv, WindowTypes, TradeIsMutual, AcceptedIsTrading, InTrade

-----------------------------------------------------------------------------
(* A purse stays between nothing and the maximum, whatever is added.       *)
LEMMA ModifyMoneyRange ==
  ASSUME NEW m \in 0 .. MaxMoney - 1, NEW amount \in Int
  PROVE  ModifyMoney(m, amount) \in 0 .. MaxMoney - 1
  BY TradeAssumption DEF ModifyMoney

(* Somebody who has the money pays exactly it.                             *)
LEMMA PayExactly ==
  ASSUME NEW m \in 0 .. MaxMoney - 1, NEW price \in Nat, m >= price
  PROVE  ModifyMoney(m, -price) = m - price
  BY TradeAssumption DEF ModifyMoney

(* What is received arrives, or is refused as a whole at the maximum.      *)
LEMMA ReceiveOrRefuse ==
  ASSUME NEW m \in 0 .. MaxMoney - 1, NEW price \in Nat
  PROVE  \/ ModifyMoney(m, price) = m + price
         \/ ModifyMoney(m, price) = m /\ price > 0 /\ m + price >= MaxMoney
  BY TradeAssumption DEF ModifyMoney

(* Facts about a player in a trade.                                        *)
LEMMA PartnerFacts ==
  ASSUME TradeInv, NEW p \in Players, InTrade(p)
  PROVE  /\ trade[p].trader \in Players /\ Paired(trade, p, trade[p].trader)
         /\ trade \in Trades
         /\ trade[p].money \in Nat /\ trade[trade[p].trader].money \in Nat
         /\ gold[p] \in 0 .. MaxMoney - 1 /\ gold[trade[p].trader] \in 0 .. MaxMoney - 1
<1>1. trade[p].trader \in Players /\ trade[p].money \in Nat
  BY DEF TradeInv, WindowTypes, Trades, TradeData, InTrade
<1>2. trade[trade[p].trader].money \in Nat
  BY <1>1 DEF TradeInv, WindowTypes, Trades, TradeData
<1>3. Paired(trade, p, trade[p].trader)
  BY DEF TradeInv, TradeIsMutual, Paired
<1> QED
  BY <1>1, <1>2, <1>3 DEF TradeInv, WindowTypes

(* A handler that only calls setters.                                      *)
LEMMA SetterStep ==
  ASSUME TradeInv, History, gold' = gold, NEW p \in Players, NEW q \in Players,
         Paired(trade, p, q), SetterKeeps(trade, trade', p, q)
  PROVE  TradeInv'
<1>1. gold' \in [Players -> 0 .. MaxMoney - 1]
  BY DEF TradeInv, WindowTypes
<1>2. \A r \in {p, q} : trade[r].accepted /\ trade'[r].accepted =>
            Offer(trade', p) = Offer(trade, p) /\ Offer(trade', q) = Offer(trade, q)
  BY DEF SetterKeeps
<1> QED
  BY <1>1, <1>2, PairStep DEF SetterKeeps

(* A handler that changes only whether p and his partner have accepted.    *)
AcceptedAre(t, p, q, a, b) == [t EXCEPT ![p].accepted = a, ![q].accepted = b]

(* What both have accepted is still what it was.                           *)
LEMMA AcceptStep ==
  ASSUME TradeInv, History, gold' = gold, NEW p \in Players, NEW q \in Players,
         Paired(trade, p, q), NEW a \in BOOLEAN, NEW b \in BOOLEAN,
         trade' = AcceptedAre(trade, p, q, a, b)
  PROVE  TradeInv'
<1>1. gold' \in [Players -> 0 .. MaxMoney - 1] /\ trade \in Trades
  BY DEF TradeInv, WindowTypes
<1>2. /\ trade' \in Trades /\ Paired(trade', p, q)
      /\ \A r \in Players \ {p, q} : trade'[r] = trade[r]
  BY <1>1 DEF AcceptedAre, Trades, TradeData, Paired
<1>3. Offer(trade', p) = Offer(trade, p) /\ Offer(trade', q) = Offer(trade, q)
  BY <1>1 DEF AcceptedAre, Trades, TradeData, Paired, Offer
<1> QED
  BY <1>1, <1>2, <1>3, PairStep

(* A handler that changes only whether p has accepted.                     *)
LEMMA OwnAcceptStep ==
  ASSUME TradeInv, History, gold' = gold, NEW p \in Players, InTrade(p),
         NEW a \in BOOLEAN, trade' = [trade EXCEPT ![p].accepted = a]
  PROVE  TradeInv'
<1>1. PICK q \in Players : Paired(trade, p, q) /\ trade \in Trades
  BY PartnerFacts
<1>2. PICK b \in BOOLEAN : b = trade[q].accepted
  BY <1>1 DEF Trades, TradeData
<1>3. trade' = AcceptedAre(trade, p, q, a, b)
  <2>1. [trade[q] EXCEPT !.accepted = b] = trade[q]
    BY <1>1, <1>2 DEF Trades, TradeData
  <2>2. p # q /\ DOMAIN trade = Players
    BY <1>1 DEF Paired, Trades
  <2> QED
    BY <1>1, <2>1, <2>2 DEF AcceptedAre, Trades
<1> QED
  BY <1>1, <1>3, AcceptStep

(* Nobody trades when the server starts.                                   *)
LEMMA InitTradeInv == Init => TradeInv
<1> SUFFICES ASSUME Init PROVE TradeInv
  OBVIOUS
<1>1. NoTrade \in TradeData /\ NoTrade.trader = NoPlayer /\ ~NoTrade.accepted
  BY DEF NoTrade, NewTrade, TradeData
<1>2. \A p \in Players : trade[p] = NoTrade
  BY DEF Init
<1>3. trade \in Trades
  BY <1>1 DEF Init, Trades
<1>4. gold \in [Players -> 0 .. MaxMoney - 1]
  BY TradeAssumption DEF Init
<1> HIDE DEF NoTrade
<1> QED
  BY <1>1, <1>2, <1>3, <1>4 DEF TradeInv, WindowTypes, TradeIsMutual,
     AcceptedIsTrading, AcceptanceCurrent, InTrade

(* Every handler keeps the invariant.                                      *)
LEMMA NextTradeInv == TradeInv /\ [Next]_vars => TradeInv'
<1> SUFFICES ASSUME TradeInv, [Next]_vars PROVE TradeInv'
  OBVIOUS
<1>u. CASE UNCHANGED vars
  BY <1>u DEF vars, TradeInv, WindowTypes, TradeIsMutual, AcceptedIsTrading,
              AcceptanceCurrent, InTrade, Offer
<1>n. CASE Next
  <2>h. History
    BY <1>n DEF Next
  <2>g. gold \in [Players -> 0 .. MaxMoney - 1] /\ trade \in Trades
    BY DEF TradeInv, WindowTypes
  <2>1. ASSUME NEW p \in Players, NEW q \in Players, InitiateTrade(p, q)
        PROVE  TradeInv'
    <3>1. /\ trade' = [trade EXCEPT ![p] = NewTrade(q), ![q] = NewTrade(p)]
          /\ gold' = gold /\ p # q
          /\ trade[p].trader = NoPlayer /\ trade[q].trader = NoPlayer
      BY <2>1 DEF InitiateTrade, InTrade
    <3>2. /\ NewTrade(q) \in TradeData /\ NewTrade(p) \in TradeData
          /\ NewTrade(q).trader = q /\ NewTrade(p).trader = p
          /\ ~NewTrade(q).accepted /\ ~NewTrade(p).accepted
      BY DEF NewTrade, TradeData
    <3>3. /\ trade' \in Trades /\ trade'[p] = NewTrade(q) /\ trade'[q] = NewTrade(p)
          /\ \A r \in Players \ {p, q} : trade'[r] = trade[r]
      BY <2>g, <3>1, <3>2 DEF Trades
    <3>4. Paired(trade', p, q)
      BY <3>1, <3>2, <3>3 DEF Paired
    <3> QED
      BY <2>h, <2>g, <3>1, <3>2, <3>3, <3>4, FreshStep
  <2>2. ASSUME NEW p \in Players, NEW m \in 0 .. MaxMoney, SetTradeGold(p, m)
        PROVE  TradeInv'
    <3>1. InTrade(p) /\ trade' = SetMoney(trade, p, m) /\ gold' = gold
      BY <2>2 DEF SetTradeGold
    <3>2. m \in Nat
      BY TradeAssumption
    <3>3. SetterKeeps(trade, trade', p, trade[p].trader)
      BY <3>1, <3>2, PartnerFacts, SetMoneyKeeps
    <3> QED
      BY <2>h, <3>1, <3>3, PartnerFacts, SetterStep
  <2>3. ASSUME NEW p \in Players, NEW s \in Slots, NEW i \in Items, SetTradeItem(p, s, i)
        PROVE  TradeInv'
    <3>1. InTrade(p) /\ trade' = SetItem(trade, p, s, i) /\ gold' = gold
      BY <2>3 DEF SetTradeItem
    <3>2. SetterKeeps(trade, trade', p, trade[p].trader)
      BY <3>1, PartnerFacts, SetItemKeeps
    <3> QED
      BY <2>h, <3>1, <3>2, PartnerFacts, SetterStep
  <2>4. ASSUME NEW p \in Players, NEW s \in Slots, ClearTradeItem(p, s)
        PROVE  TradeInv'
    <3>1. InTrade(p) /\ trade' = SetItem(trade, p, s, NoItem) /\ gold' = gold
      BY <2>4 DEF ClearTradeItem
    <3>2. SetterKeeps(trade, trade', p, trade[p].trader)
      BY <3>1, PartnerFacts, SetItemKeeps
    <3> QED
      BY <2>h, <3>1, <3>2, PartnerFacts, SetterStep
  <2>5. ASSUME NEW p \in Players, CastOnTradeItem(p)
        PROVE  TradeInv'
    <3>1. InTrade(p) /\ trade' = SetSpell(trade, p, TRUE) /\ gold' = gold
      BY <2>5 DEF CastOnTradeItem
    <3>2. SetterKeeps(trade, trade', p, trade[p].trader)
      BY <3>1, PartnerFacts, SetSpellKeeps
    <3> QED
      BY <2>h, <3>1, <3>2, PartnerFacts, SetterStep
  <2>6. ASSUME NEW p \in Players, UnacceptTrade(p)
        PROVE  TradeInv'
    <3>1. InTrade(p) /\ gold' = gold /\ trade' = [trade EXCEPT ![p].accepted = FALSE]
      BY <2>6 DEF UnacceptTrade
    <3> QED
      BY <2>h, <3>1, OwnAcceptStep
  <2>7. ASSUME NEW p \in Players, CancelTrade(p)
        PROVE  TradeInv'
    <3>1. /\ InTrade(p) /\ gold' = gold
          /\ trade' = [trade EXCEPT ![p] = NoTrade, ![trade[p].trader] = NoTrade]
      BY <2>7 DEF CancelTrade, TradeCancel, InTrade
    <3>2. NoTrade \in TradeData /\ NoTrade.trader = NoPlayer /\ ~NoTrade.accepted
      BY DEF NoTrade, NewTrade, TradeData
    <3> DEFINE q == trade[p].trader
    <3>3. q \in Players /\ Paired(trade, p, q)
      BY <3>1, PartnerFacts
    <3> HIDE DEF q
    <3>4. /\ trade' \in Trades /\ trade'[p] = NoTrade /\ trade'[q] = NoTrade
          /\ \A r \in Players \ {p, q} : trade'[r] = trade[r]
      BY <2>g, <3>1, <3>2, <3>3 DEF Trades, q
    <3> QED
      BY <2>h, <2>g, <3>1, <3>2, <3>3, <3>4, FreshStep DEF Paired
  <2>8. ASSUME NEW p \in Players, AcceptNoMoney(p)
        PROVE  TradeInv'
    <3>1. /\ InTrade(p) /\ gold' = gold
          /\ \/ trade' = [trade EXCEPT ![p].accepted = FALSE]
             \/ trade' = [trade EXCEPT ![p].accepted = TRUE, ![trade[p].trader].accepted = FALSE]
      BY <2>8 DEF AcceptNoMoney, AcceptedBy
    <3>3. CASE trade' = [trade EXCEPT ![p].accepted = FALSE]
      BY <2>h, <3>1, <3>3, OwnAcceptStep
    <3>4. CASE trade' = [trade EXCEPT ![p].accepted = TRUE, ![trade[p].trader].accepted = FALSE]
      <4>1. trade' = AcceptedAre(trade, p, trade[p].trader, TRUE, FALSE)
        BY <3>4 DEF AcceptedAre
      <4> QED
        BY <2>h, <3>1, <4>1, PartnerFacts, AcceptStep
    <3> QED
      BY <3>1, <3>3, <3>4
  <2>9. ASSUME NEW p \in Players, AcceptRefused(p) \/ AcceptFirst(p)
        PROVE  TradeInv'
    <3>1. InTrade(p) /\ gold' = gold /\ trade' = [trade EXCEPT ![p].accepted = TRUE]
      BY <2>9 DEF AcceptRefused, AcceptFirst, AcceptedBy
    <3> QED
      BY <2>h, <3>1, OwnAcceptStep
  <2>10. ASSUME NEW p \in Players, NEW r \in Players, AcceptNoSpell(p, r)
         PROVE  TradeInv'
    <3> DEFINE q == trade[p].trader
               t == AcceptedBy(p)
               o == IF r = p THEN q ELSE p
    <3>1. /\ InTrade(p) /\ gold' = gold /\ r \in {p, q}
          /\ trade[r].spell /\ trade' = SetSpell(t, r, FALSE)
      BY <2>10 DEF AcceptNoSpell, Agreed
    <3>2. q \in Players /\ Paired(trade, p, q)
      BY <3>1, PartnerFacts
    <3> HIDE DEF q
    <3>3. /\ t \in Trades /\ Paired(t, r, o) /\ t[r].spell
          /\ \A x \in Players \ {p, q} : t[x] = trade[x]
      BY <2>g, <3>1, <3>2 DEF AcceptedBy, Trades, TradeData, Paired
    <3>4. o \in Players /\ {r, o} = {p, q}
      BY <3>1, <3>2 DEF Paired
    <3> HIDE DEF t, o
    <3>5. SetterKeeps(t, trade', r, o)
      BY <3>1, <3>3, <3>4, SetSpellKeeps
    <3>6. trade' # t
      <4>1. [t EXCEPT ![r].spell = FALSE] \in Trades /\ ~[t EXCEPT ![r].spell = FALSE][r].spell
        BY <3>3 DEF Trades, TradeData
      <4>2. trade' = Unaccepted([t EXCEPT ![r].spell = FALSE], r)
        BY <3>1, <3>3 DEF SetSpell
      <4>3. ~trade'[r].spell
        BY <4>1, <4>2 DEF Unaccepted, Trades, TradeData
      <4> QED
        BY <3>3, <4>3
    <3>7. /\ trade' \in Trades /\ Paired(trade', p, q)
          /\ \A x \in Players \ {p, q} : trade'[x] = trade[x]
          /\ ~trade'[p].accepted /\ ~trade'[q].accepted
      BY <3>3, <3>4, <3>5, <3>6 DEF SetterKeeps, Paired
    <3> QED
      BY <2>h, <2>g, <3>1, <3>2, <3>7, PairStep
  <2>11. ASSUME NEW p \in Players, AcceptNoRoom(p)
         PROVE  TradeInv'
    <3>1. InTrade(p) /\ gold' = gold /\ trade' = Unaccepted(trade, p)
      BY <2>11 DEF AcceptNoRoom, Agreed
    <3>2. SetterKeeps(trade, trade', p, trade[p].trader)
      BY <3>1, PartnerFacts, UnacceptedKeeps DEF SetterKeeps
    <3> QED
      BY <2>h, <3>1, <3>2, PartnerFacts, SetterStep
  <2>12. ASSUME NEW p \in Players, AcceptComplete(p)
         PROVE  TradeInv'
    <3> DEFINE q == trade[p].trader
               m == trade[p].money
               n == trade[q].money
    <3>1. /\ InTrade(p) /\ trade' = [trade EXCEPT ![p] = NoTrade, ![q] = NoTrade]
          /\ gold' = [gold EXCEPT ![p] = ModifyMoney(ModifyMoney(@, -m), n),
                                  ![q] = ModifyMoney(ModifyMoney(@, -n), m)]
      BY <2>12 DEF AcceptComplete, Agreed
    <3>2. q \in Players /\ Paired(trade, p, q) /\ m \in Nat /\ n \in Nat
      BY <3>1, PartnerFacts
    <3> HIDE DEF q, m, n
    <3>3. -m \in Int /\ -n \in Int /\ m \in Int /\ n \in Int
      BY <3>2
    <3>4. \A x \in 0 .. MaxMoney - 1 :
            /\ ModifyMoney(ModifyMoney(x, -m), n) \in 0 .. MaxMoney - 1
            /\ ModifyMoney(ModifyMoney(x, -n), m) \in 0 .. MaxMoney - 1
      BY <3>3, ModifyMoneyRange
    <3>5. gold' \in [Players -> 0 .. MaxMoney - 1]
      BY <2>g, <3>1, <3>2, <3>4 DEF Paired
    <3>6. NoTrade \in TradeData /\ NoTrade.trader = NoPlayer /\ ~NoTrade.accepted
      BY DEF NoTrade, NewTrade, TradeData
    <3>7. /\ trade' \in Trades /\ trade'[p] = NoTrade /\ trade'[q] = NoTrade
          /\ \A r \in Players \ {p, q} : trade'[r] = trade[r]
      BY <2>g, <3>1, <3>2, <3>6 DEF Trades
    <3>8. /\ trade[p].trader = q /\ trade[q].trader = p
          /\ trade'[p].trader = NoPlayer /\ trade'[q].trader = NoPlayer
          /\ ~trade'[p].accepted /\ ~trade'[q].accepted
      BY <3>2, <3>6, <3>7 DEF Paired
    <3> QED
      BY <2>h, <3>2, <3>5, <3>7, <3>8, FreshStep
  <2>13. ASSUME NEW p \in Players, Spend(p)
         PROVE  TradeInv'
    <3>1. trade' = trade /\ gold' = [gold EXCEPT ![p] = ModifyMoney(@, -1)]
      BY <2>13 DEF Spend
    <3>2. ModifyMoney(gold[p], -1) \in 0 .. MaxMoney - 1
      BY <2>g, ModifyMoneyRange
    <3>3. gold' \in [Players -> 0 .. MaxMoney - 1]
      BY <2>g, <3>1, <3>2
    <3> QED
      BY <2>h, <3>1, <3>3, OutsideStep
  <2>14. ASSUME NEW p \in Players, NEW i \in Items, ItemLeaves(p, i) \/ ItemComes(p, i)
         PROVE  TradeInv'
    <3>1. trade' = trade /\ gold' = gold
      BY <2>14 DEF ItemLeaves, ItemComes
    <3> QED
      BY <2>h, <2>g, <3>1, OutsideStep
  <2> QED
    BY <1>n, <2>1, <2>2, <2>3, <2>4, <2>5, <2>6, <2>7, <2>8, <2>9, <2>10, <2>11,
       <2>12, <2>13, <2>14 DEF Next, Step
<1> QED
  BY <1>u, <1>n DEF Next

(* The invariant of trades: whatever the two do, and whatever happens to   *)
(* their money and items meanwhile.                                        *)
THEOREM TradeInvariant == Spec => []TradeInv
  BY InitTradeInv, NextTradeInv, PTL DEF Spec

(* m_trader never dangles, in whatever order the handlers run.             *)
THEOREM TradesAreMutual == Spec => []TradeIsMutual
<1>1. TradeInv => TradeIsMutual
  BY DEF TradeInv
<1> QED
  BY <1>1, TradeInvariant, PTL

(* No trade completes on offers that one of the two has not accepted.      *)
THEOREM AcceptancesAreCurrent == Spec => []AcceptanceCurrent
<1>1. TradeInv => AcceptanceCurrent
  BY DEF TradeInv
<1> QED
  BY <1>1, TradeInvariant, PTL

(* The only handler that changes trades and purses is the completion of a  *)
(* trade; there the money of both is looked at before it is moved.         *)
LEMMA CompletionKeepsGold ==
  ASSUME TradeInv, NEW p \in Players, AcceptComplete(p)
  PROVE  PaidFairly(p)
<1> DEFINE q == trade[p].trader
           m == trade[p].money
           n == trade[q].money
<1>1. /\ InTrade(p)
      /\ gold' = [gold EXCEPT ![p] = ModifyMoney(ModifyMoney(@, -m), n),
                              ![q] = ModifyMoney(ModifyMoney(@, -n), m)]
      /\ gold[p] >= m /\ gold[q] >= n
  BY DEF AcceptComplete, Agreed, MoneyThere, HasEnoughMoney
<1>2. /\ q \in Players /\ p # q /\ trade[q].trader = p /\ m \in Nat /\ n \in Nat
      /\ gold \in [Players -> 0 .. MaxMoney - 1]
  BY <1>1, PartnerFacts DEF Paired, TradeInv, WindowTypes
<1>q. trade[p].trader = q /\ trade[p].money = m /\ trade[q].money = n
  OBVIOUS
<1> HIDE DEF q, m, n
<1>3. ModifyMoney(gold[p], -m) = gold[p] - m /\ ModifyMoney(gold[q], -n) = gold[q] - n
  BY <1>1, <1>2, PayExactly
<1>4. gold[p] - m \in 0 .. MaxMoney - 1 /\ gold[q] - n \in 0 .. MaxMoney - 1
  <2>1. gold[p] \in 0 .. MaxMoney - 1 /\ gold[q] \in 0 .. MaxMoney - 1
    BY <1>2
  <2>2. gold[p] >= m /\ gold[q] >= n /\ m \in Nat /\ n \in Nat /\ MaxMoney \in Nat
    BY <1>1, <1>2, TradeAssumption
  <2> QED
    BY <2>1, <2>2
<1>5. /\ gold'[p] = ModifyMoney(gold[p] - m, n) /\ gold'[q] = ModifyMoney(gold[q] - n, m)
      /\ \A r \in Players \ {p, q} : gold'[r] = gold[r]
  BY <1>1, <1>2, <1>3
<1>6. /\ \/ gold'[p] = (gold[p] - m) + n
         \/ gold'[p] = gold[p] - m /\ n > 0 /\ (gold[p] - m) + n >= MaxMoney
      /\ \/ gold'[q] = (gold[q] - n) + m
         \/ gold'[q] = gold[q] - n /\ m > 0 /\ (gold[q] - n) + m >= MaxMoney
  BY <1>2, <1>4, <1>5, ReceiveOrRefuse
<1>7. gold[p] \in Int /\ gold[q] \in Int
  BY <1>2
<1>8. \/ gold'[p] + gold'[q] = gold[p] + gold[q]
      \/ /\ gold'[p] + gold'[q] < gold[p] + gold[q]
         /\ \/ n > 0 /\ (gold[p] - m) + n >= MaxMoney
            \/ m > 0 /\ (gold[q] - n) + m >= MaxMoney
  BY <1>2, <1>6, <1>7
<1> QED
  BY <1>1, <1>2, <1>5, <1>8, <1>q DEF PaidFairly

(* No handler makes money, and a trade loses some only at the maximum of a *)
(* purse.                                                                  *)
THEOREM TradesKeepGold == Spec => GoldKept
<1>1. ASSUME TradeInv, Next, trade' # trade, gold' # gold
      PROVE  \E p \in Players : PaidFairly(p)
  <2>1. PICK p \in Players : AcceptComplete(p)
    BY <1>1 DEF Next, Step, InitiateTrade, AcceptNoSpell, SetTradeGold, SetTradeItem,
       ClearTradeItem, CastOnTradeItem, UnacceptTrade, CancelTrade, AcceptNoMoney,
       AcceptRefused, AcceptFirst, AcceptNoRoom, Spend, ItemLeaves, ItemComes
  <2> QED
    BY <1>1, <2>1, CompletionKeepsGold
<1>2. TradeInv /\ [Next]_vars =>
        [trade' # trade /\ gold' # gold => \E p \in Players : PaidFairly(p)]_vars
  BY <1>1
<1> QED
  BY <1>2, TradeInvariant, PTL DEF Spec, GoldKept
=============================================================================
