-------------------------- MODULE TradeItemsProofs --------------------------
(***************************************************************************)
(* Theorems about the items of Trade: what CanStoreItems promises is what  *)
(* moveItems needs, for any number of slots, items and places.             *)
(***************************************************************************)
EXTENDS TradeProofs, FiniteSetTheorems, WellFoundedInduction

(* Numbers are well ordered; every induction here is over the slots that   *)
(* have been moved, by the least number for which a claim fails.           *)
LEMMA LeastNumber ==
  ASSUME NEW T, T \subseteq Nat, T # {}
  PROVE  \E m \in T : \A k \in T : m =< k
<1> DEFINE R == OpToRel(<, Nat)
<1>1. R = {ss \in Nat \X Nat : ss[1] < ss[2]}
  BY DEF OpToRel
<1>2. IsWellFoundedOn(R, Nat)
  BY NatLessThanWellFounded
<1> HIDE DEF R
<1>3. PICK m \in T : \A k \in T : ~(<<k, m>> \in R)
  BY <1>2, WFMin
<1>4. ASSUME NEW k \in T
      PROVE  m =< k
  <2>1. ~(k < m)
    BY <1>1, <1>3
  <2> QED
    BY <2>1
<1> QED
  BY <1>4

(* The places of the items S are finite, and there is one number of them.  *)
LEMMA PlacesFinite ==
  ASSUME NEW f \in Inventory, NEW S \in SUBSET Items
  PROVE  IsFiniteSet(PlacesTaken(f, S)) /\ Cardinality(PlacesTaken(f, S)) \in Nat
<1> DEFINE P == {{i} \X (1 .. f[i]) : i \in S}
           g == [i \in S |-> {i} \X (1 .. f[i])]
<1>1. IsFiniteSet(S)
  BY TradeAssumption, FS_Subset
<1>2. IsFiniteSet(P)
  <2>1. g \in Surjection(S, P)
    BY DEF Surjection
  <2> QED
    BY <1>1, <2>1, FS_Surjection
<1>3. ASSUME NEW T \in P
      PROVE  IsFiniteSet(T)
  <2>1. PICK i \in S : T = {i} \X (1 .. f[i])
    OBVIOUS
  <2>2. f[i] \in Int
    BY DEF Inventory
  <2>3. IsFiniteSet(1 .. f[i])
    BY <2>2, FS_Interval
  <2>4. IsFiniteSet({i})
    BY FS_Singleton
  <2> QED
    BY <2>1, <2>3, <2>4, FS_Product
<1>4. IsFiniteSet(UNION P)
  BY <1>2, <1>3, FS_UNION
<1> QED
  BY <1>4, FS_CardinalityType DEF PlacesTaken

(* A place is an item and a number of at most its count.                   *)
LEMMA PlaceOf ==
  ASSUME NEW f \in Inventory, NEW S \in SUBSET Items, NEW x
  PROVE  x \in PlacesTaken(f, S) <=>
            \E i \in S, n \in Nat : n >= 1 /\ n =< f[i] /\ x = <<i, n>>
<1>1. \A i \in S : f[i] \in Nat
  BY DEF Inventory
<1>2. x \in PlacesTaken(f, S) <=> \E i \in S : x \in {i} \X (1 .. f[i])
  BY DEF PlacesTaken
<1>3. \A i \in S : x \in {i} \X (1 .. f[i]) <=> \E n \in Nat : n >= 1 /\ n =< f[i] /\ x = <<i, n>>
  BY <1>1
<1> QED
  BY <1>2, <1>3

(* Where there is less of every item, no more places are taken.            *)
LEMMA PlacesMonotone ==
  ASSUME NEW f \in Inventory, NEW g \in Inventory, NEW S \in SUBSET Items,
         \A i \in Items : g[i] =< f[i]
  PROVE  Cardinality(PlacesTaken(g, S)) =< Cardinality(PlacesTaken(f, S))
<1>1. PlacesTaken(g, S) \subseteq PlacesTaken(f, S)
  <2>1. ASSUME NEW x \in PlacesTaken(g, S)
        PROVE  x \in PlacesTaken(f, S)
    <3>1. PICK i \in S, n \in Nat : n >= 1 /\ n =< g[i] /\ x = <<i, n>>
      BY PlaceOf
    <3>2. n =< f[i]
      BY <3>1 DEF Inventory
    <3> QED
      BY <3>1, <3>2, PlaceOf
  <2> QED
    BY <2>1
<1> QED
  BY <1>1, PlacesFinite, FS_Subset

(* One more of an item takes one more place.                               *)
LEMMA OneMorePlace ==
  ASSUME NEW f \in Inventory, NEW i \in Items, NEW S \in SUBSET Items
  PROVE  /\ [f EXCEPT ![i] = @ + 1] \in Inventory
         /\ Cardinality(PlacesTaken([f EXCEPT ![i] = @ + 1], S)) =
                Cardinality(PlacesTaken(f, S)) + (IF i \in S THEN 1 ELSE 0)
<1> DEFINE g == [f EXCEPT ![i] = @ + 1]
           top == <<i, f[i] + 1>>
<1>1. /\ g \in Inventory /\ g[i] = f[i] + 1 /\ f[i] \in Nat
      /\ \A j \in Items \ {i} : g[j] = f[j]
  BY DEF Inventory
<1> HIDE DEF g
<1>2. CASE i \notin S
  <2>1. PlacesTaken(g, S) = PlacesTaken(f, S)
    BY <1>1, <1>2 DEF PlacesTaken
  <2> QED
    BY <1>1, <1>2, <2>1, PlacesFinite DEF g
<1>3. CASE i \in S
  <2>1. top \notin PlacesTaken(f, S)
    <3>1. \A j \in S, n \in Nat : n =< f[j] => top # <<j, n>>
      BY <1>1
    <3> QED
      BY <3>1, PlaceOf
  <2>2. ASSUME NEW x
        PROVE  x \in PlacesTaken(g, S) <=> x \in PlacesTaken(f, S) \/ x = top
    <3>1. ASSUME NEW j \in S, NEW n \in Nat, n >= 1, n =< g[j], x = <<j, n>>
          PROVE  x \in PlacesTaken(f, S) \/ x = top
      <4>1. n =< f[j] \/ (j = i /\ n = f[i] + 1)
        BY <1>1, <3>1
      <4> QED
        BY <3>1, <4>1, PlaceOf
    <3>2. ASSUME NEW j \in S, NEW n \in Nat, n >= 1, n =< f[j], x = <<j, n>>
          PROVE  x \in PlacesTaken(g, S)
      <4>1. n =< g[j]
        BY <1>1, <3>2
      <4> QED
        BY <1>1, <3>2, <4>1, PlaceOf
    <3>3. top \in PlacesTaken(g, S)
      <4>1. f[i] + 1 \in Nat /\ f[i] + 1 >= 1 /\ f[i] + 1 =< g[i]
        BY <1>1
      <4> QED
        BY <1>1, <1>3, <4>1, PlaceOf
    <3>4. x \in PlacesTaken(g, S) => x \in PlacesTaken(f, S) \/ x = top
      BY <1>1, <3>1, PlaceOf
    <3>5. x \in PlacesTaken(f, S) => x \in PlacesTaken(g, S)
      BY <3>2, PlaceOf
    <3> QED
      BY <3>3, <3>4, <3>5
  <2>3. PlacesTaken(g, S) = PlacesTaken(f, S) \cup {top}
    BY <2>2
  <2> HIDE DEF top
  <2>4. Cardinality(PlacesTaken(f, S) \cup {top}) = Cardinality(PlacesTaken(f, S)) + 1
    BY <2>1, PlacesFinite, FS_AddElement
  <2> QED
    BY <1>1, <1>3, <2>3, <2>4 DEF g
<1> QED
  BY <1>2, <1>3

-----------------------------------------------------------------------------
(* The loop of moveItems.  m holds what it does to the first n slots.      *)
IsLoop(m, n, v, p, q, mine, his) ==
    \A k \in 0 .. n : m[k] = IF k = 0 THEN v ELSE MoveSlot(m[k - 1], p, q, mine[k], his[k])

HasLoop(n, v, p, q, mine, his) == \E m : IsLoop(m, n, v, p, q, mine, his)

(* The loop can be run to its end.                                         *)
LEMMA LoopExists ==
  ASSUME NEW v, NEW p, NEW q, NEW mine, NEW his
  PROVE  HasLoop(TradedCount, v, p, q, mine, his)
<1> DEFINE T == {n \in Nat : ~HasLoop(n, v, p, q, mine, his)}
<1>1. SUFFICES ASSUME T # {} PROVE FALSE
  BY TradeAssumption
<1>2. PICK n \in T : \A k \in T : n =< k
  BY <1>1, LeastNumber
<1>3. n \in Nat /\ ~HasLoop(n, v, p, q, mine, his)
  OBVIOUS
<1>4. CASE n = 0
  <2>1. PICK m : m = [k \in 0 .. 0 |-> v]
    OBVIOUS
  <2>2. IsLoop(m, 0, v, p, q, mine, his)
    BY <2>1 DEF IsLoop
  <2> QED
    BY <1>3, <1>4, <2>2 DEF HasLoop
<1>5. CASE n # 0
  <2>1. n - 1 \in Nat /\ n - 1 \notin T
    BY <1>2, <1>3, <1>5
  <2>2. PICK l : IsLoop(l, n - 1, v, p, q, mine, his)
    BY <2>1 DEF HasLoop
  <2>3. PICK m : m = [k \in 0 .. n |-> IF k = n THEN MoveSlot(l[n - 1], p, q, mine[n], his[n])
                                              ELSE l[k]]
    OBVIOUS
  <2>4. ASSUME NEW k \in 0 .. n
        PROVE  m[k] = IF k = 0 THEN v ELSE MoveSlot(m[k - 1], p, q, mine[k], his[k])
    <3>1. CASE k = 0
      BY <1>3, <1>5, <2>2, <2>3, <3>1 DEF IsLoop
    <3>2. CASE k # 0
      <4>1. k - 1 \in 0 .. n - 1 /\ k - 1 \in 0 .. n /\ k - 1 # n
        BY <1>3, <3>2
      <4>2. m[k - 1] = l[k - 1]
        BY <2>3, <4>1
      <4>3. CASE k = n
        BY <2>3, <3>2, <4>2, <4>3
      <4>4. CASE k # n
        <5>1. k \in 0 .. n - 1 /\ m[k] = l[k]
          BY <1>3, <2>3, <4>4
        <5> QED
          BY <2>2, <3>2, <4>2, <5>1 DEF IsLoop
      <4> QED
        BY <4>3, <4>4
    <3> QED
      BY <3>1, <3>2
  <2> QED
    BY <1>3, <2>4 DEF IsLoop, HasLoop
<1> QED
  BY <1>4, <1>5

(* MoveSlots is that loop.                                                 *)
LEMMA MoveSlotsLoop ==
  ASSUME NEW v, NEW p, NEW q, NEW mine, NEW his
  PROVE  IsLoop(MoveSlots(v, p, q, mine, his), TradedCount, v, p, q, mine, his)
<1> DEFINE body(m) == [n \in 0 .. TradedCount |->
                        IF n = 0 THEN v ELSE MoveSlot(m[n - 1], p, q, mine[n], his[n])]
<1>1. PICK l : IsLoop(l, TradedCount, v, p, q, mine, his)
  BY LoopExists DEF HasLoop
<1>2. PICK m : m = [n \in 0 .. TradedCount |-> l[n]]
  OBVIOUS
<1>3. m = body(m)
  <2>1. ASSUME NEW n \in 0 .. TradedCount
        PROVE  m[n] = body(m)[n]
    <3>1. n # 0 => n - 1 \in 0 .. TradedCount /\ m[n - 1] = l[n - 1]
      BY <1>2, TradeAssumption
    <3> QED
      BY <1>1, <1>2, <3>1 DEF IsLoop
  <2> QED
    BY <1>2, <2>1
<1>4. MoveSlots(v, p, q, mine, his) = CHOOSE f : f = body(f)
  BY DEF MoveSlots
<1>5. MoveSlots(v, p, q, mine, his) = body(MoveSlots(v, p, q, mine, his))
  BY <1>3, <1>4, Zenon
<1> QED
  BY <1>5 DEF IsLoop

-----------------------------------------------------------------------------
(* Inventories that hold no more than their places.                        *)
Fits(v) ==
    /\ v \in [Players -> Inventory]
    /\ \A r \in Players : Used(v[r]) =< Capacity[r]

Count(v, r, S) == Cardinality(PlacesTaken(v[r], S))

(* MoveItemToInventory for an item.                                        *)
LEMMA StoreAdds ==
  ASSUME NEW v \in [Players -> Inventory], NEW r \in Players, NEW i \in Items
  PROVE  /\ Store(v, r, i) \in [Players -> Inventory]
         /\ \A x \in Players \ {r} : Store(v, r, i)[x] = v[x]
         /\ Store(v, r, i)[r][i] = v[r][i] + 1
         /\ \A j \in Items \ {i} : Store(v, r, i)[r][j] = v[r][j]
         /\ \A S \in SUBSET Items :
                Count(Store(v, r, i), r, S) = Count(v, r, S) + (IF i \in S THEN 1 ELSE 0)
<1>1. i # NoItem
  BY TradeAssumption
<1>2. v[r] \in Inventory
  OBVIOUS
<1>3. PICK f \in Inventory : f = [v[r] EXCEPT ![i] = @ + 1]
  BY <1>2, OneMorePlace
<1>4. Store(v, r, i) = [v EXCEPT ![r] = f]
  BY <1>1, <1>3 DEF Store
<1>5. Store(v, r, i)[r] = f
  BY <1>4
<1>6. f[i] = v[r][i] + 1 /\ \A j \in Items \ {i} : f[j] = v[r][j]
  BY <1>2, <1>3 DEF Inventory
<1>7. \A S \in SUBSET Items :
        Cardinality(PlacesTaken(f, S)) = Cardinality(PlacesTaken(v[r], S)) + (IF i \in S THEN 1 ELSE 0)
  <2>1. PICK g \in Inventory : g = v[r]
    BY <1>2
  <2>2. f = [g EXCEPT ![i] = @ + 1]
    BY <1>3, <2>1
  <2>3. ASSUME NEW S \in SUBSET Items
        PROVE  Cardinality(PlacesTaken(f, S)) =
                    Cardinality(PlacesTaken(g, S)) + (IF i \in S THEN 1 ELSE 0)
    BY <2>2, OneMorePlace
  <2> QED
    BY <2>1, <2>3
<1> QED
  BY <1>3, <1>4, <1>5, <1>6, <1>7 DEF Count

(* It is only called for an item that has its place.                       *)
LEMMA StoreFits ==
  ASSUME NEW v, Fits(v), NEW r \in Players, NEW i \in Items, Used(v[r]) < Capacity[r]
  PROVE  Fits(Store(v, r, i)) /\ Used(Store(v, r, i)[r]) = Used(v[r]) + 1
<1>1. v \in [Players -> Inventory] /\ \A x \in Players : Used(v[x]) =< Capacity[x]
  BY DEF Fits
<1>2. /\ Store(v, r, i) \in [Players -> Inventory]
      /\ \A x \in Players \ {r} : Store(v, r, i)[x] = v[x]
      /\ Count(Store(v, r, i), r, Items) = Count(v, r, Items) + 1
  BY <1>1, StoreAdds
<1>3. Used(Store(v, r, i)[r]) = Used(v[r]) + 1
  BY <1>2 DEF Count, Used
<1>4. Used(v[r]) \in Nat /\ Capacity[r] \in Nat
  BY <1>1, PlacesFinite, TradeAssumption DEF Used
<1> QED
  BY <1>1, <1>2, <1>3, <1>4 DEF Fits

(* A step of moveItems from v to w touches nothing but the items i and j   *)
(* of p and q.                                                             *)
Touches(v, w, p, q, i, j) ==
    /\ \A r \in Players \ {p, q} : w[r] = v[r]
    /\ \A r \in {p, q}, x \in Items \ {i, j} : w[r][x] = v[r][x]

(* The return of an item to its owner.                                     *)
LEMMA ReturnFits ==
  ASSUME NEW v, Fits(v), NEW r \in Players, NEW i \in Items \cup {NoItem}, NEW found
  PROVE  /\ Fits(Return(v, r, i, found))
         /\ \A x \in Players \ {r} : Return(v, r, i, found)[x] = v[x]
         /\ \A x \in Items \ {i} : Return(v, r, i, found)[r][x] = v[r][x]
<1>1. v \in [Players -> Inventory] /\ Used(v[r]) \in Nat /\ Capacity[r] \in Nat
  BY PlacesFinite, TradeAssumption DEF Fits, Used
<1>2. CASE i = NoItem \/ ~CanStoreItem(v, r, i)
  BY <1>2 DEF Return
<1>3. CASE i # NoItem /\ CanStoreItem(v, r, i) /\ ~found
  <2>1. i \in Items /\ Return(v, r, i, found) = Store(v, r, i) /\ Used(v[r]) < Capacity[r]
    BY <1>3 DEF Return, CanStoreItem
  <2> QED
    BY <1>1, <2>1, StoreFits, StoreAdds
<1>4. CASE i # NoItem /\ CanStoreItem(v, r, i) /\ found /\ Used(v[r]) + 2 =< Capacity[r]
  <2>1. i \in Items /\ Return(v, r, i, found) = Store(Store(v, r, i), r, i)
    BY <1>4 DEF Return
  <2>2. PICK w : w = Store(v, r, i)
    OBVIOUS
  <2>3. Fits(w) /\ Used(w[r]) = Used(v[r]) + 1
    BY <1>1, <1>4, <2>1, <2>2, StoreFits
  <2>4. w \in [Players -> Inventory] /\ Used(w[r]) < Capacity[r]
    BY <1>1, <1>4, <2>3 DEF Fits
  <2>5. /\ \A x \in Players \ {r} : w[x] = v[x]
        /\ \A x \in Items \ {i} : w[r][x] = v[r][x]
    BY <1>1, <2>1, <2>2, StoreAdds
  <2>6. /\ \A x \in Players \ {r} : Store(w, r, i)[x] = w[x]
        /\ \A x \in Items \ {i} : Store(w, r, i)[r][x] = w[r][x]
    BY <2>1, <2>4, StoreAdds
  <2>7. Fits(Store(w, r, i))
    BY <2>1, <2>3, <2>4, StoreFits
  <2> QED
    BY <2>1, <2>2, <2>5, <2>6, <2>7
<1>5. CASE i # NoItem /\ CanStoreItem(v, r, i) /\ found /\ ~(Used(v[r]) + 2 =< Capacity[r])
  BY <1>5 DEF Return
<1> QED
  BY <1>2, <1>3, <1>4, <1>5

(* One slot of moveItems, whatever becomes of its items.                   *)
LEMMA MoveSlotFits ==
  ASSUME NEW v, Fits(v), NEW p \in Players, NEW q \in Players, p # q,
         NEW i \in Items \cup {NoItem}, NEW j \in Items \cup {NoItem}
  PROVE  Fits(MoveSlot(v, p, q, i, j)) /\ Touches(v, MoveSlot(v, p, q, i, j), p, q, i, j)
<1>1. v \in [Players -> Inventory]
  BY DEF Fits
<1>2. CASE CanStoreItem(v, q, i) /\ CanStoreItem(v, p, j)
  <2>1. PICK w : w = Store(v, q, i)
    OBVIOUS
  <2>2. MoveSlot(v, p, q, i, j) = Store(w, p, j)
    BY <1>2, <2>1 DEF MoveSlot
  <2>3. /\ Fits(w) /\ w[p] = v[p]
        /\ \A r \in Players \ {q} : w[r] = v[r]
        /\ \A x \in Items \ {i} : w[q][x] = v[q][x]
    <3>1. CASE i = NoItem
      BY <2>1, <3>1 DEF Store
    <3>2. CASE i # NoItem
      <4>1. i \in Items /\ Used(v[q]) < Capacity[q]
        BY <1>2, <3>2 DEF CanStoreItem
      <4> QED
        BY <1>1, <2>1, <4>1, StoreFits, StoreAdds
    <3> QED
      BY <3>1, <3>2
  <2>4. /\ Fits(Store(w, p, j))
        /\ \A r \in Players \ {p} : Store(w, p, j)[r] = w[r]
        /\ \A x \in Items \ {j} : Store(w, p, j)[p][x] = w[p][x]
    <3>1. CASE j = NoItem
      BY <2>3, <3>1 DEF Store
    <3>2. CASE j # NoItem
      <4>1. j \in Items /\ Used(w[p]) < Capacity[p]
        BY <1>2, <2>3, <3>2 DEF CanStoreItem
      <4>2. w \in [Players -> Inventory]
        BY <2>3 DEF Fits
      <4> QED
        BY <2>3, <4>1, <4>2, StoreFits, StoreAdds
    <3> QED
      BY <3>1, <3>2
  <2> QED
    BY <2>2, <2>3, <2>4 DEF Touches
<1>3. CASE ~(CanStoreItem(v, q, i) /\ CanStoreItem(v, p, j))
  <2>1. PICK a, b : MoveSlot(v, p, q, i, j) = Return(Return(v, p, i, a), q, j, b)
    BY <1>3 DEF MoveSlot
  <2>2. PICK w : w = Return(v, p, i, a)
    OBVIOUS
  <2>3. /\ Fits(w) /\ \A r \in Players \ {p} : w[r] = v[r]
        /\ \A x \in Items \ {i} : w[p][x] = v[p][x]
    <3>1. /\ Fits(Return(v, p, i, a))
          /\ \A r \in Players \ {p} : Return(v, p, i, a)[r] = v[r]
          /\ \A x \in Items \ {i} : Return(v, p, i, a)[p][x] = v[p][x]
      BY ReturnFits
    <3> QED
      BY <2>2, <3>1
  <2>4. /\ Fits(Return(w, q, j, b))
        /\ \A r \in Players \ {q} : Return(w, q, j, b)[r] = w[r]
        /\ \A x \in Items \ {j} : Return(w, q, j, b)[q][x] = w[q][x]
    BY <2>3, ReturnFits
  <2> QED
    BY <2>1, <2>2, <2>3, <2>4 DEF Touches
<1> QED
  BY <1>2, <1>3

-----------------------------------------------------------------------------
(* What can go into the slots that are traded.                             *)
SlotItems == [Traded -> Items \cup {NoItem}]

(* Whatever happens to the items of mine and his, w is what v was for      *)
(* everybody and everything else.                                          *)
LoopSafe(w, v, p, q, mine, his) ==
    /\ Fits(w)
    /\ \A r \in Players \ {p, q} : w[r] = v[r]
    /\ \A r \in {p, q}, x \in Items :
            (\A s \in Traded : mine[s] # x /\ his[s] # x) => w[r][x] = v[r][x]

(* moveItems never takes more places than there are, and touches nothing   *)
(* but the items of the slots.                                             *)
LEMMA MoveSlotsSafe ==
  ASSUME NEW v, Fits(v), NEW p \in Players, NEW q \in Players, p # q,
         NEW mine \in SlotItems, NEW his \in SlotItems
  PROVE  LoopSafe(MoveSlots(v, p, q, mine, his)[TradedCount], v, p, q, mine, his)
<1>1. PICK m : m = MoveSlots(v, p, q, mine, his)
  OBVIOUS
<1>2. IsLoop(m, TradedCount, v, p, q, mine, his)
  BY <1>1, MoveSlotsLoop
<1> DEFINE T == {n \in 0 .. TradedCount : ~LoopSafe(m[n], v, p, q, mine, his)}
<1>3. T = {}
  <2>1. SUFFICES ASSUME T # {} PROVE FALSE
    OBVIOUS
  <2>0. T \subseteq Nat
    BY TradeAssumption
  <2>2. PICK n \in T : \A k \in T : n =< k
    BY <2>0, <2>1, LeastNumber
  <2>3. n \in 0 .. TradedCount /\ ~LoopSafe(m[n], v, p, q, mine, his)
    OBVIOUS
  <2>4. CASE n = 0
    <3>1. m[0] = v
      BY <1>2, <2>3, <2>4 DEF IsLoop
    <3> QED
      BY <2>3, <2>4, <3>1 DEF LoopSafe
  <2>5. CASE n # 0
    <3>1. n - 1 \in 0 .. TradedCount /\ n - 1 \notin T /\ n \in Traded
      BY <2>2, <2>3, <2>5, TradeAssumption DEF Traded
    <3>2. LoopSafe(m[n - 1], v, p, q, mine, his)
      BY <3>1
    <3>3. m[n] = MoveSlot(m[n - 1], p, q, mine[n], his[n])
      BY <1>2, <2>3, <2>5 DEF IsLoop
    <3>4. mine[n] \in Items \cup {NoItem} /\ his[n] \in Items \cup {NoItem}
      BY <3>1 DEF SlotItems
    <3>5. PICK u, i, j : u = m[n - 1] /\ i = mine[n] /\ j = his[n]
      OBVIOUS
    <3>6. Fits(MoveSlot(u, p, q, i, j)) /\ Touches(u, MoveSlot(u, p, q, i, j), p, q, i, j)
      BY <3>2, <3>4, <3>5, MoveSlotFits DEF LoopSafe
    <3>7. Fits(m[n]) /\ Touches(u, m[n], p, q, i, j)
      BY <3>3, <3>5, <3>6
    <3> QED
      BY <2>3, <3>1, <3>2, <3>5, <3>7 DEF LoopSafe, Touches
  <2> QED
    BY <2>4, <2>5
<1> QED
  BY <1>1, <1>3, TradeAssumption

-----------------------------------------------------------------------------
(* How many of the first n slots hold one of the items S.                  *)
SlotsWith(o, n, S) == {s \in 1 .. n : o[s] \in S}
Arrived(o, n, S) == Cardinality(SlotsWith(o, n, S))

(* Counting slots one by one.                                              *)
LEMMA ArrivedStep ==
  ASSUME NEW o \in SlotItems, NEW n \in Nat, n + 1 =< TradedCount, NEW S
  PROVE  /\ Arrived(o, n, S) \in Nat
         /\ Arrived(o, n + 1, S) = Arrived(o, n, S) + (IF o[n + 1] \in S THEN 1 ELSE 0)
         /\ Arrived(o, n + 1, S) =< Arrived(o, TradedCount, S)
<1>1. IsFiniteSet(1 .. n) /\ IsFiniteSet(1 .. TradedCount)
  BY FS_Interval, TradeAssumption
<1>2. IsFiniteSet(SlotsWith(o, n, S)) /\ IsFiniteSet(SlotsWith(o, TradedCount, S))
  BY <1>1, FS_Subset DEF SlotsWith
<1>3. Arrived(o, n, S) \in Nat
  BY <1>2, FS_CardinalityType DEF Arrived
<1>4. Arrived(o, n + 1, S) = Arrived(o, n, S) + (IF o[n + 1] \in S THEN 1 ELSE 0)
  <2>1. CASE o[n + 1] \in S
    <3>1. /\ SlotsWith(o, n + 1, S) = SlotsWith(o, n, S) \cup {n + 1}
          /\ n + 1 \notin SlotsWith(o, n, S)
      BY <2>1 DEF SlotsWith
    <3> QED
      BY <1>2, <2>1, <3>1, FS_AddElement DEF Arrived
  <2>2. CASE o[n + 1] \notin S
    <3>1. \A s \in 1 .. n + 1 : s \in 1 .. n \/ s = n + 1
      OBVIOUS
    <3>2. \A s \in 1 .. n : s \in 1 .. n + 1
      OBVIOUS
    <3>3. SlotsWith(o, n + 1, S) = SlotsWith(o, n, S)
      BY <2>2, <3>1, <3>2 DEF SlotsWith
    <3> QED
      BY <1>3, <2>2, <3>3 DEF Arrived
  <2> QED
    BY <2>1, <2>2
<1>6. SlotsWith(o, n + 1, S) \subseteq SlotsWith(o, TradedCount, S)
  BY TradeAssumption DEF SlotsWith
<1>7. Arrived(o, n + 1, S) =< Arrived(o, TradedCount, S)
  BY <1>2, <1>6, FS_Subset DEF Arrived
<1> QED
  BY <1>3, <1>4, <1>7

(* No slots, no items.                                                     *)
LEMMA ArrivedNone ==
  ASSUME NEW o, NEW S
  PROVE  Arrived(o, 0, S) = 0
<1>1. SlotsWith(o, 0, S) = {}
  BY DEF SlotsWith
<1> QED
  BY <1>1, FS_EmptySet DEF Arrived

(* An item is in one slot at most.                                         *)
OnceEach(o) == \A s, t \in Traded : s # t => o[s] # o[t] \/ o[s] = NoItem

(* The player r has room for the items o and may have them, all together.  *)
CanReceive(v, r, o) ==
    /\ Count(v, r, Items) + Arrived(o, TradedCount, Items) =< Capacity[r]
    /\ \A i \in Items :
        LET same == {j \in Items : Kind[j] = Kind[i]}
        IN  MaxCount[Kind[i]] = 0 \/ Count(v, r, same) + Arrived(o, TradedCount, same) =< MaxCount[Kind[i]]

(* From v to w, r has received the first n of the items o.                 *)
HasReceived(w, v, r, o, n) ==
    /\ \A i \in Items : w[r][i] = v[r][i] + (IF \E s \in 1 .. n : o[s] = i THEN 1 ELSE 0)
    /\ \A S \in SUBSET Items : Count(w, r, S) = Count(v, r, S) + Arrived(o, n, S)

(* There is still room for the next item.                                  *)
LEMMA CanStoreNext ==
  ASSUME NEW v \in [Players -> Inventory], NEW w \in [Players -> Inventory], NEW r \in Players,
         NEW o \in SlotItems, NEW n \in Nat, n + 1 =< TradedCount,
         CanReceive(v, r, o), HasReceived(w, v, r, o, n)
  PROVE  CanStoreItem(w, r, o[n + 1])
<1>1. SUFFICES ASSUME o[n + 1] # NoItem
               PROVE  Used(w[r]) < Capacity[r] /\ CanTakeMoreSimilarItems(o[n + 1], w[r])
  BY DEF CanStoreItem
<1>2. PICK i \in Items : i = o[n + 1]
  <2>1. n + 1 \in Traded
    BY TradeAssumption DEF Traded
  <2> QED
    BY <1>1, <2>1 DEF SlotItems
<1>3. \A S \in SUBSET Items : /\ Count(w, r, S) = Count(v, r, S) + Arrived(o, n, S)
                              /\ Count(v, r, S) \in Nat
  BY PlacesFinite DEF HasReceived, Count
<1>4. \A S \in SUBSET Items : i \in S =>
        Arrived(o, n, S) \in Nat /\ Arrived(o, n, S) + 1 =< Arrived(o, TradedCount, S)
  BY <1>2, ArrivedStep
<1>5. \A S \in SUBSET Items : Arrived(o, TradedCount, S) \in Nat
  <2>1. IsFiniteSet(1 .. TradedCount)
    BY FS_Interval, TradeAssumption
  <2> QED
    BY <2>1, FS_Subset, FS_CardinalityType DEF Arrived, SlotsWith
<1>6. Used(w[r]) < Capacity[r]
  <2>1. Count(w, r, Items) < Capacity[r]
    BY <1>3, <1>4, <1>5, TradeAssumption DEF CanReceive
  <2> QED
    BY <2>1 DEF Count, Used
<1>7. CanTakeMoreSimilarItems(i, w[r])
  <2>1. PICK same \in SUBSET Items : same = {j \in Items : Kind[j] = Kind[i]}
    OBVIOUS
  <2>2. MaxCount[Kind[i]] = 0 \/ Count(v, r, same) + Arrived(o, TradedCount, same) =< MaxCount[Kind[i]]
    BY <2>1 DEF CanReceive
  <2>3. i \in same /\ MaxCount[Kind[i]] \in Nat
    BY <2>1, TradeAssumption
  <2>4. MaxCount[Kind[i]] = 0 \/ Count(w, r, same) + 1 =< MaxCount[Kind[i]]
    BY <1>3, <1>4, <1>5, <2>2, <2>3
  <2> QED
    BY <2>1, <2>4 DEF CanTakeMoreSimilarItems, GetItemCount, Count
<1> QED
  BY <1>2, <1>6, <1>7

(* The next item arrives.                                                  *)
LEMMA ReceiveNext ==
  ASSUME NEW v \in [Players -> Inventory], NEW w \in [Players -> Inventory], NEW r \in Players,
         NEW o \in SlotItems, OnceEach(o), NEW n \in Nat, n + 1 =< TradedCount,
         HasReceived(w, v, r, o, n), NEW u, u[r] = Store(w, r, o[n + 1])[r]
  PROVE  HasReceived(u, v, r, o, n + 1)
<1>1. n + 1 \in Traded /\ (\A s \in 1 .. n : s \in Traded /\ s # n + 1)
  BY TradeAssumption DEF Traded
<1>2. /\ \A s \in 1 .. n + 1 : s \in 1 .. n \/ s = n + 1
      /\ \A s \in 1 .. n : s \in 1 .. n + 1
      /\ n + 1 \in 1 .. n + 1
  OBVIOUS
<1>3. PICK i : i = o[n + 1]
  OBVIOUS
<1>4. CASE i = NoItem
  <2>1. u[r] = w[r]
    BY <1>3, <1>4 DEF Store
  <2>2. ASSUME NEW j \in Items
        PROVE  u[r][j] = v[r][j] + (IF \E s \in 1 .. n + 1 : o[s] = j THEN 1 ELSE 0)
    <3>1. (\E s \in 1 .. n + 1 : o[s] = j) <=> (\E s \in 1 .. n : o[s] = j)
      BY <1>2, <1>3, <1>4, TradeAssumption
    <3> QED
      BY <2>1, <3>1 DEF HasReceived
  <2>3. ASSUME NEW S \in SUBSET Items
        PROVE  Count(u, r, S) = Count(v, r, S) + Arrived(o, n + 1, S)
    <3>1. o[n + 1] \notin S
      BY <1>3, <1>4, TradeAssumption
    <3>2. Arrived(o, n + 1, S) = Arrived(o, n, S)
      BY <3>1, ArrivedStep
    <3> QED
      BY <2>1, <3>2 DEF HasReceived, Count
  <2> QED
    BY <2>2, <2>3 DEF HasReceived
<1>5. CASE i # NoItem
  <2>1. i \in Items
    BY <1>1, <1>3, <1>5 DEF SlotItems
  <2>2. /\ u[r][i] = w[r][i] + 1
        /\ \A j \in Items \ {i} : u[r][j] = w[r][j]
        /\ \A S \in SUBSET Items : Count(u, r, S) = Count(w, r, S) + (IF i \in S THEN 1 ELSE 0)
    BY <1>3, <2>1, StoreAdds DEF Count
  <2>3. ~\E s \in 1 .. n : o[s] = i
    BY <1>1, <1>3, <1>5 DEF OnceEach
  <2>4. ASSUME NEW j \in Items
        PROVE  u[r][j] = v[r][j] + (IF \E s \in 1 .. n + 1 : o[s] = j THEN 1 ELSE 0)
    <3>1. v[r][j] \in Nat
      BY DEF Inventory
    <3>2. CASE j = i
      <4>1. \E s \in 1 .. n + 1 : o[s] = j
        BY <1>2, <1>3, <3>2
      <4>2. w[r][j] = v[r][j] + 0
        BY <2>3, <3>2 DEF HasReceived
      <4> QED
        BY <2>2, <3>1, <3>2, <4>1, <4>2
    <3>3. CASE j # i
      <4>1. (\E s \in 1 .. n + 1 : o[s] = j) <=> (\E s \in 1 .. n : o[s] = j)
        BY <1>2, <1>3, <3>3
      <4> QED
        BY <2>2, <3>3, <4>1 DEF HasReceived
    <3> QED
      BY <3>2, <3>3
  <2>5. ASSUME NEW S \in SUBSET Items
        PROVE  Count(u, r, S) = Count(v, r, S) + Arrived(o, n + 1, S)
    <3>1. /\ Arrived(o, n, S) \in Nat
          /\ Arrived(o, n + 1, S) = Arrived(o, n, S) + (IF i \in S THEN 1 ELSE 0)
      BY <1>3, ArrivedStep
    <3>2. Count(v, r, S) \in Nat
      BY PlacesFinite DEF Count
    <3>3. Count(w, r, S) = Count(v, r, S) + Arrived(o, n, S)
      BY DEF HasReceived
    <3> QED
      BY <2>2, <3>1, <3>2, <3>3
  <2> QED
    BY <2>4, <2>5 DEF HasReceived
<1> QED
  BY <1>4, <1>5

(* From v to w, both have received the first n items of the other.         *)
Exchanged(w, v, p, q, mine, his, n) ==
    /\ w \in [Players -> Inventory]
    /\ HasReceived(w, v, q, mine, n)
    /\ HasReceived(w, v, p, his, n)

(* One slot of an exchange for which there is room.                        *)
LEMMA ExchangeSlot ==
  ASSUME NEW v \in [Players -> Inventory], NEW w, NEW p \in Players, NEW q \in Players, p # q,
         NEW mine \in SlotItems, NEW his \in SlotItems, OnceEach(mine), OnceEach(his),
         CanReceive(v, q, mine), CanReceive(v, p, his),
         NEW n \in Nat, n + 1 =< TradedCount, Exchanged(w, v, p, q, mine, his, n)
  PROVE  Exchanged(MoveSlot(w, p, q, mine[n + 1], his[n + 1]), v, p, q, mine, his, n + 1)
<1>1. PICK i, j : i = mine[n + 1] /\ j = his[n + 1]
  OBVIOUS
<1>2. i \in Items \cup {NoItem} /\ j \in Items \cup {NoItem}
  <2>1. n + 1 \in Traded
    BY TradeAssumption DEF Traded
  <2> QED
    BY <1>1, <2>1 DEF SlotItems
<1>3. /\ w \in [Players -> Inventory]
      /\ HasReceived(w, v, q, mine, n) /\ HasReceived(w, v, p, his, n)
  BY DEF Exchanged
<1>4. CanStoreItem(w, q, i) /\ CanStoreItem(w, p, j)
  BY <1>1, <1>3, CanStoreNext
<1>5. PICK x, u : x = Store(w, q, i) /\ u = Store(x, p, j)
  OBVIOUS
<1>6. MoveSlot(w, p, q, i, j) = u
  BY <1>4, <1>5 DEF MoveSlot
<1>7. x \in [Players -> Inventory] /\ x[p] = w[p]
  <2>1. CASE i = NoItem
    BY <1>3, <1>5, <2>1 DEF Store
  <2>2. CASE i # NoItem
    BY <1>2, <1>3, <1>5, <2>2, StoreAdds
  <2> QED
    BY <2>1, <2>2
<1>8. u \in [Players -> Inventory] /\ u[q] = x[q]
  <2>1. CASE j = NoItem
    BY <1>5, <1>7, <2>1 DEF Store
  <2>2. CASE j # NoItem
    BY <1>2, <1>5, <1>7, <2>2, StoreAdds
  <2> QED
    BY <2>1, <2>2
<1>9. u[p] = Store(w, p, j)[p]
  BY <1>3, <1>5, <1>7 DEF Store
<1>10. HasReceived(u, v, q, mine, n + 1)
  BY <1>1, <1>3, <1>5, <1>8, ReceiveNext
<1>11. HasReceived(u, v, p, his, n + 1)
  BY <1>1, <1>3, <1>9, ReceiveNext
<1> QED
  BY <1>1, <1>6, <1>8, <1>10, <1>11 DEF Exchanged

(* moveItems exchanges everything when there is room for it.               *)
LEMMA MoveSlotsExchange ==
  ASSUME NEW v \in [Players -> Inventory], NEW p \in Players, NEW q \in Players, p # q,
         NEW mine \in SlotItems, NEW his \in SlotItems, OnceEach(mine), OnceEach(his),
         CanReceive(v, q, mine), CanReceive(v, p, his)
  PROVE  Exchanged(MoveSlots(v, p, q, mine, his)[TradedCount], v, p, q, mine, his, TradedCount)
<1>1. PICK m : m = MoveSlots(v, p, q, mine, his)
  OBVIOUS
<1>2. IsLoop(m, TradedCount, v, p, q, mine, his)
  BY <1>1, MoveSlotsLoop
<1> DEFINE T == {n \in 0 .. TradedCount : ~Exchanged(m[n], v, p, q, mine, his, n)}
<1>3. T = {}
  <2>1. SUFFICES ASSUME T # {} PROVE FALSE
    OBVIOUS
  <2>2. T \subseteq Nat
    BY TradeAssumption
  <2>3. PICK k \in T : \A l \in T : k =< l
    BY <2>1, <2>2, LeastNumber
  <2>4. k \in 0 .. TradedCount /\ ~Exchanged(m[k], v, p, q, mine, his, k)
    OBVIOUS
  <2>5. CASE k = 0
    <3>1. m[0] = v
      BY <1>2, <2>4, <2>5 DEF IsLoop
    <3>2. ASSUME NEW r \in Players, NEW o
          PROVE  HasReceived(v, v, r, o, 0)
      <4>1. \A i \in Items : v[r][i] \in Nat
        BY DEF Inventory
      <4>2. \A S \in SUBSET Items : Count(v, r, S) \in Nat
        BY PlacesFinite DEF Count
      <4>3. \A S \in SUBSET Items : Count(v, r, S) = Count(v, r, S) + Arrived(o, 0, S)
        BY <4>2, ArrivedNone
      <4> QED
        BY <4>1, <4>3 DEF HasReceived
    <3> QED
      BY <2>4, <2>5, <3>1, <3>2 DEF Exchanged
  <2>6. CASE k # 0
    <3>1. PICK n \in Nat : n + 1 = k /\ n = k - 1 /\ n + 1 =< TradedCount
      BY <2>2, <2>4, <2>6, TradeAssumption
    <3>2. n \in 0 .. TradedCount /\ n \notin T
      BY <2>3, <2>4, <3>1, TradeAssumption
    <3>3. PICK w : w = m[n]
      OBVIOUS
    <3>4. Exchanged(w, v, p, q, mine, his, n)
      BY <3>2, <3>3
    <3>5. m[k] = MoveSlot(w, p, q, mine[n + 1], his[n + 1])
      BY <1>2, <2>4, <2>6, <3>1, <3>3 DEF IsLoop
    <3>6. Exchanged(MoveSlot(w, p, q, mine[n + 1], his[n + 1]), v, p, q, mine, his, n + 1)
      BY <3>1, <3>4, ExchangeSlot
    <3> QED
      BY <2>4, <3>1, <3>5, <3>6
  <2> QED
    BY <2>5, <2>6
<1> QED
  BY <1>1, <1>3, TradeAssumption

-----------------------------------------------------------------------------
(* An item is in one slot of a window at most.                             *)
InOneSlot(d) == \A s, t \in Slots : s # t => d.items[s] # d.items[t] \/ d.items[s] = NoItem

AllInOneSlot == \A p \in Players : InOneSlot(trade[p])

(* The inductive invariant: the windows are as TradeProofs shows, and what *)
(* they name is in one slot; the inventories fit.                          *)
ItemsInv ==
    /\ TradeInv
    /\ AllInOneSlot
    /\ Fits(inv)
    /\ away \subseteq Items

(* From the trades t to u, no window names other items.                    *)
SameItems(t, u) == \A r \in Players : u[r].items = t[r].items

(* The setters that do not set an item.                                    *)
LEMMA UnacceptedSameItems ==
  ASSUME NEW t \in Trades, NEW p \in Players, NEW q \in Players, Paired(t, p, q)
  PROVE  SameItems(t, Unaccepted(t, p))
<1>1. \A r \in Players : t[r] \in TradeData
  BY DEF Trades
<1>2. t[p].trader = q /\ p # q
  BY DEF Paired
<1>3. Unaccepted(t, p) = [t EXCEPT ![p] = [t[p] EXCEPT !.accepted = FALSE],
                                   ![q] = [t[q] EXCEPT !.accepted = FALSE]]
  BY <1>2 DEF Unaccepted, Trades
<1>4. \A r \in Players : [t[r] EXCEPT !.accepted = FALSE].items = t[r].items
  BY <1>1 DEF TradeData
<1> QED
  BY <1>2, <1>3, <1>4 DEF SameItems, Trades

(* TradeData::SetSpell names no other item.                                *)
LEMMA SetSpellSameItems ==
  ASSUME NEW t \in Trades, NEW p \in Players, NEW q \in Players, Paired(t, p, q),
         NEW spell \in BOOLEAN
  PROVE  SameItems(t, SetSpell(t, p, spell))
<1>1. PICK u : u = [t EXCEPT ![p].spell = spell]
  OBVIOUS
<1>2. u \in Trades /\ Paired(u, p, q) /\ SameItems(t, u)
  BY <1>1 DEF Trades, TradeData, Paired, SameItems
<1>3. SameItems(u, Unaccepted(u, p))
  BY <1>2, UnacceptedSameItems
<1> QED
  BY <1>1, <1>2, <1>3 DEF SetSpell, SameItems

(* TradeData::SetMoney names no other item.                                *)
LEMMA SetMoneySameItems ==
  ASSUME NEW t \in Trades, NEW p \in Players, NEW q \in Players, Paired(t, p, q),
         NEW m \in Nat
  PROVE  SameItems(t, SetMoney(t, p, m))
<1>1. PICK u : u = [t EXCEPT ![p].money = m]
  OBVIOUS
<1>2. u \in Trades /\ Paired(u, p, q) /\ SameItems(t, u)
  BY <1>1 DEF Trades, TradeData, Paired, SameItems
<1>3. SameItems(u, Unaccepted(u, p))
  BY <1>2, UnacceptedSameItems
<1> QED
  BY <1>1, <1>2, <1>3 DEF SetMoney, SameItems

(* TradeData::SetItem sets one slot of one window.                         *)
LEMMA SetItemSetsOne ==
  ASSUME NEW t \in Trades, NEW p \in Players, NEW q \in Players, Paired(t, p, q),
         NEW s \in Slots, NEW i \in Items \cup {NoItem}
  PROVE  /\ SetItem(t, p, s, i)[p].items = [t[p].items EXCEPT ![s] = i]
         /\ \A r \in Players \ {p} : SetItem(t, p, s, i)[r].items = t[r].items
<1>1. t[p].items \in [Slots -> Items \cup {NoItem}]
  BY DEF Trades, TradeData
<1>2. CASE t[p].items[s] = i
  BY <1>1, <1>2 DEF SetItem
<1>3. CASE t[p].items[s] # i
  <2>1. PICK t0 : t0 = [t EXCEPT ![p].items[s] = i]
    OBVIOUS
  <2>2. /\ t0 \in Trades /\ Paired(t0, p, q)
        /\ t0[p].items = [t[p].items EXCEPT ![s] = i]
        /\ \A r \in Players \ {p} : t0[r].items = t[r].items
    BY <2>1 DEF Trades, TradeData, Paired
  <2>3. PICK t1 : t1 = Unaccepted(t0, p)
    OBVIOUS
  <2>4. t1 \in Trades /\ Paired(t1, p, q) /\ SameItems(t0, t1)
    BY <2>2, <2>3, UnacceptedKeeps, UnacceptedSameItems
  <2>5. PICK t2 : t2 = IF s = NonTraded THEN SetSpell(t1, q, FALSE) ELSE t1
    OBVIOUS
  <2>6. t2 \in Trades /\ Paired(t2, p, q) /\ SameItems(t1, t2)
    <3>1. Paired(t1, q, p)
      BY <2>4 DEF Paired
    <3>2. SetterKeeps(t1, SetSpell(t1, q, FALSE), q, p) /\ SameItems(t1, SetSpell(t1, q, FALSE))
      BY <2>4, <3>1, SetSpellKeeps, SetSpellSameItems
    <3>3. SetSpell(t1, q, FALSE) \in Trades /\ Paired(SetSpell(t1, q, FALSE), p, q)
      BY <3>2 DEF SetterKeeps, Paired
    <3>4. CASE s = NonTraded
      BY <2>5, <3>2, <3>3, <3>4
    <3>5. CASE s # NonTraded
      BY <2>4, <2>5, <3>5 DEF SameItems
    <3> QED
      BY <3>4, <3>5
  <2>7. SameItems(t2, SetSpell(t2, p, FALSE))
    BY <2>6, SetSpellSameItems
  <2>8. SetItem(t, p, s, i) = SetSpell(t2, p, FALSE)
    BY <1>3, <2>1, <2>3, <2>5 DEF SetItem, Paired
  <2>9. SameItems(t0, SetSpell(t2, p, FALSE))
    BY <2>4, <2>6, <2>7 DEF SameItems
  <2> QED
    BY <2>2, <2>8, <2>9 DEF SameItems
<1> QED
  BY <1>2, <1>3

(* A handler that names no other item.                                     *)
LEMMA SameItemsStep ==
  ASSUME AllInOneSlot, SameItems(trade, trade')
  PROVE  AllInOneSlot'
<1>1. ASSUME NEW p \in Players
      PROVE  InOneSlot(trade[p])'
  <2>1. trade'[p].items = trade[p].items
    BY DEF SameItems
  <2> QED
    BY <2>1 DEF InOneSlot, AllInOneSlot
<1> QED
  BY <1>1 DEF AllInOneSlot

(* A handler that sets or clears one slot.                                 *)
LEMMA SetOneStep ==
  ASSUME AllInOneSlot, trade \in Trades,
         NEW p \in Players, NEW s \in Slots, NEW i \in Items \cup {NoItem},
         i = NoItem \/ ~HasItem(p, i),
         trade'[p].items = [trade[p].items EXCEPT ![s] = i],
         \A r \in Players \ {p} : trade'[r].items = trade[r].items
  PROVE  AllInOneSlot'
<1>1. ASSUME NEW r \in Players
      PROVE  InOneSlot(trade[r])'
  <2>1. CASE r # p
    BY <2>1 DEF InOneSlot, AllInOneSlot
  <2>2. CASE r = p
    <3>1. PICK f \in [Slots -> Items \cup {NoItem}] : f = trade[p].items
      BY DEF Trades, TradeData
    <3>2. \A a, b \in Slots : a # b => f[a] # f[b] \/ f[a] = NoItem
      BY <3>1 DEF InOneSlot, AllInOneSlot
    <3>3. i = NoItem \/ \A a \in Slots : f[a] # i
      BY <3>1 DEF HasItem
    <3>4. PICK g : g = [f EXCEPT ![s] = i]
      OBVIOUS
    <3>5. \A a, b \in Slots : a # b => g[a] # g[b] \/ g[a] = NoItem
      BY <3>1, <3>2, <3>3, <3>4
    <3>6. trade'[r].items = g
      BY <2>2, <3>1, <3>4
    <3> QED
      BY <3>5, <3>6 DEF InOneSlot
  <2> QED
    BY <2>1, <2>2
<1> QED
  BY <1>1 DEF AllInOneSlot

(* A handler that opens or closes windows.                                 *)
LEMMA FreshWindows ==
  ASSUME AllInOneSlot, trade \in Trades,
         NEW p \in Players, NEW q \in Players, p # q, NEW a, NEW b,
         trade' = [trade EXCEPT ![p] = NewTrade(a), ![q] = NewTrade(b)]
  PROVE  AllInOneSlot'
<1>1. ASSUME NEW r \in Players
      PROVE  InOneSlot(trade[r])'
  <2>1. \A x : \A s \in Slots : NewTrade(x).items[s] = NoItem
    BY DEF NewTrade
  <2>2. trade'[r] = trade[r] \/ trade'[r] = NewTrade(a) \/ trade'[r] = NewTrade(b)
    BY DEF Trades
  <2> QED
    BY <2>1, <2>2 DEF InOneSlot, AllInOneSlot
<1> QED
  BY <1>1 DEF AllInOneSlot

(* A handler that changes only whether two players have accepted.          *)
LEMMA AcceptedSameItems ==
  ASSUME NEW t \in Trades, NEW p \in Players, NEW q \in Players, NEW a \in BOOLEAN, NEW b \in BOOLEAN
  PROVE  /\ [t EXCEPT ![p].accepted = a] \in Trades
         /\ SameItems(t, [t EXCEPT ![p].accepted = a])
         /\ SameItems(t, [t EXCEPT ![p].accepted = a, ![q].accepted = b])
<1>1. \A r \in Players, c \in BOOLEAN : [t[r] EXCEPT !.accepted = c] \in TradeData
                                        /\ [t[r] EXCEPT !.accepted = c].items = t[r].items
  BY DEF Trades, TradeData
<1>2. PICK u : u = [t EXCEPT ![p].accepted = a]
  OBVIOUS
<1>3. u \in Trades /\ SameItems(t, u)
  BY <1>1, <1>2 DEF Trades, SameItems
<1>4. \A r \in Players, c \in BOOLEAN : [u[r] EXCEPT !.accepted = c].items = u[r].items
  BY <1>3 DEF Trades, TradeData
<1>5. PICK w : w = [u EXCEPT ![q].accepted = b]
  OBVIOUS
<1>6. SameItems(u, w)
  BY <1>3, <1>4, <1>5 DEF Trades, SameItems
<1>7. w = [t EXCEPT ![p].accepted = a, ![q].accepted = b]
  BY <1>2, <1>5
<1> QED
  BY <1>2, <1>3, <1>6, <1>7 DEF SameItems

(* Every handler keeps an item in one slot: SetTradeItem refuses an item   *)
(* that is in the window.                                                  *)
LEMMA NextInOneSlot ==
  ASSUME TradeInv, AllInOneSlot, [Next]_vars
  PROVE  AllInOneSlot'
<1>t. trade \in Trades
  BY DEF TradeInv, WindowTypes
<1>u. CASE trade' = trade
  <2>1. SameItems(trade, trade')
    BY <1>u DEF SameItems
  <2> QED
    BY <2>1, SameItemsStep
<1>n. CASE Next
  <2>1. ASSUME NEW p \in Players, NEW q \in Players, InitiateTrade(p, q)
        PROVE  AllInOneSlot'
    BY <1>t, <2>1, FreshWindows DEF InitiateTrade
  <2>2. ASSUME NEW p \in Players, NEW m \in 0 .. MaxMoney, SetTradeGold(p, m)
        PROVE  AllInOneSlot'
    <3>1. InTrade(p) /\ trade' = SetMoney(trade, p, m) /\ m \in Nat
      BY <2>2, TradeAssumption DEF SetTradeGold
    <3>2. SameItems(trade, trade')
      BY <1>t, <3>1, PartnerFacts, SetMoneySameItems
    <3> QED
      BY <3>2, SameItemsStep
  <2>3. ASSUME NEW p \in Players, NEW s \in Slots, NEW i \in Items, SetTradeItem(p, s, i)
        PROVE  AllInOneSlot'
    <3>1. InTrade(p) /\ trade' = SetItem(trade, p, s, i) /\ ~HasItem(p, i)
      BY <2>3 DEF SetTradeItem
    <3>2. /\ trade'[p].items = [trade[p].items EXCEPT ![s] = i]
          /\ \A r \in Players \ {p} : trade'[r].items = trade[r].items
      BY <1>t, <3>1, PartnerFacts, SetItemSetsOne
    <3> QED
      BY <1>t, <3>1, <3>2, SetOneStep
  <2>4. ASSUME NEW p \in Players, NEW s \in Slots, ClearTradeItem(p, s)
        PROVE  AllInOneSlot'
    <3>1. InTrade(p) /\ trade' = SetItem(trade, p, s, NoItem)
      BY <2>4 DEF ClearTradeItem
    <3>2. /\ trade'[p].items = [trade[p].items EXCEPT ![s] = NoItem]
          /\ \A r \in Players \ {p} : trade'[r].items = trade[r].items
      BY <1>t, <3>1, PartnerFacts, SetItemSetsOne
    <3> QED
      BY <1>t, <3>2, SetOneStep
  <2>5. ASSUME NEW p \in Players, CastOnTradeItem(p)
        PROVE  AllInOneSlot'
    <3>1. InTrade(p) /\ trade' = SetSpell(trade, p, TRUE)
      BY <2>5 DEF CastOnTradeItem
    <3>2. SameItems(trade, trade')
      BY <1>t, <3>1, PartnerFacts, SetSpellSameItems
    <3> QED
      BY <3>2, SameItemsStep
  <2>6. ASSUME NEW p \in Players, UnacceptTrade(p) \/ AcceptRefused(p) \/ AcceptFirst(p)
        PROVE  AllInOneSlot'
    <3>1. PICK a \in BOOLEAN : trade' = [trade EXCEPT ![p].accepted = a]
      BY <2>6 DEF UnacceptTrade, AcceptRefused, AcceptFirst, AcceptedBy
    <3>2. SameItems(trade, trade')
      BY <1>t, <3>1, AcceptedSameItems
    <3> QED
      BY <3>2, SameItemsStep
  <2>7. ASSUME NEW p \in Players, CancelTrade(p) \/ AcceptComplete(p)
        PROVE  AllInOneSlot'
    <3>1. /\ InTrade(p)
          /\ trade' = [trade EXCEPT ![p] = NoTrade, ![trade[p].trader] = NoTrade]
      BY <2>7 DEF CancelTrade, TradeCancel, AcceptComplete, Agreed, InTrade
    <3>2. PICK q \in Players : q = trade[p].trader /\ p # q
      BY <3>1, PartnerFacts DEF Paired
    <3> QED
      BY <1>t, <3>1, <3>2, FreshWindows DEF NoTrade
  <2>8. ASSUME NEW p \in Players, AcceptNoMoney(p)
        PROVE  AllInOneSlot'
    <3>1. /\ InTrade(p)
          /\ \/ trade' = [trade EXCEPT ![p].accepted = FALSE]
             \/ trade' = [trade EXCEPT ![p].accepted = TRUE, ![trade[p].trader].accepted = FALSE]
      BY <2>8 DEF AcceptNoMoney, AcceptedBy
    <3>2. PICK q \in Players : q = trade[p].trader
      BY <3>1, PartnerFacts
    <3>3. SameItems(trade, trade')
      <4>1. CASE trade' = [trade EXCEPT ![p].accepted = FALSE]
        BY <1>t, <4>1, AcceptedSameItems
      <4>2. CASE trade' = [trade EXCEPT ![p].accepted = TRUE, ![trade[p].trader].accepted = FALSE]
        <5>1. trade' = [trade EXCEPT ![p].accepted = TRUE, ![q].accepted = FALSE]
          BY <3>2, <4>2
        <5> QED
          BY <1>t, <5>1, AcceptedSameItems
      <4> QED
        BY <3>1, <4>1, <4>2
    <3> QED
      BY <3>3, SameItemsStep
  <2>9. ASSUME NEW p \in Players, NEW r \in Players, AcceptNoSpell(p, r)
        PROVE  AllInOneSlot'
    <3>1. InTrade(p) /\ r \in {p, trade[p].trader} /\ trade' = SetSpell(AcceptedBy(p), r, FALSE)
      BY <2>9 DEF AcceptNoSpell, Agreed
    <3>2. PICK q \in Players : q = trade[p].trader /\ Paired(trade, p, q)
      BY <3>1, PartnerFacts
    <3>3. PICK t : t = AcceptedBy(p)
      OBVIOUS
    <3>4. t \in Trades /\ SameItems(trade, t)
      BY <1>t, <3>3, AcceptedSameItems DEF AcceptedBy
    <3>5. Paired(t, p, q) /\ Paired(t, q, p)
      BY <1>t, <3>2, <3>3 DEF AcceptedBy, Trades, TradeData, Paired
    <3>6. SameItems(t, trade')
      BY <3>1, <3>2, <3>3, <3>4, <3>5, SetSpellSameItems
    <3>7. SameItems(trade, trade')
      BY <3>4, <3>6 DEF SameItems
    <3> QED
      BY <3>7, SameItemsStep
  <2>10. ASSUME NEW p \in Players, AcceptNoRoom(p)
         PROVE  AllInOneSlot'
    <3>1. InTrade(p) /\ trade' = Unaccepted(trade, p)
      BY <2>10 DEF AcceptNoRoom, Agreed
    <3>2. SameItems(trade, trade')
      BY <1>t, <3>1, PartnerFacts, UnacceptedSameItems
    <3> QED
      BY <3>2, SameItemsStep
  <2>11. ASSUME NEW p \in Players, Spend(p) \/ \E i \in Items : ItemLeaves(p, i) \/ ItemComes(p, i)
         PROVE  AllInOneSlot'
    BY <1>u, <2>11 DEF Spend, ItemLeaves, ItemComes
  <2> QED
    BY <1>n, <2>1, <2>2, <2>3, <2>4, <2>5, <2>6, <2>7, <2>8, <2>9, <2>10, <2>11
       DEF Next, Step
<1> QED
  BY <1>u, <1>n DEF vars

-----------------------------------------------------------------------------
(* setAcceptTradeMode collects items that the player has, each once.       *)
LEMMA OfferedFacts ==
  ASSUME ItemsInv, NEW p \in Players
  PROVE  /\ Offered(p) \in SlotItems /\ OnceEach(Offered(p))
         /\ \A s \in Traded : Offered(p)[s] # NoItem => inv[p][Offered(p)[s]] > 0
<1>1. PICK f \in [Slots -> Items \cup {NoItem}] : f = trade[p].items
  BY DEF ItemsInv, TradeInv, WindowTypes, Trades, TradeData
<1>2. \A a, b \in Slots : a # b => f[a] # f[b] \/ f[a] = NoItem
  BY <1>1 DEF ItemsInv, AllInOneSlot, InOneSlot
<1>3. Traded \subseteq Slots
  BY DEF Slots
<1>4. \A s \in Traded : Offered(p)[s] = IF f[s] # NoItem /\ inv[p][f[s]] > 0 THEN f[s] ELSE NoItem
  BY <1>1, <1>3 DEF Offered, GetItem
<1>5. \A s \in Traded : Offered(p)[s] \in Items \cup {NoItem}
  BY <1>3, <1>4
<1>6. Offered(p) \in SlotItems
  BY <1>5 DEF Offered, SlotItems
<1>7. OnceEach(Offered(p))
  BY <1>2, <1>3, <1>4 DEF OnceEach
<1> QED
  BY <1>4, <1>6, <1>7

(* MoveItemFromInventory for the items o, which are there.                 *)
LEMMA WithoutFacts ==
  ASSUME NEW f \in Inventory, NEW o \in SlotItems,
         \A s \in Traded : o[s] # NoItem => f[o[s]] > 0
  PROVE  /\ Without(f, o) \in Inventory
         /\ \A i \in Items : Without(f, o)[i] =< f[i]
         /\ \A i \in Items :
                Without(f, o)[i] = f[i] - (IF \E s \in Traded : o[s] = i THEN 1 ELSE 0)
<1>1. ASSUME NEW i \in Items
      PROVE  /\ Without(f, o)[i] \in Nat /\ Without(f, o)[i] =< f[i]
             /\ Without(f, o)[i] = f[i] - (IF \E s \in Traded : o[s] = i THEN 1 ELSE 0)
  <2>1. f[i] \in Nat /\ i # NoItem
    BY TradeAssumption DEF Inventory
  <2>2. CASE \E s \in Traded : o[s] = i
    <3>1. f[i] > 0
      BY <2>1, <2>2
    <3>2. Without(f, o)[i] = f[i] - 1
      BY <2>2 DEF Without
    <3> QED
      BY <2>1, <2>2, <3>1, <3>2
  <2>3. CASE ~\E s \in Traded : o[s] = i
    <3>1. Without(f, o)[i] = f[i]
      BY <2>3 DEF Without
    <3> QED
      BY <2>1, <2>3, <3>1
  <2> QED
    BY <2>2, <2>3
<1>2. Without(f, o) \in Inventory
  BY <1>1 DEF Without, Inventory
<1> QED
  BY <1>1, <1>2

(* The inventories while the items are in nobody's hands.                  *)
Removed(p, q) ==
    [inv EXCEPT ![p] = Without(inv[p], Offered(p)), ![q] = Without(inv[q], Offered(q))]

(* Taking items out leaves room.                                           *)
LEMMA RemovedFacts ==
  ASSUME ItemsInv, NEW p \in Players, NEW q \in Players, p # q
  PROVE  /\ Fits(Removed(p, q))
         /\ Removed(p, q)[p] = Without(inv[p], Offered(p))
         /\ Removed(p, q)[q] = Without(inv[q], Offered(q))
         /\ \A r \in Players \ {p, q} : Removed(p, q)[r] = inv[r]
         /\ moveItems(p, q) = MoveSlots(Removed(p, q), p, q, Offered(p), Offered(q))[TradedCount]
<1>1. inv \in [Players -> Inventory] /\ \A r \in Players : Used(inv[r]) =< Capacity[r]
  BY DEF ItemsInv, Fits
<1>2. ASSUME NEW r \in Players
      PROVE  Without(inv[r], Offered(r)) \in Inventory /\ Used(Without(inv[r], Offered(r))) =< Capacity[r]
  <2>1. PICK f \in Inventory, o \in SlotItems : f = inv[r] /\ o = Offered(r)
    BY <1>1, OfferedFacts
  <2>2. \A s \in Traded : o[s] # NoItem => f[o[s]] > 0
    BY <2>1, OfferedFacts
  <2>3. Without(f, o) \in Inventory /\ \A i \in Items : Without(f, o)[i] =< f[i]
    BY <2>2, WithoutFacts
  <2>4. Used(Without(f, o)) =< Used(f) /\ Used(f) \in Nat /\ Used(Without(f, o)) \in Nat
    BY <2>3, PlacesMonotone, PlacesFinite DEF Used
  <2>5. Used(f) =< Capacity[r] /\ Capacity[r] \in Nat
    BY <1>1, <2>1, TradeAssumption
  <2>6. Used(Without(f, o)) =< Capacity[r]
    BY <2>4, <2>5
  <2> QED
    BY <2>1, <2>3, <2>6
<1>3. /\ Removed(p, q)[p] = Without(inv[p], Offered(p))
      /\ Removed(p, q)[q] = Without(inv[q], Offered(q))
      /\ \A r \in Players \ {p, q} : Removed(p, q)[r] = inv[r]
      /\ Removed(p, q) \in [Players -> Inventory]
  BY <1>1, <1>2 DEF Removed
<1>4. Fits(Removed(p, q))
  BY <1>1, <1>2, <1>3 DEF Fits
<1>5. moveItems(p, q) = MoveSlots(Removed(p, q), p, q, Offered(p), Offered(q))[TradedCount]
  BY <1>1 DEF moveItems, Removed
<1> QED
  BY <1>3, <1>4, <1>5

(* What CanStoreItems has found room for, and is not too many of a kind,   *)
(* can be received: the places of what p gives are free, and his count of  *)
(* a kind is not more than before.                                         *)
LEMMA RoomToReceive ==
  ASSUME ItemsInv, NEW r \in Players, NEW x \in Players, trade[r].trader = x,
         CanStoreItems(r, Offered(r), Offered(x)), WithinMaxCount(r),
         NEW v, v[r] = Without(inv[r], Offered(r))
  PROVE  CanReceive(v, r, Offered(x))
<1>1. PICK f \in Inventory, o \in SlotItems, h \in SlotItems :
            f = inv[r] /\ o = Offered(r) /\ h = Offered(x)
  BY OfferedFacts DEF ItemsInv, Fits
<1>2. \A s \in Traded : o[s] # NoItem => f[o[s]] > 0
  BY <1>1, OfferedFacts
<1>3. Without(f, o) \in Inventory /\ \A i \in Items : Without(f, o)[i] =< f[i]
  BY <1>2, WithoutFacts
<1>4. SlotsWith(h, TradedCount, Items) = {s \in Traded : h[s] # NoItem}
  BY TradeAssumption DEF SlotsWith, Traded, SlotItems
<1>5. Count(v, r, Items) + Arrived(h, TradedCount, Items) =< Capacity[r]
  BY <1>1, <1>4 DEF Count, Arrived, Used, CanStoreItems
<1>6. ASSUME NEW i \in Items, MaxCount[Kind[i]] # 0,
             NEW same \in SUBSET Items, same = {j \in Items : Kind[j] = Kind[i]}
      PROVE  Count(v, r, same) + Arrived(h, TradedCount, same) =< MaxCount[Kind[i]]
  <2>1. SlotsWith(h, TradedCount, same) = {s \in Traded : h[s] # NoItem /\ Kind[h[s]] = Kind[i]}
    BY <1>6, TradeAssumption DEF SlotsWith, Traded, SlotItems
  <2>2. Cardinality(PlacesTaken(f, same)) + Arrived(h, TradedCount, same) =< MaxCount[Kind[i]]
    BY <1>1, <1>6, <2>1 DEF WithinMaxCount, GetItemCount, Arrived
  <2>3. /\ Cardinality(PlacesTaken(Without(f, o), same)) =< Cardinality(PlacesTaken(f, same))
        /\ Cardinality(PlacesTaken(Without(f, o), same)) \in Nat
        /\ Cardinality(PlacesTaken(f, same)) \in Nat
    BY <1>3, PlacesMonotone, PlacesFinite
  <2>4. Arrived(h, TradedCount, same) \in Nat /\ MaxCount[Kind[i]] \in Nat
    <3>1. IsFiniteSet(1 .. TradedCount)
      BY FS_Interval, TradeAssumption
    <3>2. Arrived(h, TradedCount, same) \in Nat
      BY <3>1, FS_Subset, FS_CardinalityType DEF Arrived, SlotsWith
    <3> QED
      BY <3>2, TradeAssumption
  <2>5. Count(v, r, same) = Cardinality(PlacesTaken(Without(f, o), same))
    BY <1>1 DEF Count
  <2> QED
    BY <2>2, <2>3, <2>4, <2>5
<1> QED
  BY <1>1, <1>5, <1>6 DEF CanReceive

-----------------------------------------------------------------------------
(* A trade that completes: who trades, and with which inventories.         *)
LEMMA CompleteFacts ==
  ASSUME ItemsInv, NEW p \in Players, AcceptComplete(p)
  PROVE  \E q \in Players :
            /\ q = trade[p].trader /\ trade[q].trader = p /\ p # q /\ InTrade(p)
            /\ HasRoom(p, q)
            /\ inv' = MoveSlots(Removed(p, q), p, q, Offered(p), Offered(q))[TradedCount]
            /\ away' = away
<1>1. InTrade(p) /\ HasRoom(p, trade[p].trader) /\ inv' = moveItems(p, trade[p].trader) /\ away' = away
  BY DEF AcceptComplete, Agreed
<1>2. PICK q \in Players : q = trade[p].trader /\ Paired(trade, p, q)
  BY <1>1, PartnerFacts DEF ItemsInv
<1>3. p # q /\ trade[q].trader = p
  BY <1>2 DEF Paired
<1>4. inv' = moveItems(p, q) /\ HasRoom(p, q)
  BY <1>1, <1>2
<1>5. moveItems(p, q) = MoveSlots(Removed(p, q), p, q, Offered(p), Offered(q))[TradedCount]
  BY <1>3, RemovedFacts
<1> QED
  BY <1>1, <1>2, <1>3, <1>4, <1>5

(* Whatever a trade does, the inventories fit and nothing but the items of *)
(* the slots has been touched.                                             *)
LEMMA CompleteSafe ==
  ASSUME ItemsInv, NEW p \in Players, AcceptComplete(p), NEW q \in Players, q = trade[p].trader
  PROVE  /\ Fits(inv')
         /\ \A r \in Players \ {p, q} : inv'[r] = inv[r]
         /\ \A i \in Items : (\A s \in Traded : Offered(p)[s] # i /\ Offered(q)[s] # i)
                => inv'[p][i] = inv[p][i] /\ inv'[q][i] = inv[q][i]
<1>1. /\ trade[q].trader = p /\ p # q
      /\ inv' = MoveSlots(Removed(p, q), p, q, Offered(p), Offered(q))[TradedCount]
  BY CompleteFacts
<1>2. PICK mine \in SlotItems, his \in SlotItems : mine = Offered(p) /\ his = Offered(q)
  BY OfferedFacts
<1>3. PICK v : v = Removed(p, q)
  OBVIOUS
<1>4. /\ Fits(v) /\ v[p] = Without(inv[p], mine) /\ v[q] = Without(inv[q], his)
      /\ \A r \in Players \ {p, q} : v[r] = inv[r]
  BY <1>1, <1>2, <1>3, RemovedFacts
<1>5. LoopSafe(MoveSlots(v, p, q, mine, his)[TradedCount], v, p, q, mine, his)
  BY <1>1, <1>4, MoveSlotsSafe
<1>6. LoopSafe(inv', v, p, q, mine, his)
  BY <1>1, <1>2, <1>3, <1>5
<1>7. ASSUME NEW i \in Items, \A s \in Traded : mine[s] # i /\ his[s] # i
      PROVE  inv'[p][i] = inv[p][i] /\ inv'[q][i] = inv[q][i]
  <2>1. inv'[p][i] = v[p][i] /\ inv'[q][i] = v[q][i]
    BY <1>6, <1>7 DEF LoopSafe
  <2>2. Without(inv[p], mine)[i] = inv[p][i] /\ Without(inv[q], his)[i] = inv[q][i]
    BY <1>7 DEF Without
  <2> QED
    BY <1>4, <2>1, <2>2
<1> QED
  BY <1>2, <1>4, <1>6, <1>7 DEF LoopSafe

(* One of item i, if it is in the slots o.                                 *)
One(o, i) == IF \E s \in Traded : o[s] = i THEN 1 ELSE 0

(* If neither gets too many of a kind, each has what he had, without what  *)
(* he gives, with what he gets.                                            *)
LEMMA CompleteExchanges ==
  ASSUME ItemsInv, NEW p \in Players, AcceptComplete(p), NEW q \in Players, q = trade[p].trader,
         WithinMaxCount(p), WithinMaxCount(q), NEW i \in Items
  PROVE  /\ inv[p][i] - One(Offered(p), i) \in Nat /\ inv[q][i] - One(Offered(q), i) \in Nat
         /\ inv'[p][i] = inv[p][i] - One(Offered(p), i) + One(Offered(q), i)
         /\ inv'[q][i] = inv[q][i] - One(Offered(q), i) + One(Offered(p), i)
<1>1. /\ trade[q].trader = p /\ p # q /\ HasRoom(p, q)
      /\ inv' = MoveSlots(Removed(p, q), p, q, Offered(p), Offered(q))[TradedCount]
  BY CompleteFacts
<1>2. PICK mine \in SlotItems, his \in SlotItems :
            mine = Offered(p) /\ his = Offered(q) /\ OnceEach(mine) /\ OnceEach(his)
  BY OfferedFacts
<1>3. PICK v : v = Removed(p, q)
  OBVIOUS
<1>4. Fits(v) /\ v[p] = Without(inv[p], Offered(p)) /\ v[q] = Without(inv[q], Offered(q))
  BY <1>1, <1>3, RemovedFacts
<1>5. CanStoreItems(q, Offered(q), Offered(p)) /\ CanStoreItems(p, Offered(p), Offered(q))
  BY <1>1 DEF HasRoom
<1>6. CanReceive(v, q, Offered(p)) /\ CanReceive(v, p, Offered(q))
  BY <1>1, <1>4, <1>5, RoomToReceive
<1>7. v \in [Players -> Inventory]
  BY <1>4 DEF Fits
<1>8. Exchanged(MoveSlots(v, p, q, mine, his)[TradedCount], v, p, q, mine, his, TradedCount)
  BY <1>1, <1>2, <1>6, <1>7, MoveSlotsExchange
<1>9. Exchanged(inv', v, p, q, mine, his, TradedCount)
  BY <1>1, <1>2, <1>3, <1>8
<1>10. inv'[q][i] = v[q][i] + One(mine, i) /\ inv'[p][i] = v[p][i] + One(his, i)
  BY <1>9 DEF Exchanged, HasReceived, One, Traded
<1>11. ASSUME NEW r \in Players, NEW o \in SlotItems, o = Offered(r)
       PROVE  Without(inv[r], o)[i] \in Nat /\ Without(inv[r], o)[i] = inv[r][i] - One(o, i)
  <2>1. PICK f \in Inventory : f = inv[r]
    BY DEF ItemsInv, Fits
  <2>2. \A s \in Traded : o[s] # NoItem => f[o[s]] > 0
    BY <1>11, <2>1, OfferedFacts
  <2>3. Without(f, o) \in Inventory /\ Without(f, o)[i] = f[i] - One(o, i)
    BY <2>2, WithoutFacts DEF One
  <2> QED
    BY <2>1, <2>3 DEF Inventory
<1> QED
  BY <1>2, <1>4, <1>10, <1>11

(* A trade that completes keeps the items between the two.                 *)
LEMMA CompletionKeepsItems ==
  ASSUME ItemsInv, NEW p \in Players, AcceptComplete(p)
  PROVE  ExchangedFairly(p)
<1>1. PICK q \in Players : q = trade[p].trader /\ InTrade(p) /\ trade[q].trader = p
  BY CompleteFacts
<1>2. /\ \A r \in Players \ {p, q} : inv'[r] = inv[r]
      /\ \A i \in Items : (\A s \in Traded : Offered(p)[s] # i /\ Offered(q)[s] # i)
                => inv'[p][i] = inv[p][i] /\ inv'[q][i] = inv[q][i]
  BY <1>1, CompleteSafe
<1>3. ASSUME WithinMaxCount(p), WithinMaxCount(q), NEW i \in Items
      PROVE  inv'[p][i] + inv'[q][i] = inv[p][i] + inv[q][i]
  <2>1. /\ inv'[p][i] = inv[p][i] - One(Offered(p), i) + One(Offered(q), i)
        /\ inv'[q][i] = inv[q][i] - One(Offered(q), i) + One(Offered(p), i)
    BY <1>1, <1>3, CompleteExchanges
  <2>2. inv[p][i] \in Nat /\ inv[q][i] \in Nat
    BY DEF ItemsInv, Fits, Inventory
  <2>3. One(Offered(p), i) \in Nat /\ One(Offered(q), i) \in Nat
    BY DEF One
  <2> QED
    BY <2>1, <2>2, <2>3
<1> QED
  BY <1>1, <1>2, <1>3 DEF ExchangedFairly

-----------------------------------------------------------------------------
(* The server starts with inventories that fit, and with no windows.       *)
LEMMA InitItemsInv == Init => ItemsInv
<1> SUFFICES ASSUME Init PROVE ItemsInv
  OBVIOUS
<1>1. TradeInv
  BY InitTradeInv
<1>2. AllInOneSlot
  <2>1. \A s \in Slots : NoTrade.items[s] = NoItem
    BY DEF NoTrade, NewTrade
  <2>2. \A p \in Players : trade[p] = NoTrade
    BY DEF Init
  <2> QED
    BY <2>1, <2>2 DEF AllInOneSlot, InOneSlot
<1>3. Fits(inv)
  BY TradeAssumption DEF Init, Fits
<1> QED
  BY <1>1, <1>2, <1>3 DEF ItemsInv, Init

(* An item that leaves frees its place.                                    *)
LEMMA LeavesFits ==
  ASSUME Fits(inv), away \subseteq Items, NEW p \in Players, NEW i \in Items, ItemLeaves(p, i)
  PROVE  Fits(inv') /\ away' \subseteq Items
<1>1. inv \in [Players -> Inventory] /\ \A r \in Players : Used(inv[r]) =< Capacity[r]
  BY DEF Fits
<1>2. inv[p][i] > 0 /\ inv' = [inv EXCEPT ![p][i] = @ - 1] /\ away' = away \cup {i}
  BY DEF ItemLeaves
<1>3. PICK f \in Inventory : f = inv[p]
  BY <1>1
<1>4. PICK g : g = [f EXCEPT ![i] = @ - 1]
  OBVIOUS
<1>5. g \in Inventory /\ \A j \in Items : g[j] =< f[j]
  BY <1>2, <1>3, <1>4 DEF Inventory
<1>6. Used(g) =< Used(f) /\ Used(g) \in Nat /\ Used(f) \in Nat
  BY <1>5, PlacesMonotone, PlacesFinite DEF Used
<1>7. Used(f) =< Capacity[p] /\ Capacity[p] \in Nat
  BY <1>1, <1>3, TradeAssumption
<1>8. Used(g) =< Capacity[p]
  BY <1>6, <1>7
<1>9. inv' = [inv EXCEPT ![p] = g]
  BY <1>2, <1>3, <1>4
<1>10. Fits(inv')
  BY <1>1, <1>5, <1>8, <1>9 DEF Fits
<1> QED
  BY <1>2, <1>10

(* An item comes only where CanStoreItem has found a place.                *)
LEMMA ComesFits ==
  ASSUME Fits(inv), away \subseteq Items, NEW p \in Players, NEW i \in Items, ItemComes(p, i)
  PROVE  Fits(inv') /\ away' \subseteq Items
<1>1. CanStoreItem(inv, p, i) /\ inv' = Store(inv, p, i) /\ away' = away \ {i}
  BY DEF ItemComes
<1>2. Used(inv[p]) < Capacity[p]
  BY <1>1, TradeAssumption DEF CanStoreItem
<1>3. Fits(Store(inv, p, i))
  BY <1>2, StoreFits
<1> QED
  BY <1>1, <1>3

(* Every handler keeps the invariant; only three actions touch items.      *)
LEMMA NextItemsInv == ItemsInv /\ [Next]_vars => ItemsInv'
<1> SUFFICES ASSUME ItemsInv, [Next]_vars PROVE ItemsInv'
  OBVIOUS
<1>1. TradeInv'
  BY NextTradeInv DEF ItemsInv
<1>2. AllInOneSlot'
  BY NextInOneSlot DEF ItemsInv
<1>3. Fits(inv') /\ away' \subseteq Items
  <2>0. Fits(inv) /\ away \subseteq Items
    BY DEF ItemsInv
  <2>1. CASE inv' = inv /\ away' = away
    BY <2>0, <2>1
  <2>2. CASE \E p \in Players : AcceptComplete(p)
    <3>1. PICK p \in Players : AcceptComplete(p)
      BY <2>2
    <3>2. PICK q \in Players : q = trade[p].trader /\ away' = away
      BY <3>1, CompleteFacts
    <3>3. Fits(inv')
      BY <3>1, <3>2, CompleteSafe
    <3> QED
      BY <2>0, <3>2, <3>3
  <2>3. CASE \E p \in Players, i \in Items : ItemLeaves(p, i) \/ ItemComes(p, i)
    BY <2>0, <2>3, LeavesFits, ComesFits
  <2> QED
    BY <2>1, <2>2, <2>3 DEF vars, Next, Step, InitiateTrade, AcceptNoSpell, SetTradeGold,
       SetTradeItem, ClearTradeItem, CastOnTradeItem, UnacceptTrade, CancelTrade,
       AcceptNoMoney, AcceptRefused, AcceptFirst, AcceptNoRoom, Spend
<1> QED
  BY <1>1, <1>2, <1>3 DEF ItemsInv, Fits

(* The invariant of items: no order of handlers puts an item into two      *)
(* slots of a window or more items into an inventory than it has places.   *)
THEOREM ItemsInvariant == Spec => []ItemsInv
  BY InitItemsInv, NextItemsInv, PTL DEF Spec

(* Windows, purses, inventories and what is elsewhere have their types;    *)
(* moveItems never overfills an inventory, on its return path too.         *)
THEOREM TradeTypes == Spec => []TypeOK
<1>1. ItemsInv => TypeOK
  BY DEF ItemsInv, TradeInv, WindowTypes, Trades, Fits, TypeOK
<1> QED
  BY <1>1, ItemsInvariant, PTL

(* A trade neither loses nor doubles an item, for any number of slots and  *)
(* any inventories, unless somebody was to receive too many of a kind; it  *)
(* never touches what is not in the slots.                                 *)
THEOREM TradesKeepItems == Spec => ItemsKept
<1>1. ASSUME ItemsInv, Next, trade' # trade, inv' # inv
      PROVE  \E p \in Players : ExchangedFairly(p)
  <2>1. PICK p \in Players : AcceptComplete(p)
    BY <1>1 DEF Next, Step, InitiateTrade, AcceptNoSpell, SetTradeGold, SetTradeItem,
       ClearTradeItem, CastOnTradeItem, UnacceptTrade, CancelTrade, AcceptNoMoney,
       AcceptRefused, AcceptFirst, AcceptNoRoom, Spend, ItemLeaves, ItemComes
  <2> QED
    BY <1>1, <2>1, CompletionKeepsItems
<1>2. ItemsInv /\ [Next]_vars =>
        [trade' # trade /\ inv' # inv => \E p \in Players : ExchangedFairly(p)]_vars
  BY <1>1
<1> QED
  BY <1>2, ItemsInvariant, PTL DEF Spec, ItemsKept

(* Everything that is offered when a trade completes is with the other     *)
(* player after it.                                                        *)
LEMMA CompletionDelivers ==
  ASSUME ItemsInv, NEW p \in Players, AcceptComplete(p),
         \A r \in {p, trade[p].trader} : WithinMaxCount(r),
         NEW r \in {p, trade[p].trader}, NEW s \in Traded, Offered(r)[s] # NoItem
  PROVE  inv'[trade[r].trader][Offered(r)[s]] > 0
<1>1. PICK q \in Players : q = trade[p].trader /\ trade[q].trader = p
  BY CompleteFacts
<1>2. r \in Players
  BY <1>1
<1>3. PICK i \in Items : i = Offered(r)[s]
  BY <1>2, OfferedFacts DEF SlotItems
<1>4. One(Offered(r), i) = 1
  BY <1>3 DEF One
<1>5. One(Offered(p), i) \in Nat /\ One(Offered(q), i) \in Nat
  BY DEF One
<1>6. /\ inv[p][i] - One(Offered(p), i) \in Nat /\ inv[q][i] - One(Offered(q), i) \in Nat
      /\ inv'[p][i] = inv[p][i] - One(Offered(p), i) + One(Offered(q), i)
      /\ inv'[q][i] = inv[q][i] - One(Offered(q), i) + One(Offered(p), i)
  BY <1>1, CompleteExchanges
<1>7. CASE r = p
  BY <1>1, <1>3, <1>4, <1>5, <1>6, <1>7
<1>8. CASE r = q
  BY <1>1, <1>3, <1>4, <1>5, <1>6, <1>8
<1> QED
  BY <1>1, <1>7, <1>8

(* CanStoreItems is asked before anything is moved, and what it promises   *)
(* holds for every slot of moveItems: a trade that completes delivers all, *)
(* unless somebody gets too many of a kind.                                *)
THEOREM TradesDeliver == Spec => Delivered
<1>1. ASSUME ItemsInv, NEW p \in Players, AcceptComplete(p),
             \A r \in {p, trade[p].trader} : WithinMaxCount(r)
      PROVE  \A r \in {p, trade[p].trader}, s \in Traded :
                Offered(r)[s] # NoItem => inv'[trade[r].trader][Offered(r)[s]] > 0
  BY <1>1, CompletionDelivers
<1> DEFINE Arrive == \A p \in Players :
        (/\ InTrade(p) /\ ~InTrade(p)' /\ AcceptComplete(p)
         /\ \A r \in {p, trade[p].trader} : WithinMaxCount(r))
        => \A r \in {p, trade[p].trader}, s \in Traded :
                Offered(r)[s] # NoItem => inv'[trade[r].trader][Offered(r)[s]] > 0
<1>2. ItemsInv => Arrive
  BY <1>1
<1>3. ItemsInv => [Arrive]_vars
  BY <1>2
<1> QED
  BY <1>3, ItemsInvariant, PTL DEF Delivered
=============================================================================
