--------------------------- MODULE InstanceIdsProofs ---------------------------
(***************************************************************************)
(* Proofs about the instance id allocator, for every word size and every   *)
(* bound.  The inductive invariant adds to the checked invariants where    *)
(* next stands: its bit is clear, and it is at most one past the vector.   *)
(***************************************************************************)
EXTENDS InstanceIds, Integers, TLAPS

(* Division by the word size, as MapManager uses it.                       *)
LEMMA DivMod ==
    ASSUME NEW w \in Nat, w > 0, NEW n \in Nat
    PROVE  /\ n \div w \in Nat /\ n % w \in 0 .. (w - 1)
           /\ n = (n \div w) * w + (n % w)
BY SMT

(* One word more.                                                          *)
LEMMA MulStep ==
    ASSUME NEW w \in Nat, NEW a \in Nat, NEW b \in Nat, a < b
    PROVE  a * w + w <= b * w
BY SMT

(* A product with the word size is a whole number of words.                *)
LEMMA MulMod ==
    ASSUME NEW w \in Nat, w > 0, NEW q \in Nat
    PROVE  (q * w) % w = 0
<1> DEFINE n == q * w
<1>1. n \in Nat
  BY SMT
<1>2. n \div w \in Nat /\ n % w \in 0 .. (w - 1) /\ n = (n \div w) * w + (n % w)
  BY <1>1, DivMod
<1>3. CASE n \div w < q
  <2>1. (n \div w) * w + w <= q * w
    BY <1>3, <1>2, MulStep
  <2> QED
    BY <1>1, <1>2, <2>1, SMT
<1>4. CASE q < n \div w
  <2>1. q * w + w <= (n \div w) * w
    BY <1>4, <1>2, MulStep
  <2> QED
    BY <1>1, <1>2, <2>1, SMT
<1>5. CASE q = n \div w
  BY <1>1, <1>2, <1>5, SMT
<1> QED
  BY <1>2, <1>3, <1>4, <1>5, SMT

(* Two different whole numbers of words are at least a word apart.         *)
LEMMA WordGap ==
    ASSUME NEW w \in Nat, w > 0, NEW a \in Nat, NEW b \in Nat,
           a % w = 0, b % w = 0, a < b
    PROVE  a + w <= b
<1>1. /\ a \div w \in Nat /\ b \div w \in Nat
      /\ a = (a \div w) * w /\ b = (b \div w) * w
  BY DivMod, SMT
<1>2. a \div w < b \div w
  <2>1. CASE a \div w = b \div w
    BY <1>1, <2>1
  <2>2. CASE b \div w < a \div w
    <3>1. (b \div w) * w + w <= (a \div w) * w
      BY <1>1, <2>2, MulStep
    <3> QED
      BY <1>1, <3>1, SMT
  <2> QED
    BY <1>1, <2>1, <2>2, SMT
<1>3. (a \div w) * w + w <= (b \div w) * w
  BY <1>1, <1>2, MulStep
<1> QED
  BY <1>1, <1>3, SMT

(* RoundUp gives a whole number of words that is not below its argument,   *)
(* and is the argument itself only when that is a whole number of words.   *)
LEMMA RoundUpFacts ==
    ASSUME NEW n \in Nat
    PROVE  /\ RoundUp(n) \in Nat /\ RoundUp(n) % Word = 0 /\ n <= RoundUp(n)
           /\ n % Word # 0 => n < RoundUp(n)
           /\ n % Word = 0 => RoundUp(n) = n
<1> DEFINE q == n \div Word
<1>1. /\ Word \in Nat /\ Word > 0
      /\ q \in Nat /\ n % Word \in 0 .. (Word - 1) /\ n = q * Word + (n % Word)
  BY IdsAssumption, DivMod
<1>2. q * Word \in Nat /\ q + 1 \in Nat
  BY <1>1, SMT
<1> HIDE DEF q
<1>3. CASE n % Word > 0
  <2>1. RoundUp(n) = q * Word + Word
    BY <1>3 DEF RoundUp, q
  <2>2. q * Word + Word = (q + 1) * Word
    BY <1>1, SMT
  <2>3. ((q + 1) * Word) % Word = 0
    BY <1>1, <1>2, MulMod
  <2> QED
    BY <1>1, <1>2, <1>3, <2>1, <2>2, <2>3, SMT
<1>4. CASE n % Word = 0
  <2>1. RoundUp(n) = q * Word
    BY <1>4, <1>2 DEF RoundUp, q
  <2>2. (q * Word) % Word = 0
    BY <1>1, MulMod
  <2> QED
    BY <1>1, <1>2, <1>4, <2>1, <2>2, SMT
<1> QED
  BY <1>1, <1>3, <1>4, SMT

-----------------------------------------------------------------------------
(* next can be used: its bit is clear, and the vector reaches up to it or  *)
(* ends just below.                                                        *)
NextClear == next \notin bits /\ next <= size + 1

(* An id in use has its bit set unless it is a whole number of words.      *)
GivenHasBit == \A i \in given : i \in bits \/ i % Word = 0

IdInv ==
    /\ TypeOK /\ LowestAvailable /\ FreedIdsAreClear
    /\ NextClear /\ GivenHasBit

(* Starting from stored rows, at the first start or at any other.          *)
LEMMA LoadEstablishes ==
    ASSUME NEW rows \in SUBSET Ids, NEW n, NEW s, NEW c, NEW b,
           LoadIds(rows, n, s, c, b)
    PROVE  /\ n \in Nat \ {0} /\ s \in Nat /\ c \in Nat
           /\ s % Word = 0 /\ c % Word = 0 /\ s <= c
           /\ b \subseteq rows /\ (\A i \in b : i < s)
           /\ (\A i \in Ids : i < n => i \in rows)
           /\ n \notin b /\ n <= s + 1
           /\ (\A i \in rows : i \in b \/ i % Word = 0)
<1>1. PICK m \in rows \cup {0} : (\A i \in rows : i <= m) /\ s = RoundUp(m)
  BY DEF LoadIds
<1>2. m \in Nat /\ MaxId \in Nat
  BY <1>1, IdsAssumption DEF Ids
<1>3. /\ s \in Nat /\ s % Word = 0 /\ m <= s
      /\ m % Word # 0 => m < s
      /\ m % Word = 0 => s = m
  BY <1>1, <1>2, RoundUpFacts
<1>4. c \in Nat /\ c % Word = 0 /\ s <= c
  BY <1>3, IdsAssumption DEF LoadIds, Capacities
<1>5. /\ n \in Nat \ {0} /\ n \notin rows
      /\ \A i \in Ids : i < n => i \in rows
  BY <1>2 DEF LoadIds, Ids
<1>6. b \subseteq rows /\ (\A i \in b : i < s) /\ n \notin b
  BY <1>5 DEF LoadIds
<1>7. n <= s + 1
  <2>1. SUFFICES ASSUME s + 1 < n PROVE FALSE
    BY <1>3, <1>5
  <2>2. m + 1 \in 1 .. (MaxId + 1) /\ m + 1 < n
    BY <1>2, <1>3, <2>1 DEF LoadIds
  <2>3. m + 1 \in rows
    BY <2>2 DEF LoadIds
  <2> QED
    BY <1>1, <1>2, <2>3
<1>8. ASSUME NEW i \in rows PROVE i \in b \/ i % Word = 0
  <2>1. i \in Nat /\ i <= m
    BY <1>1 DEF Ids
  <2>2. CASE i < s
    BY <2>2 DEF LoadIds
  <2>3. CASE ~(i < s)
    BY <1>2, <1>3, <2>1, <2>3
  <2> QED
    BY <2>2, <2>3
<1> QED
  BY <1>3, <1>4, <1>5, <1>6, <1>7, <1>8

(* MapManager::GenerateInstanceId keeps the invariant.                     *)
LEMMA GenerateKeeps ==
    ASSUME IdInv, GenerateInstanceId(next)
    PROVE  IdInv'
<1>1. /\ next \in Nat \ {0} /\ next \in Ids /\ size \in Nat /\ cap \in Nat
      /\ Word \in Nat /\ Word > 1 /\ Word > 0 /\ MaxId \in Nat /\ MaxCap \in Nat
      /\ size % Word = 0 /\ cap % Word = 0 /\ size <= cap
      /\ next <= size + 1 /\ next \notin bits
  BY IdsAssumption DEF GenerateInstanceId, IdInv, TypeOK, NextClear, Ids
<1>2. /\ RoundUp(next) \in Nat /\ RoundUp(next) % Word = 0
      /\ next <= RoundUp(next)
      /\ next % Word # 0 => next < RoundUp(next)
      /\ next % Word = 0 => RoundUp(next) = next
  BY <1>1, RoundUpFacts
<1>s. size' = IF next < size THEN size ELSE IF size < cap THEN cap ELSE RoundUp(next)
  BY DEF GenerateInstanceId
<1>c. cap' \in IF size' <= cap THEN {cap} ELSE Capacities(size')
  BY DEF GenerateInstanceId
<1>3. /\ size' \in Nat /\ size' % Word = 0 /\ size <= size'
      /\ next <= size'
      /\ next < size' \/ next % Word = 0
  <2>1. CASE next < size
    BY <1>1, <1>s, <2>1
  <2>2. CASE ~(next < size) /\ size < cap
    <3>1. size + Word <= cap
      BY <1>1, <2>2, WordGap
    <3> QED
      BY <1>1, <1>s, <2>2, <3>1
  <2>3. CASE ~(next < size) /\ ~(size < cap)
    BY <1>1, <1>2, <1>s, <2>3
  <2> QED
    BY <2>1, <2>2, <2>3
<1>4. cap' \in Nat /\ cap' % Word = 0 /\ size' <= cap'
  <2>1. CASE size' <= cap
    BY <1>1, <1>3, <1>c, <2>1
  <2>2. CASE ~(size' <= cap)
    <3>1. cap' \in Capacities(size')
      BY <1>c, <2>2
    <3>2. cap' \in size' .. (size' + MaxCap) /\ cap' % Word = 0
      BY <3>1, Zenon DEF Capacities
    <3>3. cap' \in Nat /\ size' <= cap'
      BY <1>1, <1>3, <3>2
    <3> QED
      BY <3>2, <3>3
  <2> QED
    BY <2>1, <2>2
<1>5. bits' = bits \cup {i \in {next} : i < size'} /\ given' = given \cup {next}
  BY DEF GenerateInstanceId
<1>b. \A j : j \in bits' <=> j \in bits \/ (j = next /\ next < size')
  BY <1>5, Zenon
<1>6. PICK n \in Nat :
        /\ next < n /\ (n <= size \/ n = next + 1)
        /\ Available(n) /\ \A i \in (next + 1) .. (n - 1) : ~Available(i)
        /\ next' = n
  BY <1>1 DEF GenerateInstanceId
<1>7. /\ next' \in Nat \ {0} /\ next < next' /\ next' \notin bits'
      /\ next' <= size' + 1
      /\ \A i \in Nat : next < i /\ i < next' => i \in bits
  <2>2. n \notin bits
    BY <1>6, <1>1 DEF Available, IdInv, TypeOK
  <2>3. \A i \in Nat : next < i /\ i < n => i \in bits
    BY <1>1, <1>6 DEF Available
  <2> QED
    <3>1. /\ size' \in Nat /\ size <= size' /\ size \in Nat
          /\ next \in Nat /\ next <= size'
      BY <1>1, <1>3
    <3>2. next' = n
      BY <1>6
    <3>3. next' \notin bits'
      BY <1>b, <1>6, <2>2, <3>1, <3>2
    <3>4. next' \in Nat \ {0} /\ next < next' /\ next' <= size' + 1
      <4>0. n \in Nat /\ next < n /\ (n <= size \/ n = next + 1)
        BY <1>6
      <4>1. next' \in Nat \ {0}
        BY <4>0, <3>1, <3>2
      <4>2. next < next'
        BY <4>0, <3>2
      <4>3. next' <= size' + 1
        <5>1. \A z, y, a, b \in Nat :
                y <= z /\ a <= z /\ (b <= y \/ b = a + 1) => b <= z + 1
          BY SMT
        <5> QED
          BY <4>0, <3>1, <3>2, <5>1, Zenon
      <4> QED
        BY <4>1, <4>2, <4>3
    <3>5. \A i \in Nat : next < i /\ i < next' => i \in bits
      BY <2>3, <3>2, Zenon
    <3> QED
      BY <3>3, <3>4, <3>5, Zenon
<1>8. TypeOK'
  <2>1. bits \subseteq Ids /\ given \subseteq Ids /\ \A i \in bits : i \in Nat /\ i < size
    BY <1>1 DEF IdInv, TypeOK, Ids
  <2>2. bits' \subseteq Ids /\ given' \subseteq Ids /\ \A i \in bits' : i < size'
    <3>1. bits' \subseteq Ids /\ given' \subseteq Ids
      BY <1>1, <1>5, <1>b, <2>1, Zenon
    <3>2. size' \in Nat /\ size <= size' /\ size \in Nat
      BY <1>1, <1>3
    <3>3. \A i \in bits' : i < size'
      BY <1>b, <2>1, <3>2
    <3> QED
      BY <3>1, <3>3
  <2> QED
    BY <1>3, <1>4, <1>7, <2>2 DEF TypeOK
<1>9. LowestAvailable' /\ FreedIdsAreClear'
  BY <1>1, <1>5, <1>b, <1>7 DEF IdInv, LowestAvailable, FreedIdsAreClear, Ids
<1>10. NextClear' /\ GivenHasBit'
  BY <1>3, <1>5, <1>b, <1>7 DEF IdInv, NextClear, GivenHasBit
<1> QED
  BY <1>8, <1>9, <1>10 DEF IdInv

(* MapManager::FreeInstanceId keeps the invariant.                         *)
LEMMA FreeKeeps ==
    ASSUME IdInv, NEW id \in given, FreeInstanceId(id)
    PROVE  IdInv'
<1> USE DEF FreeInstanceId
<1>1. id \in Ids /\ id \in Nat \ {0} /\ next \in Nat \ {0}
  BY IdsAssumption DEF IdInv, TypeOK, Ids
<1>2. TypeOK'
  BY <1>1 DEF IdInv, TypeOK
<1>3. LowestAvailable' /\ FreedIdsAreClear'
  BY <1>1 DEF IdInv, TypeOK, LowestAvailable, FreedIdsAreClear, Ids
<1>4. NextClear' /\ GivenHasBit'
  BY <1>1 DEF IdInv, TypeOK, NextClear, GivenHasBit
<1> QED
  BY <1>2, <1>3, <1>4 DEF IdInv

(* The allocator keeps its invariant: MapManager::InitInstanceIds,         *)
(* RegisterInstanceId, GenerateInstanceId and FreeInstanceId, whatever the *)
(* capacity the library chooses.                                           *)
THEOREM IdInvariant == Spec => []IdInv
<1>1. Init => IdInv
  <2>1. SUFFICES ASSUME NEW rows \in SUBSET Ids, given = rows,
                        LoadIds(rows, next, size, cap, bits)
                 PROVE  IdInv
    BY DEF Init
  <2>2. /\ next \in Nat \ {0} /\ size \in Nat /\ cap \in Nat
        /\ size % Word = 0 /\ cap % Word = 0 /\ size <= cap
        /\ bits \subseteq rows /\ (\A i \in bits : i < size)
        /\ (\A i \in Ids : i < next => i \in rows)
        /\ next \notin bits /\ next <= size + 1
        /\ (\A i \in rows : i \in bits \/ i % Word = 0)
    BY <2>1, LoadEstablishes
  <2> QED
    BY <2>1, <2>2
    DEF IdInv, TypeOK, LowestAvailable, FreedIdsAreClear, NextClear, GivenHasBit
<1>2. IdInv /\ [Next]_idVars => IdInv'
  <2>1. SUFFICES ASSUME IdInv, [Next]_idVars PROVE IdInv'
    OBVIOUS
  <2>2. CASE GenerateInstanceId(next)
    BY <2>1, <2>2, GenerateKeeps
  <2>3. ASSUME NEW id \in given, FreeInstanceId(id) PROVE IdInv'
    BY <2>1, <2>3, FreeKeeps
  <2>4. ASSUME NEW rows \in SUBSET given, Restart(rows) PROVE IdInv'
    <3>1. /\ rows \subseteq Ids /\ given' = rows
          /\ LoadIds(rows, next', size', cap', bits')
      BY <2>1, <2>4 DEF Restart, IdInv, TypeOK
    <3>2. /\ next' \in Nat \ {0} /\ size' \in Nat /\ cap' \in Nat
          /\ size' % Word = 0 /\ cap' % Word = 0 /\ size' <= cap'
          /\ bits' \subseteq rows /\ (\A i \in bits' : i < size')
          /\ (\A i \in Ids : i < next' => i \in rows)
          /\ next' \notin bits' /\ next' <= size' + 1
          /\ (\A i \in rows : i \in bits' \/ i % Word = 0)
      BY <3>1, LoadEstablishes
    <3> QED
      BY <3>1, <3>2
      DEF IdInv, TypeOK, LowestAvailable, FreedIdsAreClear, NextClear, GivenHasBit
  <2>5. CASE UNCHANGED idVars
    BY <2>1, <2>5 DEF idVars, IdInv, TypeOK, LowestAvailable,
                      FreedIdsAreClear, NextClear, GivenHasBit
  <2> QED
    BY <2>1, <2>2, <2>3, <2>4, <2>5 DEF Next
<1> QED
  BY <1>1, <1>2, PTL DEF Spec

(* No id below _nextInstanceId is free.                                    *)
THEOREM NextIsLowest == Spec => []LowestAvailable
<1>1. IdInv => LowestAvailable
  BY DEF IdInv
<1> QED
  BY <1>1, IdInvariant, PTL

(* GenerateInstanceId returns an id that is in use only at word multiples. *)
THEOREM RepeatsOnlyAtWords == Spec => []OnlyWordMultiplesRepeat
<1>1. IdInv => OnlyWordMultiplesRepeat
  BY DEF IdInv, NextClear, GivenHasBit, OnlyWordMultiplesRepeat
<1> QED
  BY <1>1, IdInvariant, PTL

(* The vector of bits stays a whole number of words inside its capacity,   *)
(* through every growth of GenerateInstanceId and every restart.           *)
THEOREM IdTypes == Spec => []TypeOK
<1>1. IdInv => TypeOK
  BY DEF IdInv
<1> QED
  BY <1>1, IdInvariant, PTL

(* FreeInstanceId never leaves the bit of a free id set.                   *)
THEOREM FreedIsClear == Spec => []FreedIdsAreClear
<1>1. IdInv => FreedIdsAreClear
  BY DEF IdInv
<1> QED
  BY <1>1, IdInvariant, PTL
=============================================================================
