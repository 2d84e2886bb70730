-------------------------- MODULE SessionQueueProofs --------------------------
(***************************************************************************)
(* Theorems about SessionQueue for any accounts, any limits and any        *)
(* length of addSessQueue.                                                 *)
(***************************************************************************)
EXTENDS SessionQueue, FiniteSetTheorems, SequenceTheorems, TLAPS

(* b stands before c in the queue q.                                       *)
Ahead(q, b, c) == \E i, j \in DOMAIN q : i < j /\ q[i] = b /\ q[j] = c

-----------------------------------------------------------------------------
(* Queues without repetition.                                              *)

(* In such a queue RemoveFirst removes the one place of a.                 *)
LEMMA RemoveFirstIndex ==
  ASSUME NEW q \in Seq(Accounts), IsInjective(q), NEW k \in 1 .. Len(q)
  PROVE  RemoveFirst(q, q[k]) = RemoveAt(q, k)
<1>1. {i \in 1 .. Len(q) : q[i] = q[k]} = {k}
  BY DEF IsInjective
<1>2. Min({k}) = k
  BY DEF Min
<1>3. SelectInSeq(q, LAMBDA v : v = q[k]) = k
  BY <1>1, <1>2 DEF SelectInSeq
<1> QED
  BY <1>3 DEF RemoveFirst

(* RemoveAt closes the gap.                                                *)
LEMMA RemoveAtFacts ==
  ASSUME NEW q \in Seq(Accounts), NEW k \in 1 .. Len(q)
  PROVE  /\ RemoveAt(q, k) \in Seq(Accounts) /\ Len(RemoveAt(q, k)) = Len(q) - 1
         /\ \A i \in 1 .. Len(q) - 1 :
                RemoveAt(q, k)[i] = IF i < k THEN q[i] ELSE q[i + 1]
<1> DEFINE u == SubSeq(q, 1, k - 1)
           v == SubSeq(q, k + 1, Len(q))
<1>1. /\ u \in Seq(Accounts) /\ Len(u) = k - 1
      /\ \A i \in 1 .. k - 1 : u[i] = q[i]
  BY SubSeqProperties
<1>2. /\ v \in Seq(Accounts) /\ Len(v) = Len(q) - k
      /\ \A i \in 1 .. Len(q) - k : v[i] = q[k + i]
  BY SubSeqProperties
<1>3. RemoveAt(q, k) = u \o v
  BY DEF RemoveAt
<1> HIDE DEF u, v
<1>4. /\ u \o v \in Seq(Accounts) /\ Len(u \o v) = Len(u) + Len(v)
      /\ \A i \in 1 .. Len(u) + Len(v) :
            (u \o v)[i] = IF i <= Len(u) THEN u[i] ELSE v[i - Len(u)]
  BY <1>1, <1>2, ConcatProperties
<1>5. ASSUME NEW i \in 1 .. Len(q) - 1
      PROVE  (u \o v)[i] = IF i < k THEN q[i] ELSE q[i + 1]
  <2>1. CASE i < k
    BY <1>1, <1>2, <1>4, <2>1
  <2>2. CASE ~(i < k)
    <3>1. i - Len(u) \in 1 .. Len(q) - k /\ i \in 1 .. Len(u) + Len(v) /\ ~(i <= Len(u))
      BY <1>1, <1>2, <2>2
    <3>2. k + (i - Len(u)) = i + 1
      BY <1>1
    <3>3. (u \o v)[i] = v[i - Len(u)]
      BY <1>4, <3>1
    <3>4. v[i - Len(u)] = q[k + (i - Len(u))]
      BY <1>2, <3>1
    <3> QED
      BY <2>2, <3>2, <3>3, <3>4
  <2> QED
    BY <2>1, <2>2
<1> QED
  BY <1>1, <1>2, <1>3, <1>4, <1>5

(* The queue without a: the others keep their order.                       *)
LEMMA RemoveFirstFacts ==
  ASSUME NEW q \in Seq(Accounts), IsInjective(q), NEW a \in Accounts
  PROVE  /\ RemoveFirst(q, a) \in Seq(Accounts) /\ IsInjective(RemoveFirst(q, a))
         /\ ToSet(RemoveFirst(q, a)) = ToSet(q) \ {a}
         /\ Len(RemoveFirst(q, a)) = IF a \in ToSet(q) THEN Len(q) - 1 ELSE Len(q)
         /\ Contains(q, a) <=> a \in ToSet(q)
         /\ \A b, c : Ahead(RemoveFirst(q, a), b, c) => Ahead(q, b, c)
<1>1. Contains(q, a) <=> a \in ToSet(q)
  BY DEF Contains, ToSet
<1>2. CASE a \notin ToSet(q)
  <2>1. RemoveFirst(q, a) = q
    BY <1>1, <1>2 DEF RemoveFirst, Contains
  <2> QED
    BY <1>1, <1>2, <2>1
<1>3. CASE a \in ToSet(q)
  <2>1. PICK k \in 1 .. Len(q) : q[k] = a
    BY <1>1, <1>3 DEF Contains
  <2> DEFINE r == RemoveFirst(q, a)
             from(i) == IF i < k THEN i ELSE i + 1
  <2>2. /\ r \in Seq(Accounts) /\ Len(r) = Len(q) - 1
        /\ \A i \in 1 .. Len(q) - 1 : r[i] = q[from(i)]
    BY <2>1, RemoveFirstIndex, RemoveAtFacts
  <2>3. /\ \A i \in 1 .. Len(q) - 1 : from(i) \in (1 .. Len(q)) \ {k}
        /\ \A i, j \in 1 .. Len(q) - 1 : i < j => from(i) < from(j)
        /\ \A j \in (1 .. Len(q)) \ {k} : \E i \in 1 .. Len(q) - 1 : from(i) = j
    <3>1. \A i \in 1 .. Len(q) - 1 : from(i) \in (1 .. Len(q)) \ {k}
      OBVIOUS
    <3>2. \A i, j \in 1 .. Len(q) - 1 : i < j => from(i) < from(j)
      OBVIOUS
    <3>3. ASSUME NEW j \in (1 .. Len(q)) \ {k}
          PROVE  \E i \in 1 .. Len(q) - 1 : from(i) = j
      <4>1. CASE j < k
        BY <4>1
      <4>2. CASE j > k
        <5>1. j - 1 \in 1 .. Len(q) - 1 /\ from(j - 1) = j
          BY <4>2
        <5> QED
          BY <5>1
      <4> QED
        BY <4>1, <4>2
    <3> QED
      BY <3>1, <3>2, <3>3
  <2> HIDE DEF r, from
  <2>4. DOMAIN r = 1 .. Len(q) - 1 /\ DOMAIN q = 1 .. Len(q)
    BY <2>2
  <2>5. IsInjective(r)
    <3>1. ASSUME NEW i \in 1 .. Len(q) - 1, NEW j \in 1 .. Len(q) - 1, r[i] = r[j]
          PROVE  i = j
      <4>1. from(i) = from(j)
        BY <2>2, <2>3, <2>4, <3>1 DEF IsInjective
      <4>2. from(i) \in Int
        BY <2>3
      <4> QED
        BY <2>3, <4>1, <4>2
    <3> QED
      BY <2>4, <3>1 DEF IsInjective
  <2>6. ToSet(r) = ToSet(q) \ {a}
    <3>1. ASSUME NEW i \in 1 .. Len(q) - 1 PROVE r[i] \in ToSet(q) \ {a}
      <4>1. PICK j \in (1 .. Len(q)) \ {k} : r[i] = q[j]
        BY <2>2, <2>3, <2>4
      <4>2. q[j] # q[k]
        BY <2>1, <2>4, <4>1 DEF IsInjective
      <4> QED
        BY <2>1, <2>4, <4>1, <4>2 DEF ToSet
    <3>2. \A j \in 1 .. Len(q) : q[j] # a => q[j] \in ToSet(r)
      BY <2>1, <2>2, <2>3, <2>4 DEF ToSet
    <3> QED
      BY <2>4, <3>1, <3>2 DEF ToSet
  <2>7. ASSUME NEW b, NEW c, Ahead(r, b, c)
        PROVE  Ahead(q, b, c)
    <3>1. PICK i \in 1 .. Len(q) - 1, j \in 1 .. Len(q) - 1 : i < j /\ r[i] = b /\ r[j] = c
      BY <2>4, <2>7 DEF Ahead
    <3>2. from(i) \in 1 .. Len(q) /\ from(j) \in 1 .. Len(q) /\ from(i) < from(j)
      BY <2>3, <3>1
    <3>3. q[from(i)] = b /\ q[from(j)] = c
      BY <2>2, <3>1
    <3> QED
      BY <2>4, <3>2, <3>3 DEF Ahead
  <2> QED
    BY <1>1, <1>3, <2>2, <2>5, <2>6, <2>7 DEF r
<1> QED
  BY <1>2, <1>3

(* The queue without its first: the first stood before all others.         *)
LEMMA TailFacts ==
  ASSUME NEW q \in Seq(Accounts), IsInjective(q), q # <<>>
  PROVE  /\ Tail(q) \in Seq(Accounts) /\ IsInjective(Tail(q))
         /\ Head(q) \in ToSet(q) /\ ToSet(Tail(q)) = ToSet(q) \ {Head(q)}
         /\ Len(Tail(q)) = Len(q) - 1
         /\ \A c \in ToSet(Tail(q)) : Ahead(q, Head(q), c)
         /\ \A b, c : Ahead(Tail(q), b, c) => Ahead(q, b, c)
<1> DEFINE r == Tail(q)
<1>1. /\ r \in Seq(Accounts) /\ Len(r) = Len(q) - 1
      /\ \A i \in 1 .. Len(q) - 1 : r[i] = q[i + 1]
  BY HeadTailProperties
<1>2. Head(q) = q[1] /\ 1 \in 1 .. Len(q) /\ Len(q) \in Nat
  OBVIOUS
<1> HIDE DEF r
<1>3. DOMAIN r = 1 .. Len(q) - 1 /\ DOMAIN q = 1 .. Len(q)
  BY <1>1
<1>4. IsInjective(r)
  <2> SUFFICES ASSUME NEW i \in 1 .. Len(q) - 1, NEW j \in 1 .. Len(q) - 1, r[i] = r[j]
               PROVE  i = j
    BY <1>3 DEF IsInjective
  <2>1. i + 1 \in 1 .. Len(q) /\ j + 1 \in 1 .. Len(q) /\ q[i + 1] = q[j + 1]
    BY <1>1, <1>2
  <2>2. i + 1 = j + 1
    BY <1>3, <2>1 DEF IsInjective
  <2> QED
    BY <2>2
<1>5. ToSet(r) = ToSet(q) \ {q[1]}
  <2>1. ASSUME NEW i \in 1 .. Len(q) - 1 PROVE r[i] \in ToSet(q) \ {q[1]}
    <3>1. i + 1 \in 1 .. Len(q) /\ r[i] = q[i + 1] /\ i + 1 # 1
      BY <1>1, <1>2
    <3>2. q[i + 1] # q[1]
      BY <1>2, <1>3, <3>1 DEF IsInjective
    <3> QED
      BY <1>3, <3>1, <3>2 DEF ToSet
  <2>2. ASSUME NEW j \in 1 .. Len(q), q[j] # q[1]
        PROVE  q[j] \in ToSet(r)
    <3>1. j - 1 \in 1 .. Len(q) - 1 /\ r[j - 1] = q[j]
      BY <1>1, <2>2
    <3> QED
      BY <1>3, <3>1 DEF ToSet
  <2> QED
    BY <1>3, <2>1, <2>2 DEF ToSet
<1>6. \A c \in ToSet(r) : Ahead(q, q[1], c)
  <2>1. \A i \in 1 .. Len(q) - 1 : i + 1 \in 1 .. Len(q) /\ 1 < i + 1
    BY <1>2
  <2> QED
    <3> SUFFICES ASSUME NEW i \in 1 .. Len(q) - 1 PROVE Ahead(q, q[1], r[i])
      BY <1>3 DEF ToSet
    <3>1. 1 \in DOMAIN q /\ i + 1 \in DOMAIN q /\ 1 < i + 1 /\ r[i] = q[i + 1]
      BY <1>1, <1>2, <1>3, <2>1
    <3> QED
      BY <3>1 DEF Ahead
<1>7. ASSUME NEW b, NEW c, Ahead(r, b, c)
      PROVE  Ahead(q, b, c)
  <2>1. PICK i \in 1 .. Len(q) - 1, j \in 1 .. Len(q) - 1 : i < j /\ r[i] = b /\ r[j] = c
    BY <1>3, <1>7 DEF Ahead
  <2>2. i + 1 \in 1 .. Len(q) /\ j + 1 \in 1 .. Len(q) /\ i + 1 < j + 1
    BY <2>1
  <2>3. q[i + 1] = b /\ q[j + 1] = c
    BY <1>1, <2>1
  <2> QED
    BY <1>3, <2>2, <2>3 DEF Ahead
<1>8. q[1] \in ToSet(q)
  BY <1>2, <1>3 DEF ToSet
<1> QED
  BY <1>1, <1>2, <1>4, <1>5, <1>6, <1>7, <1>8 DEF r

(* Somebody new goes to the end.                                           *)
LEMMA AppendFacts ==
  ASSUME NEW q \in Seq(Accounts), IsInjective(q), NEW a \in Accounts, a \notin ToSet(q)
  PROVE  /\ Append(q, a) \in Seq(Accounts) /\ IsInjective(Append(q, a))
         /\ ToSet(Append(q, a)) = ToSet(q) \cup {a}
         /\ Len(Append(q, a)) = Len(q) + 1
<1> DEFINE r == Append(q, a)
<1>1. /\ r \in Seq(Accounts) /\ Len(r) = Len(q) + 1
      /\ \A i \in 1 .. Len(q) : r[i] = q[i]
      /\ r[Len(q) + 1] = a
  OBVIOUS
<1> HIDE DEF r
<1>2. DOMAIN r = 1 .. Len(q) + 1 /\ DOMAIN q = 1 .. Len(q) /\ Len(q) \in Nat
  BY <1>1
<1>3. \A i \in 1 .. Len(q) : q[i] # a
  BY <1>2 DEF ToSet
<1>4. IsInjective(r)
  BY <1>1, <1>2, <1>3 DEF IsInjective
<1>5. ToSet(r) = ToSet(q) \cup {a}
  <2>1. \A i \in 1 .. Len(q) + 1 : i \in 1 .. Len(q) \/ i = Len(q) + 1
    BY <1>2
  <2>2. \A i \in 1 .. Len(q) : i \in 1 .. Len(q) + 1
    BY <1>2
  <2>3. Len(q) + 1 \in 1 .. Len(q) + 1
    BY <1>2
  <2> QED
    BY <1>1, <1>2, <2>1, <2>2, <2>3 DEF ToSet
<1> QED
  BY <1>1, <1>4, <1>5 DEF r

-----------------------------------------------------------------------------
(* Counting.                                                               *)
Sessions == [Accounts -> Session \cup {NoSession}]

(* A queue and sessions that fit together.                                 *)
WorldOK(w) ==
    /\ w.queue \in Seq(Accounts) /\ IsInjective(w.queue)
    /\ w.sess \in Sessions /\ ToSet(w.queue) \subseteq Online(w.sess)

Ins(w) == Online(w.sess) \ ToSet(w.queue)

(* "No session" is not a session.                                          *)
LEMMA NoSessionIsNone == NoSession \notin Session
  BY DEF NoSession, Session

(* Counts of sessions are numbers.                                         *)
LEMMA FiniteAccounts ==
  ASSUME NEW S \in SUBSET Accounts
  PROVE  IsFiniteSet(S) /\ Cardinality(S) \in Nat
  BY QueueAssumption, FS_Subset, FS_CardinalityType

(* The length of a queue is the number of those in it.                     *)
LEMMA QueueLength ==
  ASSUME NEW q \in Seq(Accounts), IsInjective(q)
  PROVE  Cardinality(ToSet(q)) = Len(q) /\ (q = <<>> <=> ToSet(q) = {})
<1>1. q \in [1 .. Len(q) -> ToSet(q)]
  BY DEF ToSet
<1>2. q \in Bijection(1 .. Len(q), ToSet(q))
  BY <1>1 DEF Bijection, Injection, Surjection, ToSet, IsInjective
<1>3. ExistsBijection(1 .. Len(q), ToSet(q))
  BY <1>2 DEF ExistsBijection
<1>4. IsFiniteSet(1 .. Len(q)) /\ Cardinality(1 .. Len(q)) = Len(q)
  <2>1. Len(q) \in Nat /\ Len(q) \in Int /\ 1 \in Int
    OBVIOUS
  <2>2. /\ IsFiniteSet(1 .. Len(q))
        /\ Cardinality(1 .. Len(q)) = IF 1 > Len(q) THEN 0 ELSE Len(q) - 1 + 1
    BY <2>1, FS_Interval
  <2> QED
    BY <2>1, <2>2
<1>5. Cardinality(ToSet(q)) = Len(q)
  BY <1>3, <1>4, FS_Bijection
<1>6. q = <<>> <=> Len(q) = 0
  OBVIOUS
<1>7. ToSet(q) \subseteq Accounts
  BY DEF ToSet
<1> QED
  BY <1>5, <1>6, <1>7, FiniteAccounts, FS_EmptySet

(* World::GetActiveSessionCount counts the sessions that are not in the    *)
(* queue.                                                                  *)
LEMMA ActiveIsInside ==
  ASSUME NEW w, WorldOK(w)
  PROVE  GetActiveSessionCount(w) = Cardinality(Ins(w))
<1> DEFINE Q == ToSet(w.queue)
           O == Online(w.sess)
<1>1. O \in SUBSET Accounts /\ Q \in SUBSET O /\ Q \in SUBSET Accounts
  BY DEF WorldOK, Online
<1>2. Cardinality(Q) = Len(w.queue)
  BY QueueLength DEF WorldOK
<1> HIDE DEF Q, O
<1>3. O \ Q \in SUBSET Accounts /\ (O \ Q) \cup Q = O /\ (O \ Q) \cap Q = {}
  BY <1>1
<1>4. /\ IsFiniteSet(O \ Q) /\ Cardinality(O \ Q) \in Nat
      /\ IsFiniteSet(Q) /\ Cardinality(Q) \in Nat
  BY <1>1, <1>3, FiniteAccounts
<1>5. Cardinality((O \ Q) \cup Q) =
        Cardinality(O \ Q) + Cardinality(Q) - Cardinality((O \ Q) \cap Q)
  BY <1>4, FS_Union
<1>6. Cardinality((O \ Q) \cup Q) = Cardinality(O) /\ Cardinality((O \ Q) \cap Q) = 0
  BY <1>3, FS_EmptySet
<1> QED
  BY <1>2, <1>4, <1>5, <1>6 DEF GetActiveSessionCount, Ins, Q, O

(* RemoveQueuedPlayer counts the others inside, wherever a is.             *)
LEMMA LeftIsOthers ==
  ASSUME NEW w, WorldOK(w), NEW a \in Online(w.sess)
  PROVE  Left(a, w) = Cardinality(Ins(w) \ {a})
<1>1. Ins(w) \in SUBSET Accounts /\ a \in Accounts
  BY DEF Ins, Online
<1>2. IsFiniteSet(Ins(w)) /\ Cardinality(Ins(w)) \in Nat
  BY <1>1, FiniteAccounts
<1>3. Cardinality(Ins(w) \ {a}) =
        IF a \in Ins(w) THEN Cardinality(Ins(w)) - 1 ELSE Cardinality(Ins(w))
  BY <1>2, FS_RemoveElement
<1>4. Contains(w.queue, a) <=> a \notin Ins(w)
  BY <1>1, RemoveFirstFacts DEF WorldOK, Ins
<1>5. a \in Ins(w) => Cardinality(Ins(w)) # 0
  BY <1>2, FS_EmptySet
<1> QED
  BY <1>3, <1>4, <1>5, ActiveIsInside DEF Left

-----------------------------------------------------------------------------
(* What RemoveQueuedPlayer does to the world w: a leaves the queue, and    *)
(* the first of the others is let in if and only if there is room and      *)
(* somebody waits.                                                         *)
Removed(a, w, r) ==
    /\ WorldOK(r) /\ Online(r.sess) = Online(w.sess)
    /\ r.found <=> a \in ToSet(w.queue)
    /\ r.sess[a] = IF a \in ToSet(w.queue) THEN [w.sess[a] EXCEPT !.inQueue = FALSE]
                   ELSE w.sess[a]
    /\ \A b, c : Ahead(r.queue, b, c) => Ahead(w.queue, b, c)

PopsNobody(a, w, r) ==
    /\ ToSet(r.queue) = ToSet(w.queue) \ {a}
    /\ r.queue # <<>> => ~HasRoom(Cardinality(Ins(w) \ {a}))
    /\ \A b \in Accounts \ {a} : r.sess[b] = w.sess[b]

Pops(h, a, w, r) ==
    /\ h # a /\ h \in ToSet(w.queue)
    /\ ToSet(r.queue) = ToSet(w.queue) \ {a, h}
    /\ HasRoom(Cardinality(Ins(w) \ {a}))
    /\ \A c \in ToSet(r.queue) : Ahead(w.queue, h, c)
    /\ r.sess[h] = [w.sess[h] EXCEPT !.init = TRUE]
    /\ \A b \in Accounts \ {a, h} : r.sess[b] = w.sess[b]

(* What RemoveQueuedPlayer does to queue and sessions.                     *)
LEMMA RemoveQueuedFacts ==
  ASSUME NEW w, WorldOK(w), NEW a \in Online(w.sess)
  PROVE  LET r == RemoveQueuedPlayer(a, w)
         IN  /\ Removed(a, w, r)
             /\ PopsNobody(a, w, r) \/ \E h \in Accounts : Pops(h, a, w, r)
<1> DEFINE q == RemoveFirst(w.queue, a)
           off == IF Contains(w.queue, a) THEN [w.sess EXCEPT ![a].inQueue = FALSE] ELSE w.sess
           pop == HasRoom(Left(a, w)) /\ q # <<>>
           r == RemoveQueuedPlayer(a, w)
<1>1. /\ r.found = Contains(w.queue, a)
      /\ r.queue = IF pop THEN Tail(q) ELSE q
      /\ r.sess = IF pop THEN [off EXCEPT ![Head(q)].init = TRUE] ELSE off
  BY DEF RemoveQueuedPlayer
<1>2. a \in Accounts /\ w.queue \in Seq(Accounts) /\ IsInjective(w.queue)
  BY DEF WorldOK, Online
<1>3. /\ q \in Seq(Accounts) /\ IsInjective(q)
      /\ ToSet(q) = ToSet(w.queue) \ {a}
      /\ Contains(w.queue, a) <=> a \in ToSet(w.queue)
      /\ \A b, c : Ahead(q, b, c) => Ahead(w.queue, b, c)
  BY <1>2, RemoveFirstFacts
<1>4. /\ off \in Sessions /\ Online(off) = Online(w.sess)
      /\ off[a] = IF a \in ToSet(w.queue) THEN [w.sess[a] EXCEPT !.inQueue = FALSE] ELSE w.sess[a]
      /\ \A b \in Accounts \ {a} : off[b] = w.sess[b]
  <2>1. w.sess[a] \in Session /\ w.sess \in Sessions
    BY <1>2, NoSessionIsNone DEF WorldOK, Sessions, Online
  <2>2. [w.sess[a] EXCEPT !.inQueue = FALSE] \in Session
    BY <2>1 DEF Session
  <2> DEFINE x == [w.sess[a] EXCEPT !.inQueue = FALSE]
             f == [w.sess EXCEPT ![a] = x]
  <2>3. off = IF a \in ToSet(w.queue) THEN f ELSE w.sess
    BY <1>3, <2>1 DEF Sessions
  <2> HIDE DEF x, off
  <2>4. /\ f \in Sessions /\ f[a] = x /\ \A b \in Accounts \ {a} : f[b] = w.sess[b]
    BY <1>2, <2>1, <2>2 DEF Sessions, x
  <2>5. Online(f) = Online(w.sess)
    BY <1>2, <2>1, <2>2, <2>4, NoSessionIsNone DEF Online, x
  <2> QED
    BY <2>1, <2>3, <2>4, <2>5 DEF x
<1> HIDE DEF q, off, r
<1>5. CASE ~pop
  <2>1. r.queue = q /\ r.sess = off
    BY <1>1, <1>5
  <2>2. WorldOK(r)
    BY <1>3, <1>4, <2>1 DEF WorldOK
  <2>3. Removed(a, w, r)
    BY <1>1, <1>3, <1>4, <2>1, <2>2 DEF Removed
  <2>4. r.queue # <<>> => ~HasRoom(Cardinality(Ins(w) \ {a}))
    BY <1>5, <2>1, LeftIsOthers
  <2> QED
    BY <1>3, <1>4, <2>1, <2>3, <2>4 DEF PopsNobody, r
<1>6. CASE pop
  <2> DEFINE h == Head(q)
             y == [off[h] EXCEPT !.init = TRUE]
  <2>1. r.queue = Tail(q) /\ r.sess = [off EXCEPT ![h].init = TRUE]
    BY <1>1, <1>6
  <2>2. /\ Tail(q) \in Seq(Accounts) /\ IsInjective(Tail(q))
        /\ h \in ToSet(q) /\ ToSet(Tail(q)) = ToSet(q) \ {h}
        /\ \A c \in ToSet(Tail(q)) : Ahead(q, h, c)
        /\ \A b, c : Ahead(Tail(q), b, c) => Ahead(q, b, c)
    BY <1>3, <1>6, TailFacts
  <2> HIDE DEF h
  <2>3. h \in ToSet(w.queue) /\ h # a /\ h \in Accounts /\ h \in Online(w.sess)
    BY <1>3, <2>2 DEF WorldOK, Online
  <2>4. off[h] = w.sess[h] /\ off[h] \in Session
    BY <1>4, <2>3, NoSessionIsNone DEF WorldOK, Sessions, Online
  <2>5. y \in Session
    BY <2>4 DEF Session
  <2>6. r.sess = [off EXCEPT ![h] = y]
    BY <1>4, <2>1, <2>3 DEF Sessions
  <2> HIDE DEF y
  <2>7. /\ r.sess \in Sessions /\ r.sess[h] = y
        /\ \A b \in Accounts \ {h} : r.sess[b] = off[b]
    BY <1>4, <2>3, <2>5, <2>6 DEF Sessions
  <2>8. Online(r.sess) = Online(w.sess)
    BY <1>4, <2>3, <2>5, <2>7, NoSessionIsNone DEF Online
  <2>9. WorldOK(r)
    BY <1>3, <2>1, <2>2, <2>7, <2>8 DEF WorldOK
  <2>10. Removed(a, w, r)
    BY <1>1, <1>2, <1>3, <1>4, <2>1, <2>2, <2>3, <2>7, <2>8, <2>9 DEF Removed
  <2>11. Pops(h, a, w, r)
    BY <1>3, <1>4, <1>6, <2>1, <2>2, <2>3, <2>4, <2>7, LeftIsOthers DEF Pops, y
  <2> QED
    BY <2>3, <2>10, <2>11 DEF r
<1> QED
  BY <1>5, <1>6

-----------------------------------------------------------------------------
(* IdleSlot in terms of those inside, before and after a step.             *)
LEMMA IdleMeaning ==
  ASSUME WorldOK(World)
  PROVE  IdleSlot <=> queue # <<>> /\ HasRoom(Cardinality(Inside))
  BY ActiveIsInside DEF IdleSlot, Ins, Inside, World

(* The same after a step.                                                  *)
LEMMA IdleMeaningNext ==
  ASSUME WorldOK(World')
  PROVE  IdleSlot' <=> queue' # <<>> /\ (limit' = 0 \/ Cardinality(Inside') < limit')
  BY ActiveIsInside DEF IdleSlot, Ins, Inside, World, HasRoom

(* What a step that concerns the session of a may do to the others.        *)
LetIn(a) ==
    /\ WorldOK(World')
    /\ ToSet(queue') \ {a} \subseteq ToSet(queue)
    /\ \A b \in Accounts \ {a} :
        sess'[b] = IF b \in ToSet(queue) \ ToSet(queue') THEN [sess[b] EXCEPT !.init = TRUE]
                   ELSE sess[b]

InOrder(a) ==
    \A b \in (ToSet(queue) \ ToSet(queue')) \ {a}, c \in (ToSet(queue) \cap ToSet(queue')) :
        IdleSlot \/ Ahead(queue, b, c)

(* It neither leaves a slot idle nor gives one away twice.                 *)
SlotsKept(a) ==
    /\ IdleSlot' => IdleSlot
    /\ \/ limit = 0
       \/ Inside' \ {a} \subseteq Inside
       \/ Cardinality(Inside' \ {a}) =< limit

(* One element less ...                                                    *)
LEMMA RemoveElement ==
  ASSUME NEW S \in SUBSET Accounts, NEW x
  PROVE  Cardinality(S \ {x}) = IF x \in S THEN Cardinality(S) - 1 ELSE Cardinality(S)
  BY FiniteAccounts, FS_RemoveElement

(* ... and one more.                                                       *)
LEMMA AddElement ==
  ASSUME NEW S \in SUBSET Accounts, NEW x
  PROVE  Cardinality(S \cup {x}) = IF x \in S THEN Cardinality(S) ELSE Cardinality(S) + 1
  BY FiniteAccounts, FS_AddElement

(* Those inside, apart from a, after RemoveQueuedPlayer.                   *)
LEMMA InsideAfter ==
  ASSUME NEW w, WorldOK(w), NEW a \in Online(w.sess), NEW r, Removed(a, w, r)
  PROVE  /\ PopsNobody(a, w, r) => Ins(r) \ {a} = Ins(w) \ {a}
         /\ \A h \in Accounts : Pops(h, a, w, r) =>
                /\ Ins(r) \ {a} = (Ins(w) \ {a}) \cup {h} /\ h \notin Ins(w)
                /\ Cardinality(Ins(r) \ {a}) = Cardinality(Ins(w) \ {a}) + 1
<1>1. PopsNobody(a, w, r) => Ins(r) \ {a} = Ins(w) \ {a}
  BY DEF PopsNobody, Removed, Ins
<1>2. ASSUME NEW h \in Accounts, Pops(h, a, w, r)
      PROVE  /\ Ins(r) \ {a} = (Ins(w) \ {a}) \cup {h} /\ h \notin Ins(w)
             /\ Cardinality(Ins(r) \ {a}) = Cardinality(Ins(w) \ {a}) + 1
  <2>1. Ins(r) \ {a} = (Ins(w) \ {a}) \cup {h} /\ h \notin Ins(w)
    BY <1>2 DEF Pops, Removed, Ins, WorldOK
  <2>2. Ins(w) \ {a} \in SUBSET Accounts
    BY DEF Ins, Online
  <2> QED
    BY <2>1, <2>2, AddElement
<1> QED
  BY <1>1, <1>2

(* The end of a session: RemoveQueuedPlayer twice, then the session goes.  *)
LEMMA EndEffect ==
  ASSUME WorldOK(World), limit \in Nat, NEW a \in Online(sess), UpdateEnd(a)
  PROVE  /\ LetIn(a) /\ InOrder(a) /\ SlotsKept(a)
         /\ sess'[a] = NoSession /\ a \notin ToSet(queue')
<1> DEFINE w1 == RemoveQueuedPlayer(a, World)
           w2 == RemoveQueuedPlayer(a, w1)
<1>1. /\ queue' = w2.queue /\ sess' = [w2.sess EXCEPT ![a] = NoSession]
      /\ limit' = limit
  BY DEF UpdateEnd
<1>2. World.queue = queue /\ World.sess = sess /\ a \in Accounts
  BY DEF World, Online
<1>3. /\ Removed(a, World, w1)
      /\ PopsNobody(a, World, w1) \/ \E h \in Accounts : Pops(h, a, World, w1)
  BY <1>2, RemoveQueuedFacts
<1>4. WorldOK(w1) /\ a \in Online(w1.sess)
  BY <1>2, <1>3 DEF Removed
<1> HIDE DEF w1
<1>5. /\ Removed(a, w1, w2)
      /\ PopsNobody(a, w1, w2) \/ \E h \in Accounts : Pops(h, a, w1, w2)
  BY <1>4, RemoveQueuedFacts
<1> HIDE DEF w2
<1>6. a \notin ToSet(w2.queue) /\ a \notin ToSet(w1.queue)
  BY <1>3, <1>5 DEF PopsNobody, Pops
<1>7. /\ w2.sess \in Sessions /\ sess' \in Sessions /\ sess'[a] = NoSession
      /\ \A b \in Accounts \ {a} : sess'[b] = w2.sess[b]
  BY <1>1, <1>2, <1>5 DEF Removed, WorldOK, Sessions
<1>8. Online(sess') = Online(sess) \ {a}
  BY <1>2, <1>3, <1>5, <1>7 DEF Removed, Online
<1>9. WorldOK(World')
  BY <1>1, <1>2, <1>3, <1>5, <1>6, <1>7, <1>8 DEF WorldOK, World, Removed
<1>10. Inside' = Ins(w2) \ {a}
  BY <1>1, <1>2, <1>3, <1>5, <1>8 DEF Inside, Ins, Removed
<1>11. Ins(World) = Inside
  BY <1>2 DEF Ins, Inside
<1>12. CASE PopsNobody(a, World, w1) /\ PopsNobody(a, w1, w2)
  <2>1. /\ ToSet(queue') = ToSet(queue) \ {a}
        /\ \A b \in Accounts \ {a} : sess'[b] = sess[b]
    BY <1>1, <1>2, <1>7, <1>12 DEF PopsNobody
  <2>2. LetIn(a) /\ InOrder(a)
    BY <1>9, <2>1 DEF LetIn, InOrder
  <2>3. Ins(w1) \ {a} = Inside \ {a} /\ Inside' = Inside \ {a}
    <3>1. Ins(w1) \ {a} = Ins(World) \ {a}
      BY <1>2, <1>3, <1>12, InsideAfter
    <3>2. Ins(w2) \ {a} = Ins(w1) \ {a}
      BY <1>4, <1>5, <1>12, InsideAfter
    <3> QED
      BY <1>10, <1>11, <3>1, <3>2
  <2>4. queue' # <<>> => ~HasRoom(Cardinality(Inside'))
    BY <1>1, <1>10, <1>12, <2>3 DEF PopsNobody
  <2>5. ~IdleSlot'
    BY <1>1, <1>9, <2>4, IdleMeaningNext DEF HasRoom
  <2>6. SlotsKept(a)
    BY <2>3, <2>5 DEF SlotsKept
  <2> QED
    BY <1>1, <1>6, <1>7, <2>2, <2>6
<1>13. ASSUME NEW h \in Accounts, Pops(h, a, World, w1), PopsNobody(a, w1, w2)
       PROVE  LetIn(a) /\ InOrder(a) /\ SlotsKept(a)
  <2>1. /\ ToSet(queue') = ToSet(queue) \ {a, h}
        /\ h # a /\ h \in ToSet(queue)
        /\ sess'[h] = [sess[h] EXCEPT !.init = TRUE]
        /\ \A b \in Accounts \ {a, h} : sess'[b] = sess[b]
    BY <1>1, <1>2, <1>7, <1>13 DEF PopsNobody, Pops
  <2>2. LetIn(a)
    BY <1>9, <2>1 DEF LetIn
  <2>3. InOrder(a)
    BY <1>1, <1>2, <1>13, <2>1 DEF InOrder, Pops, PopsNobody
  <2>4. Inside' = Ins(w1) \ {a} /\ Cardinality(Inside') = Cardinality(Inside \ {a}) + 1
    <3>1. Cardinality(Ins(w1) \ {a}) = Cardinality(Inside \ {a}) + 1
      BY <1>2, <1>3, <1>11, <1>13, InsideAfter
    <3>2. Ins(w2) \ {a} = Ins(w1) \ {a}
      BY <1>4, <1>5, <1>13, InsideAfter
    <3> QED
      BY <1>10, <3>1, <3>2
  <2>5. queue' # <<>> => ~HasRoom(Cardinality(Inside'))
    BY <1>1, <1>13, <2>4 DEF PopsNobody
  <2>6. HasRoom(Cardinality(Inside \ {a}))
    BY <1>11, <1>13 DEF Pops
  <2>7. Cardinality(Inside \ {a}) \in Nat /\ Inside' \ {a} = Inside'
    BY <1>2, <2>4, FiniteAccounts DEF Inside, Online
  <2>8. ~IdleSlot'
    BY <1>1, <1>9, <2>5, IdleMeaningNext DEF HasRoom
  <2>9. limit = 0 \/ Cardinality(Inside' \ {a}) =< limit
    BY <2>4, <2>6, <2>7 DEF HasRoom
  <2> QED
    BY <2>2, <2>3, <2>8, <2>9 DEF SlotsKept
<1>14. ASSUME NEW h \in Accounts, Pops(h, a, w1, w2)
       PROVE  LetIn(a) /\ InOrder(a) /\ SlotsKept(a)
  <2>1. ~PopsNobody(a, World, w1)
    <3>1. w1.queue # <<>>
      BY <1>4, <1>14, QueueLength DEF Pops, WorldOK
    <3>2. PopsNobody(a, World, w1) => ~HasRoom(Cardinality(Ins(w1) \ {a}))
      BY <1>2, <1>3, <3>1, InsideAfter DEF PopsNobody
    <3> QED
      BY <1>14, <3>2 DEF Pops
  <2>2. PICK g \in Accounts : Pops(g, a, World, w1)
    BY <1>3, <2>1
  <2>3. g # a /\ h # a /\ h # g /\ g \in ToSet(queue) /\ h \in ToSet(queue)
    BY <1>2, <1>14, <2>2 DEF Pops
  <2>4. /\ ToSet(queue') = ToSet(queue) \ {a, g, h}
        /\ sess'[h] = [sess[h] EXCEPT !.init = TRUE]
        /\ sess'[g] = [sess[g] EXCEPT !.init = TRUE]
        /\ \A b \in Accounts \ {a, g, h} : sess'[b] = sess[b]
    BY <1>1, <1>2, <1>7, <1>14, <2>2, <2>3 DEF Pops
  <2>5. LetIn(a)
    BY <1>9, <2>3, <2>4 DEF LetIn
  <2>6. Cardinality(Ins(w1) \ {a}) = Cardinality(Inside \ {a}) + 1
    BY <1>2, <1>3, <1>11, <2>2, InsideAfter
  <2>7. Cardinality(Inside') = Cardinality(Ins(w1) \ {a}) + 1
    BY <1>4, <1>5, <1>10, <1>14, InsideAfter
  <2>8. HasRoom(Cardinality(Inside \ {a}) + 1)
    BY <1>14, <2>6 DEF Pops
  <2>9. /\ Cardinality(Inside \ {a}) \in Nat /\ Inside' \ {a} = Inside'
        /\ Cardinality(Inside) \in Nat /\ Inside \in SUBSET Accounts
    BY <1>10, FiniteAccounts DEF Inside, Online
  <2>10. Cardinality(Inside) =< Cardinality(Inside \ {a}) + 1
    BY <2>9, RemoveElement
  <2>11. IdleSlot
    <3>1. queue # <<>>
      BY <1>2, <2>3, QueueLength DEF WorldOK
    <3>2. HasRoom(Cardinality(Inside))
      BY <2>8, <2>9, <2>10 DEF HasRoom
    <3> QED
      BY <3>1, <3>2, IdleMeaning
  <2>12. limit = 0 \/ Cardinality(Inside' \ {a}) =< limit
    BY <2>6, <2>7, <2>8, <2>9 DEF HasRoom
  <2> QED
    BY <2>5, <2>11, <2>12 DEF SlotsKept, InOrder
<1> QED
  BY <1>1, <1>3, <1>5, <1>6, <1>7, <1>12, <1>13, <1>14

(* Whoever is let in at once has a privilege, or finds room that nobody    *)
(* in the queue was waiting for.                                           *)
NewcomerFair(a) ==
    /\ a \in Inside' => Privileged(a) \/ limit = 0 \/ Cardinality(Inside') =< limit
    /\ a \in Inside' \ Inside /\ ToSet(queue) \cap ToSet(queue') # {}
            => IdleSlot \/ Privileged(a)

(* The session of a after AddSession_.                                     *)
Entered(a, o) ==
    \E wait \in BOOLEAN :
        /\ sess'[a] = [NewSession(o) EXCEPT !.inQueue = wait, !.init = ~wait]
        /\ a \in ToSet(queue') <=> wait

(* What AddSession_ does to queue and sessions.                            *)
LEMMA AddEffect ==
  ASSUME WorldOK(World), limit \in Nat, limit' = limit,
         NEW a \in Accounts, NEW o \in BOOLEAN,
         sess[a].play # "loading", AddSession_(a, o)
  PROVE  /\ LetIn(a) /\ InOrder(a) /\ SlotsKept(a)
         /\ NewcomerFair(a) /\ Entered(a, o)
<1> DEFINE w == IF a \in Online(sess) THEN RemoveQueuedPlayer(a, World) ELSE World
           sn == [w.sess EXCEPT ![a] = NewSession(o)]
           n == IF w.found THEN Cardinality(Online(sn)) ELSE Cardinality(Online(sn)) - 1
           wait == MustQueue(a, n)
           I == Ins(w) \ {a}
<1>1. /\ queue' = IF wait THEN Append(w.queue, a) ELSE w.queue
      /\ sess' = [sn EXCEPT ![a].inQueue = wait, ![a].init = ~wait]
  BY DEF AddSession_
<1>2. World.queue = queue /\ World.sess = sess /\ World.found = FALSE /\ Ins(World) = Inside
  BY DEF World, Ins, Inside
<1>3. /\ WorldOK(w) /\ Online(w.sess) = Online(sess)
      /\ a \notin ToSet(w.queue) /\ (w.found <=> a \in ToSet(queue))
  <2>1. CASE a \in Online(sess)
    <3>1. /\ Removed(a, World, w)
          /\ PopsNobody(a, World, w) \/ \E h \in Accounts : Pops(h, a, World, w)
      BY <1>2, <2>1, RemoveQueuedFacts
    <3> HIDE DEF w
    <3> QED
      BY <1>2, <3>1 DEF Removed, PopsNobody, Pops
  <2>2. CASE a \notin Online(sess)
    BY <1>2, <2>2 DEF WorldOK
  <2> QED
    BY <2>1, <2>2
<1>4. \/ a \notin Online(sess) /\ w = World /\ I = Inside /\ a \notin Inside
      \/ /\ a \in Online(sess) /\ Removed(a, World, w) /\ PopsNobody(a, World, w)
         /\ I = Inside \ {a}
      \/ /\ a \in Online(sess) /\ Removed(a, World, w)
         /\ \E h \in Accounts :
            /\ Pops(h, a, World, w) /\ I = (Inside \ {a}) \cup {h}
            /\ Cardinality(I) = Cardinality(Inside \ {a}) + 1
  <2>1. CASE a \in Online(sess)
    <3>1. /\ Removed(a, World, w)
          /\ PopsNobody(a, World, w) \/ \E h \in Accounts : Pops(h, a, World, w)
      BY <1>2, <2>1, RemoveQueuedFacts
    <3> HIDE DEF w
    <3> QED
      BY <1>2, <2>1, <3>1, InsideAfter
  <2>2. CASE a \notin Online(sess)
    BY <1>2, <2>2 DEF Inside
  <2> QED
    BY <2>1, <2>2
<1> HIDE DEF w
<1>5. /\ sn \in Sessions /\ Online(sn) = Online(sess) \cup {a} /\ sn[a] = NewSession(o)
      /\ \A b \in Accounts \ {a} : sn[b] = w.sess[b]
  <2>1. NewSession(o) \in Session
    BY DEF NewSession, Session
  <2>2. /\ sn \in Sessions /\ sn[a] = NewSession(o)
        /\ \A b \in Accounts \ {a} : sn[b] = w.sess[b]
    BY <1>3, <2>1 DEF WorldOK, Sessions
  <2> HIDE DEF sn
  <2>3. Online(sn) = Online(w.sess) \cup {a}
    BY <2>1, <2>2, NoSessionIsNone DEF Online
  <2> QED
    BY <1>3, <2>2, <2>3
<1> HIDE DEF sn
<1>6. wait \in BOOLEAN
  BY DEF MustQueue
<1>7. LET c == Cardinality(Online(sess) \cup {a})
          d == Cardinality(Online(sess) \ {a})
      IN  /\ c \in Nat /\ d = c - 1
          /\ wait => /\ limit > 0 /\ c >= limit /\ ~Privileged(a)
                     /\ a \notin ToSet(queue) => d >= limit
          /\ ~wait => \/ limit = 0 \/ Privileged(a)
                      \/ c =< limit /\ (a \in ToSet(queue) => c < limit)
  <2> DEFINE c == Cardinality(Online(sess) \cup {a})
             d == Cardinality(Online(sess) \ {a})
  <2>1. Online(sess) \cup {a} \in SUBSET Accounts /\ Online(sess) \in SUBSET Accounts
    BY DEF Online
  <2>2. c \in Nat
    BY <2>1, FiniteAccounts
  <2>3. d = c - 1
    <3>1. (Online(sess) \cup {a}) \ {a} = Online(sess) \ {a}
      OBVIOUS
    <3> QED
      BY <2>1, <3>1, RemoveElement
  <2>4. n = IF a \in ToSet(queue) THEN c ELSE c - 1
    BY <1>3, <1>5
  <2>5. wait <=> /\ limit > 0 /\ n >= limit /\ ~Privileged(a)
    BY DEF MustQueue, Privileged
  <2> HIDE DEF n, c, d, wait
  <2> QED
    BY <2>2, <2>3, <2>4, <2>5 DEF c, d
<1> HIDE DEF n, wait
<1> DEFINE x == [NewSession(o) EXCEPT !.inQueue = wait, !.init = ~wait]
<1>8. /\ sess' \in Sessions /\ sess'[a] = x /\ Online(sess') = Online(sess) \cup {a}
      /\ \A b \in Accounts \ {a} : sess'[b] = w.sess[b]
  <2>1. x \in Session
    BY <1>6 DEF NewSession, Session
  <2>2. sess' = [sn EXCEPT ![a] = x]
    BY <1>1, <1>5 DEF Sessions, NewSession
  <2> HIDE DEF x
  <2>3. /\ sess' \in Sessions /\ sess'[a] = x
        /\ \A b \in Accounts \ {a} : sess'[b] = sn[b]
    BY <1>5, <2>1, <2>2 DEF Sessions
  <2>4. Online(sess') = Online(sn) \cup {a}
    BY <2>1, <2>3, NoSessionIsNone DEF Online
  <2> QED
    BY <1>5, <2>3, <2>4
<1> HIDE DEF x
<1>9. /\ queue' \in Seq(Accounts) /\ IsInjective(queue')
      /\ ToSet(queue') = IF wait THEN ToSet(w.queue) \cup {a} ELSE ToSet(w.queue)
      /\ wait => queue' # <<>>
      /\ ~wait => queue' = w.queue
  <2>1. /\ w.queue \in Seq(Accounts) /\ IsInjective(w.queue) /\ a \notin ToSet(w.queue)
    BY <1>3 DEF WorldOK
  <2>2. CASE wait
    <3>1. queue' = Append(w.queue, a)
      BY <1>1, <2>2
    <3>2. queue' # <<>>
      BY <2>1, <3>1
    <3> QED
      BY <2>1, <2>2, <3>1, <3>2, AppendFacts
  <2>3. CASE ~wait
    BY <1>1, <2>1, <2>3
  <2> QED
    BY <2>2, <2>3
<1>10. WorldOK(World')
  BY <1>3, <1>8, <1>9 DEF WorldOK, World
<1>11. Entered(a, o)
  BY <1>3, <1>6, <1>8, <1>9 DEF Entered, x
<1>12. Inside' = IF wait THEN I ELSE I \cup {a}
  BY <1>3, <1>8, <1>9 DEF Inside, Ins
<1>13. Inside' \ {a} = I
  BY <1>12
<1>14. LetIn(a)
  <2>1. ToSet(queue') \ {a} = ToSet(w.queue)
    BY <1>3, <1>9
  <2>2. /\ ToSet(w.queue) \subseteq ToSet(queue)
        /\ \A b \in Accounts \ {a} :
            w.sess[b] = IF b \in ToSet(queue) \ ToSet(w.queue) THEN [sess[b] EXCEPT !.init = TRUE]
                        ELSE sess[b]
    BY <1>2, <1>4 DEF PopsNobody, Pops
  <2> QED
    BY <1>8, <1>10, <2>1, <2>2 DEF LetIn
<1>15. /\ Inside \in SUBSET Accounts /\ Online(sess) \in SUBSET Accounts
       /\ Inside \subseteq Online(sess) /\ I \in SUBSET Accounts /\ I \subseteq Online(sess)
       /\ queue = <<>> <=> ToSet(queue) = {}
  BY <1>2, <1>3, QueueLength DEF Inside, Ins, Online, WorldOK
<1>16. /\ Cardinality(Inside) \in Nat /\ Cardinality(Inside \ {a}) \in Nat
       /\ Cardinality(I) \in Nat /\ Cardinality(I \cup {a}) \in Nat
       /\ Cardinality(Online(sess)) \in Nat
       /\ Cardinality(Inside) =< Cardinality(Online(sess))
  <2>1. Inside \ {a} \in SUBSET Accounts /\ I \cup {a} \in SUBSET Accounts
    BY <1>15
  <2> QED
    BY <1>15, <2>1, FiniteAccounts, FS_Subset
<1>17. InOrder(a)
  <2>1. ASSUME NEW h \in Accounts, Pops(h, a, World, w),
               NEW c \in ToSet(queue) \cap ToSet(queue')
        PROVE  IdleSlot \/ Ahead(queue, h, c)
    <3>1. CASE c = a
      <4>1. Inside \ {a} = Inside /\ queue # <<>>
        BY <1>15, <3>1 DEF Inside
      <4>2. HasRoom(Cardinality(Inside))
        BY <1>2, <2>1, <4>1 DEF Pops
      <4> QED
        BY <4>1, <4>2, IdleMeaning
    <3>2. CASE c # a
      <4>1. c \in ToSet(w.queue)
        BY <1>9, <3>2
      <4> QED
        BY <1>2, <2>1, <4>1 DEF Pops
    <3> QED
      BY <3>1, <3>2
  <2>2. \A h \in Accounts : Pops(h, a, World, w) =>
            \A b \in (ToSet(queue) \ ToSet(queue')) \ {a} : b = h
    BY <1>2, <1>9 DEF Pops
  <2>3. PopsNobody(a, World, w) \/ w = World =>
            (ToSet(queue) \ ToSet(queue')) \ {a} = {}
    BY <1>2, <1>9 DEF PopsNobody
  <2> QED
    BY <1>4, <2>1, <2>2, <2>3 DEF InOrder
<1>18. IdleSlot' => IdleSlot
  <2> SUFFICES ASSUME ~IdleSlot PROVE ~IdleSlot'
    OBVIOUS
  <2>1. queue = <<>> \/ (limit > 0 /\ Cardinality(Inside) >= limit)
    BY <1>16, IdleMeaning DEF HasRoom
  <2>2. CASE ~wait
    <3>1. queue = <<>> => queue' = <<>>
      <4>1. queue = <<>> => ToSet(w.queue) = {}
        BY <1>2, <1>4, <1>15 DEF PopsNobody, Pops
      <4> QED
        BY <1>9, <1>10, <2>2, <4>1, QueueLength
    <3>2. Inside' = I \cup {a} /\ Inside \subseteq Inside'
      BY <1>4, <1>12, <2>2
    <3>3. Cardinality(Inside') >= Cardinality(Inside)
      BY <1>15, <1>16, <3>2, FiniteAccounts, FS_Subset
    <3> QED
      BY <1>10, <1>16, <2>1, <3>1, <3>2, <3>3, IdleMeaningNext
  <2>3. CASE wait
    <3>1. Inside' = I /\ limit > 0
      BY <1>7, <1>12, <2>3
    <3>2. Cardinality(I) >= limit
      <4>1. CASE ToSet(w.queue) = {} /\ a \notin ToSet(queue)
        <5>1. I = Online(sess) \ {a}
          BY <1>3, <4>1 DEF Ins
        <5> QED
          BY <1>7, <2>3, <4>1, <5>1
      <4>2. CASE a \in ToSet(queue)
        <5>1. Cardinality(Inside) >= limit /\ Inside \ {a} = Inside
          BY <1>15, <2>1, <4>2 DEF Inside
        <5>2. Inside \subseteq I
          BY <1>4, <5>1
        <5> QED
          BY <1>15, <1>16, <5>1, <5>2, FiniteAccounts, FS_Subset
      <4>3. CASE ToSet(w.queue) # {} /\ a \notin Online(sess)
        <5>1. w = World /\ I = Inside
          BY <1>4, <4>3
        <5> QED
          BY <1>2, <1>15, <2>1, <4>3, <5>1
      <4>4. CASE ToSet(w.queue) # {} /\ a \in Online(sess) /\ PopsNobody(a, World, w)
        <5>1. w.queue # <<>> /\ I = Inside \ {a}
          <6>1. w.queue # <<>>
            BY <1>3, <4>4, QueueLength DEF WorldOK
          <6>2. Removed(a, World, w)
            BY <1>4, <4>4
          <6> QED
            BY <1>2, <4>4, <6>1, <6>2, InsideAfter
        <5>2. ~HasRoom(Cardinality(Inside \ {a}))
          BY <1>2, <4>4, <5>1 DEF PopsNobody
        <5>3. ~(limit = 0 \/ Cardinality(Inside \ {a}) < limit)
          BY <5>2 DEF HasRoom
        <5>4. Cardinality(I) = Cardinality(Inside \ {a})
          BY <5>1
        <5> HIDE DEF I
        <5> QED
          BY <1>16, <5>3, <5>4
      <4>5. ASSUME NEW h \in Accounts, Pops(h, a, World, w), a \in Online(sess)
            PROVE  Cardinality(I) >= limit
        <5>1. Cardinality(I) = Cardinality(Inside \ {a}) + 1
          BY <1>2, <1>4, <4>5, InsideAfter
        <5>2. Cardinality(Inside) =< Cardinality(Inside \ {a}) + 1
          BY <1>15, <1>16, RemoveElement
        <5>3. Cardinality(Inside) >= limit
          BY <1>2, <1>15, <2>1, <4>5 DEF Pops
        <5> QED
          BY <1>16, <5>1, <5>2, <5>3
      <4> QED
        BY <1>4, <4>1, <4>2, <4>3, <4>4, <4>5
    <3> QED
      BY <1>10, <1>16, <3>1, <3>2, IdleMeaningNext
  <2> QED
    BY <1>6, <2>2, <2>3
<1>19. limit = 0 \/ Inside' \ {a} \subseteq Inside \/ Cardinality(Inside' \ {a}) =< limit
  <2>1. ASSUME NEW h \in Accounts, Pops(h, a, World, w),
               Cardinality(I) = Cardinality(Inside \ {a}) + 1
        PROVE  limit = 0 \/ Cardinality(I) =< limit
    <3>1. HasRoom(Cardinality(Inside \ {a}))
      BY <1>2, <2>1 DEF Pops
    <3> QED
      BY <1>16, <2>1, <3>1 DEF HasRoom
  <2> QED
    BY <1>4, <1>13, <2>1
<1>20. NewcomerFair(a)
  <2> DEFINE c == Cardinality(Online(sess) \cup {a})
  <2>1. Online(sess) \cup {a} \in SUBSET Accounts
    BY <1>15
  <2>2. ASSUME a \in Inside'
        PROVE  Privileged(a) \/ limit = 0 \/ Cardinality(Inside') =< limit
    <3>1. ~wait /\ Inside' \subseteq Online(sess) \cup {a}
      BY <1>12, <1>13, <1>15, <2>2
    <3>2. Cardinality(Inside') =< c /\ Cardinality(Inside') \in Nat
      BY <2>1, <3>1, FiniteAccounts, FS_Subset
    <3> QED
      BY <1>7, <3>1, <3>2
  <2>3. ASSUME a \in Inside' \ Inside, ToSet(queue) # {}, ~Privileged(a)
        PROVE  IdleSlot
    <3>1. ~wait
      BY <1>12, <1>13, <2>3
    <3>2. a \notin Online(sess) \/ a \in ToSet(queue)
      BY <2>3 DEF Inside
    <3>3. c = IF a \in Online(sess) THEN Cardinality(Online(sess)) ELSE Cardinality(Online(sess)) + 1
      BY <1>15, AddElement
    <3>4. limit = 0 \/ Cardinality(Online(sess)) < limit
      BY <1>7, <1>16, <2>3, <3>1, <3>2, <3>3
    <3>5. HasRoom(Cardinality(Inside))
      BY <1>16, <3>4 DEF HasRoom
    <3> QED
      BY <1>15, <2>3, <3>5, IdleMeaning
  <2> QED
    BY <2>2, <2>3 DEF NewcomerFair
<1> QED
  BY <1>11, <1>14, <1>17, <1>18, <1>19, <1>20 DEF SlotsKept

-----------------------------------------------------------------------------
LEMMA EmptyQueue == ToSet(<<>>) = {} /\ IsInjective(<<>>) /\ <<>> \in Seq(Accounts)
<1>1. <<>> \in Seq(Accounts) /\ Len(<<>>) = 0 /\ DOMAIN <<>> = 1 .. 0
  OBVIOUS
<1>2. \A i \in 1 .. 0 : FALSE
  OBVIOUS
<1>3. DOMAIN <<>> = {}
  BY <1>1, <1>2
<1> QED
  BY <1>1, <1>3 DEF ToSet, IsInjective

(* The inductive invariant.  Whoever waits, or is about to be let in, has  *)
(* no character.                                                           *)
WaitersDontPlay == \A a \in Accounts : sess[a].inQueue => sess[a].play = "none"

(* A kicked session ends at its next visit.                                *)
Kicked(a) == sess[a].forceExit /\ ~sess[a].open

(* From KickAll on, whoever can still have a player in the world is kicked *)
(* and has not been visited by the last pass.                              *)
ShutdownOrder ==
    /\ stop \in {"kicked", "done"} => todo = {}
    /\ stop = "kicked" => \A a \in Online(sess) : Kicked(a) \/ sess[a].play = "none"
    /\ stop = "pass" =>
        \A a \in Accounts :
            IF a \in todo THEN Kicked(a) \/ sess[a].play = "none" ELSE sess[a].play # "in"
    /\ stop = "done" => \A a \in Accounts : sess[a].play # "in"

IdleOnlyRaised == IdleSlot => raised

(* The part about each session by itself.                                  *)
Sound == QueueExact /\ NoStuckWaiter /\ WaitersDontPlay /\ ShutdownOrder

SessionInv == TypeOK /\ Sound /\ IdleOnlyRaised /\ NoOverfill

(* An idle slot or an overfull world is either as old as its excuse or     *)
(* comes with one.                                                         *)
LEMMA HistoryStep ==
  ASSUME History, IdleOnlyRaised, NoOverfill,
         IdleSlot' => IdleSlot \/ Above(limit', limit),
         stop' = "no" /\ Overfull' => stop = "no" /\ (Overfull \/ Above(limit, limit'))
  PROVE  /\ IdleOnlyRaised' /\ NoOverfill'
         /\ raised' \in BOOLEAN /\ lowered' \in BOOLEAN
  BY DEF History, IdleOnlyRaised, NoOverfill

(* Slots change hands only with the queue, the set of sessions, the limit  *)
(* or the disconnects.                                                     *)
LEMMA SlotsUnchanged ==
  ASSUME queue' = queue, Online(sess') = Online(sess), limit' = limit, disc' = disc
  PROVE  (IdleSlot' <=> IdleSlot) /\ (Overfull' <=> Overfull) /\ Inside' = Inside
<1>1. Inside' = Inside
  BY DEF Inside
<1>2. IdleSlot' <=> IdleSlot
  BY DEF IdleSlot, HasRoom, GetActiveSessionCount, World
<1>3. \A a : Privileged(a)' <=> Privileged(a)
  BY DEF Privileged, HasRecentlyDisconnected
<1>4. {a \in Inside' : ~Privileged(a)'} = {a \in Inside : ~Privileged(a)}
  BY <1>1, <1>3
<1> QED
  BY <1>1, <1>2, <1>4 DEF Overfull

(* The invariant gives what the steps on queue and sessions need.          *)
LEMMA InvWorldOK ==
  ASSUME SessionInv
  PROVE  WorldOK(World) /\ limit \in Nat
  BY QueueAssumption DEF SessionInv, TypeOK, Sound, QueueExact, WorldOK, World, Sessions

(* What changes when one session is assigned.                              *)
LEMMA AssignSession ==
  ASSUME TypeOK, NEW a \in Online(sess), NEW r \in Session,
         sess' = [sess EXCEPT ![a] = r]
  PROVE  /\ sess' \in [Accounts -> Session \cup {NoSession}]
         /\ Online(sess') = Online(sess) /\ sess'[a] = r /\ sess[a] \in Session
         /\ \A b \in Accounts \ {a} : sess'[b] = sess[b]
<1>1. a \in Accounts /\ sess[a] \in Session
  BY DEF Online, TypeOK
<1>2. sess' \in [Accounts -> Session \cup {NoSession}] /\ sess'[a] = r
  BY <1>1 DEF TypeOK
<1>3. \A b \in Accounts \ {a} : sess'[b] = sess[b]
  BY <1>1 DEF TypeOK
<1>4. Online(sess') = Online(sess)
  BY <1>1, <1>2, <1>3, NoSessionIsNone DEF Online
<1> QED
  BY <1>1, <1>2, <1>3, <1>4

(* A visit that does not end the session keeps the invariant, if what it   *)
(* does to the session is sound.                                           *)
SoundVisit(x, r) ==
    /\ r \in Session /\ (r.forceExit <=> x.forceExit) /\ (r.open => x.open)
    /\ \/ (r.inQueue <=> x.inQueue) /\ (r.init <=> x.init)
       \/ ~r.inQueue /\ x.init
    /\ r.inQueue => r.play = x.play
    /\ x.play = "none" => r.play # "in"

(* Then it keeps the invariant.                                            *)
LEMMA VisitKeeps ==
  ASSUME SessionInv, History, NEW a \in Accounts, NEW r, a \in todo, Visit(a, r),
         SoundVisit(sess[a], r)
  PROVE  SessionInv' /\ Inside' = Inside
<1>1. /\ TypeOK /\ QueueExact /\ NoStuckWaiter /\ WaitersDontPlay /\ ShutdownOrder
      /\ IdleOnlyRaised /\ NoOverfill
  BY DEF SessionInv, Sound
<1>2. /\ a \in Online(sess) /\ r \in Session
      /\ sess' = [sess EXCEPT ![a] = r] /\ todo' = todo \ {a}
      /\ sess[a].open \/ ~sess[a].forceExit
      /\ addQ' = addQ /\ queue' = queue /\ limit' = limit /\ disc' = disc /\ stop' = stop
  BY <1>1 DEF TypeOK, Visit, SoundVisit
<1>3. /\ sess' \in [Accounts -> Session \cup {NoSession}]
      /\ Online(sess') = Online(sess) /\ sess'[a] = r /\ sess[a] \in Session
      /\ \A b \in Accounts \ {a} : sess'[b] = sess[b]
  BY <1>1, <1>2, AssignSession
<1>4. (IdleSlot' <=> IdleSlot) /\ (Overfull' <=> Overfull) /\ Inside' = Inside
  BY <1>2, <1>3, SlotsUnchanged
<1>5. IdleOnlyRaised' /\ NoOverfill' /\ raised' \in BOOLEAN /\ lowered' \in BOOLEAN
  BY <1>1, <1>2, <1>4, HistoryStep
<1>6. TypeOK'
  BY <1>1, <1>2, <1>3, <1>5 DEF TypeOK
<1>7. QueueExact'
  BY <1>1, <1>2, <1>3 DEF QueueExact, SoundVisit
<1>8. NoStuckWaiter'
  BY <1>1, <1>2, <1>3 DEF NoStuckWaiter, SoundVisit
<1>9. WaitersDontPlay'
  BY <1>1, <1>2, <1>3 DEF WaitersDontPlay, SoundVisit
<1>10. ShutdownOrder'
  <2>1. stop = "no" \/ stop = "pass"
    BY <1>1 DEF ShutdownOrder, TypeOK
  <2>2. stop = "pass" => sess[a].play = "none" /\ r.play # "in"
    BY <1>1, <1>2 DEF ShutdownOrder, Kicked, SoundVisit
  <2> QED
    BY <1>1, <1>2, <1>3, <2>1, <2>2 DEF ShutdownOrder, Kicked
<1> QED
  BY <1>4, <1>5, <1>6, <1>7, <1>8, <1>9, <1>10 DEF SessionInv, Sound

(* The visits of UpdateSessions that do not end a session.                 *)
LEMMA VisitsAreSound ==
  ASSUME SessionInv, History, NEW a \in Accounts,
         \/ UpdateNothing(a) \/ UpdateIdle(a) \/ UpdateLogin(a) \/ UpdateInit(a)
         \/ UpdateLoaded(a) \/ UpdateLogout(a)
  PROVE  SessionInv' /\ Inside' = Inside
<1> DEFINE x == sess[a]
<1>1. a \in todo /\ WaitersDontPlay
  BY DEF UpdateNothing, UpdateIdle, UpdateLogin, UpdateInit, UpdateLoaded, UpdateLogout,
         SessionInv, Sound
<1>2. x \in Session
  BY <1>1 DEF SessionInv, TypeOK, Online
<1>3. x.inQueue => x.play = "none"
  BY <1>1 DEF WaitersDontPlay
<1>4. ASSUME NEW r, Visit(a, r), SoundVisit(x, r)
      PROVE  SessionInv' /\ Inside' = Inside
  BY <1>1, <1>4, VisitKeeps
<1> HIDE DEF x
<1>5. CASE UpdateNothing(a)
  <2>1. SoundVisit(x, x)
    BY <1>2 DEF SoundVisit
  <2> QED
    BY <1>4, <1>5, <2>1 DEF UpdateNothing, x
<1>6. CASE UpdateIdle(a)
  <2>1. SoundVisit(x, [x EXCEPT !.open = FALSE])
    BY <1>2 DEF SoundVisit, Session
  <2> QED
    BY <1>4, <1>6, <2>1 DEF UpdateIdle, x
<1>7. CASE UpdateLogin(a)
  <2>1. ~x.inQueue
    BY <1>7 DEF UpdateLogin, x
  <2>2. SoundVisit(x, [x EXCEPT !.play = "loading"])
    BY <1>2, <2>1 DEF SoundVisit, Session
  <2> QED
    BY <1>4, <1>7, <2>2 DEF UpdateLogin, x
<1>8. CASE UpdateInit(a)
  <2>1. x.init
    BY <1>8 DEF UpdateInit, x
  <2>2. SoundVisit(x, [x EXCEPT !.inQueue = FALSE, !.init = FALSE])
    BY <1>2, <2>1 DEF SoundVisit, Session
  <2> QED
    BY <1>4, <1>8, <2>2 DEF UpdateInit, x
<1>9. CASE UpdateLoaded(a)
  <2>1. x.play = "loading" /\ ~x.inQueue
    BY <1>2, <1>3, <1>9 DEF UpdateLoaded, x, Session
  <2>2. PICK p \in {"in", "none"} : Visit(a, [x EXCEPT !.play = p])
    BY <1>9 DEF UpdateLoaded, x
  <2>3. SoundVisit(x, [x EXCEPT !.play = p])
    BY <1>2, <2>1 DEF SoundVisit, Session
  <2> QED
    BY <1>4, <2>2, <2>3
<1>10. CASE UpdateLogout(a)
  <2>1. x.play = "in" /\ ~x.inQueue
    BY <1>2, <1>3, <1>10 DEF UpdateLogout, x, Session
  <2>2. SoundVisit(x, [x EXCEPT !.play = "none"])
    BY <1>2, <2>1 DEF SoundVisit, Session
  <2> QED
    BY <1>4, <1>10, <2>2 DEF UpdateLogout, x
<1> QED
  BY <1>5, <1>6, <1>7, <1>8, <1>9, <1>10

(* The others, when the session of a ends or is added: whoever is popped   *)
(* off the queue is marked for InitializeSession, the rest is as before.   *)
LEMMA OthersKept ==
  ASSUME SessionInv, NEW a \in Accounts, LetIn(a), NEW b \in Accounts \ {a}
  PROVE  /\ (sess'[b] = NoSession) <=> (sess[b] = NoSession)
         /\ sess'[b].play = sess[b].play /\ (Kicked(b)' <=> Kicked(b))
         /\ b \in ToSet(queue') => sess'[b].inQueue /\ ~sess'[b].init
         /\ sess'[b].inQueue => sess'[b].play = "none"
         /\ sess'[b].inQueue /\ sess'[b].open => b \in ToSet(queue') \/ sess'[b].init
<1>1. /\ sess[b] \in Session \cup {NoSession}
      /\ b \in ToSet(queue) => sess[b] \in Session /\ sess[b].inQueue /\ ~sess[b].init
      /\ sess[b].inQueue => sess[b].play = "none"
      /\ sess[b].inQueue /\ sess[b].open => b \in ToSet(queue) \/ sess[b].init
  BY NoSessionIsNone
     DEF SessionInv, TypeOK, Sound, QueueExact, WaitersDontPlay, NoStuckWaiter, Online
<1>2. b \in ToSet(queue') => b \in ToSet(queue)
  BY DEF LetIn
<1>3. CASE b \in ToSet(queue) \ ToSet(queue')
  <2>1. sess'[b] = [sess[b] EXCEPT !.init = TRUE] /\ sess[b] \in Session
    BY <1>1, <1>3 DEF LetIn
  <2>2. /\ sess'[b] \in Session /\ sess'[b].init /\ sess'[b].play = sess[b].play
        /\ (sess'[b].open <=> sess[b].open) /\ (sess'[b].forceExit <=> sess[b].forceExit)
        /\ (sess'[b].inQueue <=> sess[b].inQueue)
    BY <2>1 DEF Session
  <2> QED
    BY <1>1, <1>3, <2>1, <2>2, NoSessionIsNone DEF Kicked
<1>4. CASE b \notin ToSet(queue) \ ToSet(queue')
  <2>1. sess'[b] = sess[b]
    BY <1>4 DEF LetIn
  <2> QED
    BY <1>1, <1>2, <1>4, <2>1 DEF Kicked
<1> QED
  BY <1>3, <1>4

(* The step of FirstCome.                                                  *)
Overtakes(a, b) ==
    /\ a \in Inside' \ Inside /\ b \in ToSet(queue) \cap ToSet(queue')
    /\ ~raised /\ ~Privileged(a) /\ ~Ahead(queue, a, b)

(* Nobody but the one let in can have overtaken.                           *)
LEMMA NobodyElseOvertakes ==
  ASSUME SessionInv, NEW a \in Accounts, LetIn(a), InOrder(a), NEW x, NEW b, x # a
  PROVE  ~Overtakes(x, b)
<1> SUFFICES ASSUME Overtakes(x, b) PROVE FALSE
  OBVIOUS
<1>1. x \in Accounts \ {a} /\ x \in Online(sess') /\ x \notin ToSet(queue')
  BY DEF Overtakes, Inside, Online
<1>2. x \in Online(sess)
  BY <1>1, OthersKept DEF Online
<1>3. x \in (ToSet(queue) \ ToSet(queue')) \ {a}
  BY <1>1, <1>2 DEF Overtakes, Inside
<1>4. IdleSlot
  BY <1>3 DEF InOrder, Overtakes
<1> QED
  BY <1>4 DEF SessionInv, IdleOnlyRaised, Overtakes

(* AddSession_ keeps the invariant and the order.                          *)
LEMMA AddKeeps ==
  ASSUME SessionInv, History, AddNext
  PROVE  SessionInv' /\ \A x, b : ~Overtakes(x, b)
<1> DEFINE a == Head(addQ).acct
           o == Head(addQ).open
<1>1. /\ TypeOK /\ QueueExact /\ NoStuckWaiter /\ WaitersDontPlay /\ ShutdownOrder
      /\ IdleOnlyRaised /\ NoOverfill
  BY DEF SessionInv, Sound
<1>2. /\ addQ # <<>> /\ todo = {} /\ addQ' = Tail(addQ) /\ AddSession_(a, o)
      /\ limit' = limit /\ disc' = disc /\ todo' = todo /\ stop' = stop
      /\ stop \in {"no", "kicked"}
  BY DEF AddNext
<1>3. addQ' \in Seq([acct : Accounts, open : BOOLEAN]) /\ a \in Accounts /\ o \in BOOLEAN
  <2>1. addQ \in Seq([acct : Accounts, open : BOOLEAN])
    BY <1>1 DEF TypeOK
  <2>2. /\ Head(addQ) \in [acct : Accounts, open : BOOLEAN]
        /\ Tail(addQ) \in Seq([acct : Accounts, open : BOOLEAN])
    BY <1>2, <2>1, HeadTailProperties
  <2> QED
    BY <1>2, <2>2
<1> HIDE DEF a, o
<1>4. CASE sess[a].play = "loading"
  <2>1. sess' = sess /\ queue' = queue
    BY <1>2, <1>4 DEF AddSession_
  <2>2. (IdleSlot' <=> IdleSlot) /\ (Overfull' <=> Overfull) /\ Inside' = Inside
    BY <1>2, <2>1, SlotsUnchanged
  <2>3. IdleOnlyRaised' /\ NoOverfill' /\ raised' \in BOOLEAN /\ lowered' \in BOOLEAN
    BY <1>1, <1>2, <2>2, HistoryStep
  <2>4. TypeOK'
    BY <1>1, <1>2, <1>3, <2>1, <2>3 DEF TypeOK
  <2>5. Sound'
    BY <1>1, <1>2, <2>1
       DEF Sound, QueueExact, NoStuckWaiter, WaitersDontPlay, ShutdownOrder, Kicked
  <2> QED
    BY <2>2, <2>3, <2>4, <2>5 DEF SessionInv, Overtakes
<1>5. CASE sess[a].play # "loading"
  <2>1. /\ LetIn(a) /\ InOrder(a) /\ SlotsKept(a)
        /\ NewcomerFair(a) /\ Entered(a, o)
    BY <1>2, <1>3, <1>5, InvWorldOK, AddEffect
  <2>2. PICK wait \in BOOLEAN :
            /\ sess'[a] = [NewSession(o) EXCEPT !.inQueue = wait, !.init = ~wait]
            /\ a \in ToSet(queue') <=> wait
    BY <2>1 DEF Entered
  <2>3. /\ sess'[a] \in Session /\ sess'[a].play = "none"
        /\ (sess'[a].inQueue <=> wait) /\ (sess'[a].init <=> ~wait)
    BY <1>3, <2>2 DEF NewSession, Session
  <2>4. /\ sess' \in Sessions /\ queue' \in Seq(Accounts) /\ IsInjective(queue')
        /\ ToSet(queue') \subseteq Online(sess')
    BY <2>1 DEF LetIn, WorldOK, World
  <2>5. \A b \in Accounts \ {a} :
            /\ (sess'[b] = NoSession) <=> (sess[b] = NoSession)
            /\ sess'[b].play = sess[b].play /\ (Kicked(b)' <=> Kicked(b))
            /\ b \in ToSet(queue') => sess'[b].inQueue /\ ~sess'[b].init
            /\ sess'[b].inQueue => sess'[b].play = "none"
            /\ sess'[b].inQueue /\ sess'[b].open => b \in ToSet(queue') \/ sess'[b].init
    BY <1>3, <2>1, OthersKept
  <2>6. stop' = "no" /\ Overfull' => Overfull
    <3>1. \A x : Privileged(x)' <=> Privileged(x)
      BY <1>2 DEF Privileged, HasRecentlyDisconnected
    <3> DEFINE U == {x \in Inside : ~Privileged(x)}
               V == {x \in Inside' : ~Privileged(x)}
    <3>2. Overfull' <=> limit > 0 /\ Cardinality(V) > limit
      <4>1. {x \in Inside' : ~Privileged(x)'} = V
        BY <3>1
      <4> QED
        BY <1>2, <4>1 DEF Overfull
    <3>3. U \in SUBSET Accounts /\ V \in SUBSET Accounts /\ Inside' \in SUBSET Accounts
      BY DEF Inside, Online
    <3>4. /\ IsFiniteSet(U) /\ IsFiniteSet(V) /\ IsFiniteSet(Inside')
          /\ Cardinality(U) \in Nat /\ Cardinality(V) \in Nat /\ Cardinality(Inside') \in Nat
      BY <3>3, FiniteAccounts
    <3>5. Cardinality(V) =< Cardinality(Inside')
      BY <3>4, FS_Subset
    <3>6. CASE V \subseteq Inside
      <4>1. V \subseteq U
        BY <3>6
      <4>2. Cardinality(V) =< Cardinality(U)
        BY <3>4, <4>1, FS_Subset
      <4> QED
        BY <3>2, <3>4, <4>2, InvWorldOK DEF Overfull
    <3>7. CASE limit = 0 \/ Cardinality(Inside') =< limit
      BY <3>2, <3>4, <3>5, <3>7, InvWorldOK
    <3>8. CASE a \notin V /\ Inside' \ {a} \subseteq Inside
      <4>1. V \subseteq Inside
        BY <3>8
      <4> QED
        BY <3>6, <4>1
    <3>9. CASE a \notin V /\ Cardinality(Inside' \ {a}) =< limit
      <4>1. V \subseteq Inside' \ {a} /\ Inside' \ {a} \in SUBSET Accounts
        BY <3>3, <3>9
      <4>2. /\ Cardinality(V) =< Cardinality(Inside' \ {a})
            /\ Cardinality(Inside' \ {a}) \in Nat
        BY <4>1, FiniteAccounts, FS_Subset
      <4> QED
        BY <3>2, <3>4, <3>9, <4>2, InvWorldOK
    <3> QED
      BY <2>1, <3>7, <3>8, <3>9 DEF SlotsKept, NewcomerFair
  <2>7. IdleOnlyRaised' /\ NoOverfill' /\ raised' \in BOOLEAN /\ lowered' \in BOOLEAN
    BY <1>1, <1>2, <2>1, <2>6, HistoryStep DEF SlotsKept
  <2>8. TypeOK'
    BY <1>1, <1>2, <1>3, <2>4, <2>7 DEF TypeOK, Sessions
  <2>9. QueueExact' /\ NoStuckWaiter' /\ WaitersDontPlay'
    <3>1. \A b \in Accounts : b \in ToSet(queue') => sess'[b].inQueue /\ ~sess'[b].init
      BY <2>2, <2>3, <2>5
    <3>2. QueueExact'
      BY <2>4, <3>1 DEF QueueExact, Online
    <3> QED
      BY <2>2, <2>3, <2>5, <3>2 DEF NoStuckWaiter, WaitersDontPlay
  <2>10. ShutdownOrder'
    <3>1. stop = "kicked" =>
            \A b \in Online(sess') : Kicked(b)' \/ sess'[b].play = "none"
      BY <1>1, <2>3, <2>5 DEF ShutdownOrder, Online
    <3> QED
      BY <1>2, <3>1 DEF ShutdownOrder
  <2>11. ASSUME NEW x, NEW b, Overtakes(x, b)
         PROVE  FALSE
    <3>1. x = a
      BY <1>3, <2>1, <2>11, NobodyElseOvertakes
    <3>2. IdleSlot
      BY <2>1, <2>11, <3>1 DEF NewcomerFair, Overtakes
    <3> QED
      BY <1>1, <2>11, <3>2 DEF IdleOnlyRaised, Overtakes
  <2> QED
    BY <2>7, <2>8, <2>9, <2>10, <2>11 DEF SessionInv, Sound
<1> QED
  BY <1>4, <1>5

(* The end of a session keeps the invariant and the order.                 *)
LEMMA EndKeeps ==
  ASSUME SessionInv, History, NEW a \in Accounts, UpdateEnd(a)
  PROVE  SessionInv' /\ \A x, b : ~Overtakes(x, b)
<1>1. /\ TypeOK /\ QueueExact /\ NoStuckWaiter /\ WaitersDontPlay /\ ShutdownOrder
      /\ IdleOnlyRaised /\ NoOverfill
  BY DEF SessionInv, Sound
<1>2. /\ a \in todo /\ todo' = todo \ {a} /\ disc \subseteq disc' /\ disc' \subseteq Accounts
      /\ addQ' = addQ /\ limit' = limit /\ stop' = stop
  BY <1>1 DEF UpdateEnd, TypeOK
<1>3. /\ LetIn(a) /\ InOrder(a) /\ SlotsKept(a)
      /\ sess'[a] = NoSession /\ a \notin ToSet(queue')
  <2>1. a \in Online(sess)
    BY <1>1, <1>2 DEF TypeOK
  <2> QED
    BY <2>1, InvWorldOK, EndEffect
<1>4. /\ sess' \in Sessions /\ queue' \in Seq(Accounts) /\ IsInjective(queue')
      /\ ToSet(queue') \subseteq Online(sess')
  BY <1>3 DEF LetIn, WorldOK, World
<1>5. \A b \in Accounts \ {a} :
          /\ (sess'[b] = NoSession) <=> (sess[b] = NoSession)
          /\ sess'[b].play = sess[b].play /\ (Kicked(b)' <=> Kicked(b))
          /\ b \in ToSet(queue') => sess'[b].inQueue /\ ~sess'[b].init
          /\ sess'[b].inQueue => sess'[b].play = "none"
          /\ sess'[b].inQueue /\ sess'[b].open => b \in ToSet(queue') \/ sess'[b].init
  BY <1>3, OthersKept
<1>6. a \notin Inside' /\ ~sess'[a].inQueue /\ sess'[a].play # "in"
  BY <1>3 DEF Inside, Online, NoSession
<1>7. Overfull' => Overfull
  <2> DEFINE U == {x \in Inside : ~Privileged(x)}
             V == {x \in Inside' : ~Privileged(x)'}
  <2>1. \A x : Privileged(x) => Privileged(x)'
    BY <1>2 DEF Privileged, HasRecentlyDisconnected
  <2>2. U \in SUBSET Accounts /\ V \in SUBSET Accounts /\ Inside' \in SUBSET Accounts
    BY DEF Inside, Online
  <2>3. /\ IsFiniteSet(U) /\ IsFiniteSet(V) /\ IsFiniteSet(Inside')
        /\ Cardinality(U) \in Nat /\ Cardinality(V) \in Nat /\ Cardinality(Inside') \in Nat
    BY <2>2, FiniteAccounts
  <2>4. Overfull' <=> limit > 0 /\ Cardinality(V) > limit
    BY <1>2 DEF Overfull
  <2>5. Inside' \ {a} = Inside'
    BY <1>6
  <2>6. CASE limit = 0 \/ Cardinality(Inside') =< limit
    <3>1. Cardinality(V) =< Cardinality(Inside')
      BY <2>3, FS_Subset
    <3> QED
      BY <2>3, <2>4, <2>6, <3>1, InvWorldOK
  <2>7. CASE Inside' \subseteq Inside
    <3>1. V \subseteq U
      BY <2>1, <2>7
    <3>2. Cardinality(V) =< Cardinality(U)
      BY <2>3, <3>1, FS_Subset
    <3> QED
      BY <2>3, <2>4, <3>2, InvWorldOK DEF Overfull
  <2> QED
    BY <1>3, <2>5, <2>6, <2>7 DEF SlotsKept
<1>8. IdleOnlyRaised' /\ NoOverfill' /\ raised' \in BOOLEAN /\ lowered' \in BOOLEAN
  BY <1>1, <1>2, <1>3, <1>7, HistoryStep DEF SlotsKept
<1>9. TypeOK'
  <2>1. todo' \subseteq Online(sess')
    BY <1>1, <1>2, <1>5 DEF TypeOK, Online
  <2> QED
    BY <1>1, <1>2, <1>4, <1>8, <2>1 DEF TypeOK, Sessions
<1>10. QueueExact' /\ NoStuckWaiter' /\ WaitersDontPlay'
  <2>1. \A b \in Accounts : b \in ToSet(queue') => sess'[b].inQueue /\ ~sess'[b].init
    BY <1>3, <1>5
  <2>2. QueueExact'
    BY <1>4, <2>1 DEF QueueExact, Online
  <2> QED
    BY <1>5, <1>6, <2>2 DEF NoStuckWaiter, WaitersDontPlay
<1>11. ShutdownOrder'
  <2>1. stop = "no" \/ stop = "pass"
    BY <1>1, <1>2 DEF ShutdownOrder, TypeOK
  <2> QED
    BY <1>1, <1>2, <1>5, <1>6, <2>1 DEF ShutdownOrder
<1>12. \A x, b : ~Overtakes(x, b)
  <2>1. \A b : ~Overtakes(a, b)
    BY <1>6 DEF Overtakes
  <2> QED
    BY <1>3, <2>1, NobodyElseOvertakes
<1> QED
  BY <1>8, <1>9, <1>10, <1>11, <1>12 DEF SessionInv, Sound

(* Steps that leave sessions and queue alone, a change of the limit        *)
(* included.                                                               *)
LEMMA QuietKeeps ==
  ASSUME SessionInv, History, sess' = sess, queue' = queue, disc' = disc, limit' \in Limits,
         addQ' \in Seq([acct : Accounts, open : BOOLEAN]), todo' \subseteq Online(sess),
         stop' \in {"no", "kicked", "pass", "done"}, stop' = "no" => stop = "no",
         ShutdownOrder'
  PROVE  SessionInv' /\ \A x, b : ~Overtakes(x, b)
<1>1. Inside' = Inside
  BY DEF Inside
<1>2. limit \in Nat /\ limit' \in Nat
  BY InvWorldOK, QueueAssumption
<1>3. IdleSlot' => IdleSlot \/ Above(limit', limit)
  <2> DEFINE k == GetActiveSessionCount(World)
  <2>1. k = Cardinality(Inside) /\ GetActiveSessionCount(World)' = k
    BY InvWorldOK, ActiveIsInside DEF Ins, Inside, World, GetActiveSessionCount
  <2>2. k \in Nat
    BY <2>1, FiniteAccounts DEF Inside, Online
  <2>3. IdleSlot' <=> queue # <<>> /\ (limit' = 0 \/ k < limit')
    BY <2>1 DEF IdleSlot, HasRoom
  <2>4. IdleSlot <=> queue # <<>> /\ (limit = 0 \/ k < limit)
    BY DEF IdleSlot, HasRoom
  <2> HIDE DEF k
  <2> QED
    BY <1>2, <2>2, <2>3, <2>4 DEF Above
<1>4. Overfull' => Overfull \/ Above(limit, limit')
  <2> DEFINE U == {x \in Inside : ~Privileged(x)}
  <2>1. Cardinality(U) \in Nat
    BY FiniteAccounts DEF Inside, Online
  <2>2. {x \in Inside' : ~Privileged(x)'} = U
    BY <1>1 DEF Privileged, HasRecentlyDisconnected
  <2>3. Overfull' <=> limit' > 0 /\ Cardinality(U) > limit'
    BY <2>2 DEF Overfull
  <2>4. Overfull <=> limit > 0 /\ Cardinality(U) > limit
    BY DEF Overfull
  <2> HIDE DEF U
  <2> QED
    BY <1>2, <2>1, <2>3, <2>4 DEF Above
<1>5. IdleOnlyRaised' /\ NoOverfill' /\ raised' \in BOOLEAN /\ lowered' \in BOOLEAN
  BY <1>3, <1>4, HistoryStep DEF SessionInv
<1>6. TypeOK'
  BY <1>5 DEF SessionInv, TypeOK
<1>7. Sound'
  BY DEF SessionInv, Sound, QueueExact, NoStuckWaiter, WaitersDontPlay
<1> QED
  BY <1>1, <1>5, <1>6, <1>7 DEF SessionInv, Overtakes

(* KickAll.                                                                *)
LEMMA KickKeeps ==
  ASSUME SessionInv, History, KickAll
  PROVE  SessionInv' /\ \A x, b : ~Overtakes(x, b)
<1>1. /\ TypeOK /\ WaitersDontPlay /\ IdleOnlyRaised /\ NoOverfill
      /\ todo = {} /\ todo' = todo /\ stop' = "kicked" /\ queue' = <<>>
      /\ addQ' = addQ /\ limit' = limit /\ disc' = disc
      /\ sess' = [a \in Accounts |->
                    IF a \in Online(sess) THEN KickPlayer(sess[a]) ELSE NoSession]
  BY DEF SessionInv, Sound, KickAll
<1>2. \A a \in Online(sess) :
        /\ a \in Accounts /\ sess[a] \in Session
        /\ KickPlayer(sess[a]) \in Session /\ ~KickPlayer(sess[a]).open
        /\ KickPlayer(sess[a]).forceExit
        /\ KickPlayer(sess[a]).play = sess[a].play
        /\ KickPlayer(sess[a]).inQueue <=> sess[a].inQueue
  <2>1. \A a \in Online(sess) : a \in Accounts /\ sess[a] \in Session
    BY <1>1 DEF TypeOK, Online
  <2> QED
    BY <2>1 DEF Session, KickPlayer
<1>3. \A a \in Accounts :
        sess'[a] = IF a \in Online(sess) THEN KickPlayer(sess[a]) ELSE NoSession
  BY <1>1
<1>4. sess' \in Sessions /\ Online(sess') = Online(sess)
  <2>1. sess' \in Sessions
    BY <1>1, <1>2 DEF Sessions
  <2> QED
    BY <1>2, <1>3, <2>1, NoSessionIsNone DEF Online
<1>5. ToSet(queue') = {} /\ IsInjective(queue') /\ queue' \in Seq(Accounts)
  BY <1>1, EmptyQueue
<1>6. ~IdleSlot'
  BY <1>1 DEF IdleSlot
<1>7. IdleOnlyRaised' /\ NoOverfill' /\ raised' \in BOOLEAN /\ lowered' \in BOOLEAN
  BY <1>1, <1>6, HistoryStep
<1>8. TypeOK'
  BY <1>1, <1>4, <1>5, <1>7 DEF TypeOK, Sessions
<1>9. \A a \in Accounts :
        /\ ~sess'[a].open
        /\ sess'[a].inQueue => sess'[a].play = "none"
        /\ a \in Online(sess') => Kicked(a)'
  <2>1. \A a \in Accounts \ Online(sess) : ~sess'[a].open /\ ~sess'[a].inQueue
    BY <1>3 DEF NoSession
  <2> QED
    BY <1>1, <1>2, <1>3, <1>4, <2>1 DEF WaitersDontPlay, Kicked
<1>10. Sound'
  <2>1. QueueExact'
    BY <1>5 DEF QueueExact
  <2>2. NoStuckWaiter' /\ WaitersDontPlay'
    BY <1>9 DEF NoStuckWaiter, WaitersDontPlay
  <2>3. \A a \in Online(sess') : Kicked(a)'
    BY <1>9 DEF Online
  <2>4. ShutdownOrder'
    BY <1>1, <2>3 DEF ShutdownOrder
  <2> QED
    BY <2>1, <2>2, <2>4 DEF Sound
<1> QED
  BY <1>5, <1>7, <1>8, <1>10 DEF SessionInv, Overtakes

(* A socket closes.                                                        *)
LEMMA CloseKeeps ==
  ASSUME SessionInv, History, NEW a \in Accounts, CloseSocket(a)
  PROVE  SessionInv' /\ \A x, b : ~Overtakes(x, b)
<1> DEFINE r == [sess[a] EXCEPT !.open = FALSE]
<1>1. /\ TypeOK /\ QueueExact /\ NoStuckWaiter /\ WaitersDontPlay /\ ShutdownOrder
      /\ IdleOnlyRaised /\ NoOverfill
  BY DEF SessionInv, Sound
<1>2. /\ sess[a].open /\ sess' = [sess EXCEPT ![a] = r]
      /\ addQ' = addQ /\ queue' = queue /\ limit' = limit /\ disc' = disc
      /\ todo' = todo /\ stop' = stop
  BY <1>1 DEF CloseSocket, TypeOK
<1>3. a \in Online(sess) /\ sess[a] \in Session
  BY <1>1, <1>2 DEF TypeOK, Online, NoSession
<1>4. /\ r \in Session /\ ~r.open /\ r.play = sess[a].play
      /\ (r.inQueue <=> sess[a].inQueue) /\ (r.init <=> sess[a].init)
  BY <1>3 DEF Session
<1> HIDE DEF r
<1>5. /\ sess' \in [Accounts -> Session \cup {NoSession}]
      /\ Online(sess') = Online(sess) /\ sess'[a] = r
      /\ \A b \in Accounts \ {a} : sess'[b] = sess[b]
  BY <1>1, <1>2, <1>3, <1>4, AssignSession
<1>6. (IdleSlot' <=> IdleSlot) /\ (Overfull' <=> Overfull) /\ Inside' = Inside
  BY <1>2, <1>5, SlotsUnchanged
<1>7. IdleOnlyRaised' /\ NoOverfill' /\ raised' \in BOOLEAN /\ lowered' \in BOOLEAN
  BY <1>1, <1>2, <1>6, HistoryStep
<1>8. TypeOK'
  BY <1>1, <1>2, <1>5, <1>7 DEF TypeOK
<1>9. QueueExact' /\ NoStuckWaiter' /\ WaitersDontPlay'
  BY <1>1, <1>2, <1>4, <1>5 DEF QueueExact, NoStuckWaiter, WaitersDontPlay
<1>10. ShutdownOrder'
  <2>1. ~Kicked(a) /\ \A b \in Accounts \ {a} : Kicked(b)' <=> Kicked(b)
    BY <1>2, <1>5 DEF Kicked
  <2> QED
    BY <1>1, <1>2, <1>4, <1>5, <2>1 DEF ShutdownOrder, Online
<1> QED
  BY <1>6, <1>7, <1>8, <1>9, <1>10 DEF SessionInv, Sound, Overtakes

(* A new server.                                                           *)
LEMMA InitSession == Init => SessionInv
<1> SUFFICES ASSUME Init PROVE SessionInv
  OBVIOUS
<1>1. /\ addQ = <<>> /\ queue = <<>> /\ sess = [a \in Accounts |-> NoSession]
      /\ limit \in Limits /\ disc = {} /\ todo = {} /\ stop = "no"
      /\ raised = FALSE /\ lowered = FALSE
  BY DEF Init
<1>2. Online(sess) = {} /\ \A a \in Accounts : ~sess[a].inQueue
  BY <1>1 DEF Online, NoSession
<1>3. addQ \in Seq([acct : Accounts, open : BOOLEAN])
  BY <1>1
<1>4. TypeOK
  BY <1>1, <1>3, EmptyQueue DEF TypeOK
<1>5. Sound
  BY <1>1, <1>2, EmptyQueue
     DEF Sound, QueueExact, NoStuckWaiter, WaitersDontPlay, ShutdownOrder
<1>6. ~IdleSlot
  BY <1>1 DEF IdleSlot
<1>7. ~Overfull
  <2>1. {a \in Inside : ~Privileged(a)} = {} /\ Cardinality({}) = 0
    BY <1>2, FS_EmptySet DEF Inside
  <2>2. limit \in Nat
    BY <1>1, QueueAssumption
  <2> QED
    BY <2>1, <2>2 DEF Overfull
<1> QED
  BY <1>4, <1>5, <1>6, <1>7 DEF SessionInv, IdleOnlyRaised, NoOverfill

(* Every step keeps the invariant and the order.                           *)
LEMMA NextSession ==
  ASSUME SessionInv, Next
  PROVE  SessionInv' /\ \A x, b : ~Overtakes(x, b)
<1>1. /\ TypeOK /\ ShutdownOrder /\ History /\ Step
      /\ addQ \in Seq([acct : Accounts, open : BOOLEAN])
  BY DEF SessionInv, Sound, Next, TypeOK
<1>2. ASSUME NEW i \in DOMAIN addQ, CloseNew(i)
      PROVE  SessionInv' /\ \A x, b : ~Overtakes(x, b)
  <2>1. /\ addQ' = [addQ EXCEPT ![i].open = FALSE] /\ sess' = sess /\ queue' = queue
        /\ limit' = limit /\ disc' = disc /\ todo' = todo /\ stop' = stop
    BY <1>2 DEF CloseNew
  <2>2. addQ' \in Seq([acct : Accounts, open : BOOLEAN])
    <3> DEFINE R == [acct : Accounts, open : BOOLEAN]
               y == [addQ[i] EXCEPT !.open = FALSE]
    <3>1. addQ \in Seq(R)
      BY <1>1
    <3>2. \A z \in R : [z EXCEPT !.open = FALSE] \in R
      OBVIOUS
    <3> HIDE DEF R
    <3>3. i \in 1 .. Len(addQ) /\ addQ[i] \in R
      BY <1>2, <3>1
    <3>4. y \in R /\ addQ' = [addQ EXCEPT ![i] = y]
      BY <2>1, <3>2, <3>3
    <3> HIDE DEF y
    <3>5. addQ' \in Seq(R)
      BY <3>1, <3>3, <3>4
    <3> QED
      BY <3>5 DEF R
  <2>3. ShutdownOrder'
    BY <1>1, <2>1 DEF ShutdownOrder, Kicked
  <2> QED
    BY <1>1, <2>1, <2>2, <2>3, QuietKeeps DEF TypeOK
<1>3. CASE BeginPass
  <2>1. /\ addQ' = addQ /\ sess' = sess /\ queue' = queue /\ todo' = Online(sess)
        /\ limit' = limit /\ disc' = disc
        /\ stop \in {"no", "kicked"} /\ stop' = IF stop = "kicked" THEN "pass" ELSE stop
    BY <1>3 DEF BeginPass
  <2>2. \A a \in Accounts \ Online(sess) : sess[a].play # "in"
    BY DEF Online, NoSession
  <2>3. ShutdownOrder'
    BY <1>1, <2>1, <2>2 DEF ShutdownOrder, Kicked
  <2> QED
    BY <1>1, <2>1, <2>3, QuietKeeps DEF TypeOK
<1>4. ASSUME NEW a \in Accounts, AuthSession(a)
      PROVE  SessionInv' /\ \A x, b : ~Overtakes(x, b)
  <2>1. /\ addQ' = Append(addQ, [acct |-> a, open |-> TRUE]) /\ sess' = sess
        /\ queue' = queue /\ limit' = limit /\ disc' = disc /\ todo' = todo /\ stop' = stop
    BY <1>4 DEF AuthSession
  <2>2. addQ' \in Seq([acct : Accounts, open : BOOLEAN])
    BY <1>1, <2>1
  <2>3. ShutdownOrder'
    BY <1>1, <2>1 DEF ShutdownOrder, Kicked
  <2> QED
    BY <1>1, <2>1, <2>2, <2>3, QuietKeeps DEF TypeOK
<1>5. ASSUME NEW n \in Limits, SetPlayerAmountLimit(n)
      PROVE  SessionInv' /\ \A x, b : ~Overtakes(x, b)
  <2>1. /\ addQ' = addQ /\ sess' = sess /\ queue' = queue /\ limit' = n /\ disc' = disc
        /\ todo' = todo /\ stop' = stop
    BY <1>5 DEF SetPlayerAmountLimit
  <2>2. ShutdownOrder'
    BY <1>1, <2>1 DEF ShutdownOrder, Kicked
  <2> QED
    BY <1>1, <2>1, <2>2, QuietKeeps DEF TypeOK
<1>6. CASE EndLastPass
  <2>1. /\ addQ' = addQ /\ sess' = sess /\ queue' = queue /\ limit' = limit /\ disc' = disc
        /\ todo' = todo /\ todo = {} /\ stop = "pass" /\ stop' = "done"
    BY <1>6 DEF EndLastPass
  <2>2. ShutdownOrder'
    BY <1>1, <2>1 DEF ShutdownOrder
  <2> QED
    BY <1>1, <2>1, <2>2, QuietKeeps DEF TypeOK
<1>7. ASSUME NEW a \in Accounts,
             \/ UpdateNothing(a) \/ UpdateIdle(a) \/ UpdateLogin(a) \/ UpdateInit(a)
             \/ UpdateLoaded(a) \/ UpdateLogout(a)
      PROVE  SessionInv' /\ \A x, b : ~Overtakes(x, b)
  BY <1>1, <1>7, VisitsAreSound DEF Overtakes
<1> QED
  BY <1>1, <1>2, <1>3, <1>4, <1>5, <1>6, <1>7, AddKeeps, EndKeeps, KickKeeps, CloseKeeps
     DEF Step

(* A step that changes nothing.                                            *)
LEMMA StutterSession ==
  ASSUME SessionInv, UNCHANGED vars
  PROVE  SessionInv' /\ \A x, b : ~Overtakes(x, b)
<1>1. /\ addQ' = addQ /\ sess' = sess /\ queue' = queue /\ limit' = limit /\ disc' = disc
      /\ todo' = todo /\ stop' = stop /\ raised' = raised /\ lowered' = lowered
  BY DEF vars
<1>2. (IdleSlot' <=> IdleSlot) /\ (Overfull' <=> Overfull) /\ Inside' = Inside
  BY <1>1, SlotsUnchanged
<1>3. TypeOK' /\ Sound'
  BY <1>1 DEF SessionInv, TypeOK, Sound, QueueExact, NoStuckWaiter, WaitersDontPlay,
              ShutdownOrder, Kicked
<1> QED
  BY <1>1, <1>2, <1>3 DEF SessionInv, IdleOnlyRaised, NoOverfill, Overtakes

(* World::AddSession_, RemoveQueuedPlayer and the visits of UpdateSessions *)
(* keep the inductive invariant, whatever the network threads do between   *)
(* them.                                                                   *)
THEOREM SessionInvariant == Spec => []SessionInv
<1>1. SessionInv /\ [Next]_vars => SessionInv'
  BY NextSession, StutterSession
<1> QED
  BY <1>1, InitSession, PTL DEF Spec

(* The state keeps its types; a pass only visits sessions of m_sessions.   *)
THEOREM SessionTypes == Spec => []TypeOK
<1>1. SessionInv => TypeOK
  BY DEF SessionInv
<1> QED
  BY <1>1, SessionInvariant, PTL

(* Every entry of m_QueuedPlayer is a session of m_sessions, once, marked  *)
(* as waiting and not let in: no deleted session is ever popped.           *)
THEOREM QueueIsExact == Spec => []QueueExact
<1>1. SessionInv => QueueExact
  BY DEF SessionInv, Sound
<1> QED
  BY <1>1, SessionInvariant, PTL

(* A connected client that is held back by m_inQueue stands in the queue   *)
(* or has InitializeSession under way.                                     *)
THEOREM NobodyIsStuck == Spec => []NoStuckWaiter
<1>1. SessionInv => NoStuckWaiter
  BY DEF SessionInv, Sound
<1> QED
  BY <1>1, SessionInvariant, PTL

(* No character is loading or in the world on a session in the queue, or   *)
(* on one that was popped and waits for InitializeSessionCallback.         *)
THEOREM NobodyPlaysWaiting == Spec => []NoPlayInQueue
<1>1. SessionInv => NoPlayInQueue
  BY DEF SessionInv, Sound, QueueExact, WaitersDontPlay, NoPlayInQueue
<1> QED
  BY <1>1, SessionInvariant, PTL

(* Unless SetPlayerAmountLimit raised the limit, somebody waits only while *)
(* players and staff inside reach it: every way out of the world pops the  *)
(* queue.                                                                  *)
THEOREM NoSlotIsIdle == Spec => []NoIdleSlot
<1>1. SessionInv => NoIdleSlot
  <2> SUFFICES ASSUME SessionInv, queue # <<>>, ~raised
               PROVE  /\ limit > 0
                      /\ Cardinality(Inside \ Staff) + Cardinality(Inside \cap Staff) >= limit
    BY DEF NoIdleSlot
  <2>1. limit \in Nat /\ IsFiniteSet(Inside)
    <3>1. limit \in Nat /\ Inside \subseteq Accounts
      BY QueueAssumption DEF SessionInv, TypeOK, Inside, Online
    <3> QED
      BY <3>1, QueueAssumption, FS_Subset
  <2>2. Cardinality(Inside) \in Nat
    BY <2>1, FS_CardinalityType
  <2>3. GetActiveSessionCount(World) = Cardinality(Inside)
    BY InvWorldOK, ActiveIsInside DEF Ins, Inside, World
  <2>4. limit > 0 /\ Cardinality(Inside) >= limit
    BY <2>1, <2>2, <2>3 DEF SessionInv, IdleOnlyRaised, IdleSlot, HasRoom
  <2>5. PICK I : I = Inside
    OBVIOUS
  <2>6. Cardinality(I \ Staff) = Cardinality(I) - Cardinality(I \cap Staff)
    BY <2>1, <2>5, FS_Difference
  <2>7. Cardinality(I \cap Staff) \in Nat
    BY <2>1, <2>5, FS_Subset, FS_CardinalityType
  <2> QED
    BY <2>2, <2>4, <2>5, <2>6, <2>7
<1> QED
  BY <1>1, SessionInvariant, PTL

(* Sessions without a privilege exceed m_playerLimit only after it was     *)
(* lowered: neither the second RemoveQueuedPlayer of a visit nor the count *)
(* of AddSession_ gives a slot away twice.                                 *)
THEOREM NoSlotIsSharedOut == Spec => []NoOverfill
<1>1. SessionInv => NoOverfill
  BY DEF SessionInv
<1> QED
  BY <1>1, SessionInvariant, PTL

(* After KickAll and the last UpdateSessions no player is in the world.    *)
THEOREM ShutdownSavesAll == Spec => []AllSaved
<1>1. SessionInv => AllSaved
  BY DEF SessionInv, Sound, ShutdownOrder, AllSaved
<1> QED
  BY <1>1, SessionInvariant, PTL

(* Nobody who goes on waiting is overtaken by somebody without a privilege *)
(* unless the limit was raised.                                            *)
THEOREM NobodyIsOvertaken == Spec => FirstCome
<1> DEFINE Fair == \A a \in Inside' \ Inside, b \in ToSet(queue) \cap ToSet(queue') :
                    \/ raised \/ Privileged(a)
                    \/ \E i, j \in DOMAIN queue : i < j /\ queue[i] = a /\ queue[j] = b
<1>1. SessionInv /\ [Next]_vars => [Fair]_vars
  <2> SUFFICES ASSUME SessionInv, [Next]_vars PROVE Fair
    OBVIOUS
  <2>1. \A x, b : ~Overtakes(x, b)
    BY NextSession, StutterSession
  <2> QED
    BY <2>1 DEF Overtakes, Ahead
<1> QED
  BY <1>1, SessionInvariant, PTL DEF Spec, FirstCome
=============================================================================
