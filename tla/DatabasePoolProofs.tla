-------------------------- MODULE DatabasePoolProofs --------------------------
(***************************************************************************)
(* Theorems about DatabasePool for any number of connections, operations   *)
(* and statements and any number of faults of the server.                  *)
(***************************************************************************)
EXTENDS DatabasePool, SequenceTheorems, FiniteSetTheorems, TLAPS

Kinds == {"refused", "deadlock", "begin", "rollback", "commit", "lost", "open"}
Rows == Ops \X (1 .. Size)

(* Of the statements in a sequence, those of an operation: there are none, *)
(* each is there once, they come before the n-th of the operation, and all *)
(* of the sequence is the first n statements of the operation.             *)
Free(s, op) == \A k \in 1 .. Len(s) : s[k][1] # op
Distinct(s, op) == \A k, l \in 1 .. Len(s) : s[k] = s[l] /\ s[k][1] = op => k = l
Behind(s, op, n) == \A k \in 1 .. Len(s) : s[k][1] = op => s[k][2] < n
Prefix(s, op, n) == Len(s) = n /\ \A k \in 1 .. n : s[k] = <<op, k>>

(* The statements of an operation are sent in their order: unless one was  *)
(* sent again, those that took effect come before the one at pos, and none *)
(* is durable while others of it wait for a COMMIT.                        *)
Paced(c) == phase[c] \in {"begin", "stmt"} =>
    /\ phase[c] = "begin" => pos[c] = 1
    /\ Behind(db, job[c], pos[c]) /\ Behind(unc[c], job[c], pos[c])
    /\ c \in tx => Free(db, job[c])

(* How far an operation that is not torn is: nothing is durable yet, the   *)
(* open transaction holds the statements before pos and no others, and     *)
(* after a failure none of them.                                           *)
InHand(c) ==
    /\ Free(db, job[c])
    /\ phase[c] = "stmt" /\ job[c] \notin Singles /\ c \notin down => c \in tx
    /\ phase[c] = "stmt" /\ job[c] \notin Singles /\ c \in tx => Prefix(unc[c], job[c], pos[c] - 1)
    /\ phase[c] = "commit" => c \in tx /\ Prefix(unc[c], job[c], Size)
    /\ phase[c] = "failed" => Free(unc[c], job[c])

(* A connection works for one operation, which is not over yet, and it is  *)
(* never in a second try.                                                  *)
ConnOK(c) ==
    /\ job[c] = NoOp <=> phase[c] = "idle"
    /\ job[c] \in Async => c \in Workers
    /\ job[c] \in Directs => c \in Synch
    /\ job[c] \in Singles => phase[c] = "stmt" /\ pos[c] = 1
    /\ job[c] # NoOp => outcome[job[c]] = "none"
    /\ tries[c] = 0 /\ (c \in down => errno[c] = "none")
    /\ phase[c] = "failed" => errno[c] # "deadlock"
    /\ job[c] # NoOp /\ ~Met(job[c], "lost") => Paced(c)
    /\ job[c] # NoOp /\ ~Torn(job[c]) => InHand(c)

(* An open transaction of c holds statements of q: q is in work there, or  *)
(* over and torn, or over and reported done and wholly there, so that it   *)
(* takes effect as a whole when another operation's START TRANSACTION or   *)
(* COMMIT ends the transaction; and q is nowhere else.                     *)
Left(c, q) ==
    /\ \/ q = job[c]
       \/ outcome[q] # "none" /\ Torn(q)
       \/ outcome[q] = "ok" /\ Statements(q) \subseteq Elems(unc[c])
    /\ Met(q, "lost") \/ (Free(db, q) /\ Distinct(unc[c], q))
    /\ \A d \in Conns \ {c} : Free(unc[d], q)

(* What an operation has done, in the terms of the three properties, and   *)
(* what of it is waiting in a transaction that was left open.              *)
OpInv(q) ==
    /\ Met(q, "lost") \/ Distinct(db, q)
    /\ q \notin Singles /\ ~Torn(q) => Durable(q) \in {{}, Statements(q)}
    /\ ~Torn(q) /\ ~Met(q, "commit") /\ ~Met(q, "open") =>
        /\ outcome[q] = "ok" => Durable(q) = Statements(q)
        /\ outcome[q] = "failed" => Durable(q) = {}
    /\ \A c \in Conns : Free(unc[c], q) \/ Left(c, q)

(* Operations that have not been started.                                  *)
Pending(op) ==
    \/ op \in Elems(queue) \/ op \in Async \ Elems(order)
    \/ op \in Directs /\ pool = "open" /\ outcome[op] = "none" /\ \A c \in Conns : job[c] # op

(* The queue names each operation once; one that has not been started is   *)
(* with no connection and has left no trace; one that has is with one.     *)
Accounted ==
    /\ \A i, j \in 1 .. Len(queue) : queue[i] = queue[j] => i = j
    /\ Elems(queue) \subseteq Elems(order)
    /\ \A op \in Ops : Pending(op) =>
        outcome[op] = "none" /\ Free(db, op) /\ \A c \in Conns : job[c] # op
    /\ \A c, d \in Conns : job[c] = job[d] /\ job[c] # NoOp => c = d

(* The inductive invariant.                                                *)
PoolInv ==
    /\ TypeOK /\ hit \in [Ops -> Seq(Kinds)]
    /\ \A c \in Conns : ConnOK(c)
    /\ \A q \in Ops : OpInv(q)
    /\ Accounted

(* Nobody locks a synchronous connection once Close has been called.       *)
Unlocked == pool = "closing" => \A c \in Synch : phase[c] = "idle"

(* Of the operations in o, the statements in s are of the first k, come in *)
(* their order, and come before those in t.                                *)
UpTo(o, s, k) == \A i \in 1 .. Len(o), m \in 1 .. Len(s) : s[m][1] = o[i] => i <= k
Sorted(o, s) == \A i, j \in 1 .. Len(o) : i < j =>
                    \A m, n \in 1 .. Len(s) : s[m][1] = o[i] /\ s[n][1] = o[j] => m < n
Before(o, s, t) == \A i, j \in 1 .. Len(o), m \in 1 .. Len(s), n \in 1 .. Len(t) :
                    s[m][1] = o[i] /\ t[n][1] = o[j] => i <= j

(* The k oldest operations have been taken off the queue, the worker has   *)
(* the last of them in hand, and nothing of a later one was done.          *)
Frontier(w, k) ==
    /\ \A i \in 1 .. Len(queue) : k + i <= Len(order) /\ queue[i] = order[k + i]
    /\ pool = "open" => Len(queue) = Len(order) - k
    /\ \A i \in 1 .. Len(order) : job[w] = order[i] => i = k
    /\ UpTo(order, db, k) /\ UpTo(order, unc[w], k)

(* Only the worker has statements of asynchronous operations.              *)
Synchronous(s) == \A m \in 1 .. Len(s) : s[m][1] \in Directs

OrderInv(w) ==
    /\ \A i, j \in 1 .. Len(order) : order[i] = order[j] => i = j
    /\ \E k \in 0 .. Len(order) : Frontier(w, k)
    /\ Sorted(order, db) /\ Sorted(order, unc[w]) /\ Before(order, db, unc[w])
    /\ \A d \in Conns \ {w} : Synchronous(unc[d])

-----------------------------------------------------------------------------
(* Sequences as sets of their elements.                                    *)
LEMMA ElemsFacts ==
  ASSUME NEW S, NEW s \in Seq(S)
  PROVE  /\ Elems(s) \subseteq S
         /\ \A i \in 1 .. Len(s) : s[i] \in Elems(s)
         /\ \A x \in Elems(s) : \E i \in 1 .. Len(s) : x = s[i]
  BY LenProperties DEF Elems

(* A new last element.                                                     *)
LEMMA ElemsAppend ==
  ASSUME NEW S, NEW s \in Seq(S), NEW x \in S
  PROVE  /\ Append(s, x) \in Seq(S) /\ Len(Append(s, x)) = Len(s) + 1
         /\ Elems(Append(s, x)) = Elems(s) \cup {x}
         /\ \A i \in 1 .. Len(s) : Append(s, x)[i] = s[i]
         /\ Append(s, x)[Len(s) + 1] = x
<1> DEFINE t == Append(s, x)
<1>1. /\ t \in Seq(S) /\ Len(s) \in Nat /\ Len(t) = Len(s) + 1
      /\ \A i \in 1 .. Len(s) : t[i] = s[i]
      /\ t[Len(s) + 1] = x
  BY AppendProperties, LenProperties
<1> HIDE DEF t
<1>2. Elems(t) \subseteq Elems(s) \cup {x}
  <2> SUFFICES ASSUME NEW i \in 1 .. Len(t) PROVE t[i] \in Elems(s) \cup {x}
    BY DEF Elems
  <2>1. CASE i = Len(s) + 1
    BY <1>1, <2>1
  <2>2. CASE i \in 1 .. Len(s)
    BY <1>1, <2>2 DEF Elems
  <2> QED
    BY <1>1, <2>1, <2>2
<1>3. x \in Elems(t)
  BY <1>1 DEF Elems
<1>4. ASSUME NEW i \in 1 .. Len(s) PROVE s[i] \in Elems(t)
  <2>1. i \in 1 .. Len(t) /\ t[i] = s[i]
    BY <1>1
  <2> QED
    BY <2>1 DEF Elems
<1>5. Elems(s) \subseteq Elems(t)
  BY <1>4 DEF Elems
<1> QED
  BY <1>1, <1>2, <1>3, <1>5 DEF t

(* Taking the first element of a sequence without repetitions.             *)
LEMMA ElemsTail ==
  ASSUME NEW S, NEW s \in Seq(S), s # <<>>,
         \A i, j \in 1 .. Len(s) : s[i] = s[j] => i = j
  PROVE  /\ Head(s) \in Elems(s) /\ Head(s) \in S /\ Head(s) = s[1]
         /\ Tail(s) \in Seq(S) /\ Len(Tail(s)) = Len(s) - 1 /\ Len(s) >= 1
         /\ \A i \in 1 .. Len(Tail(s)) : Tail(s)[i] = s[i + 1]
         /\ Elems(Tail(s)) \subseteq Elems(s) \ {Head(s)}
         /\ \A i, j \in 1 .. Len(Tail(s)) : Tail(s)[i] = Tail(s)[j] => i = j
<1> DEFINE t == Tail(s)
<1>1. /\ t \in Seq(S) /\ Len(t) = Len(s) - 1 /\ \A i \in 1 .. Len(t) : t[i] = s[i + 1]
      /\ Head(s) \in S
  BY HeadTailProperties
<1>2. Len(s) \in Nat /\ Len(s) >= 1
  BY EmptySeq, LenProperties
<1>3. Head(s) = s[1]
  OBVIOUS
<1> HIDE DEF t
<1>4. Head(s) \in Elems(s)
  BY <1>2, <1>3 DEF Elems
<1>5. ASSUME NEW i \in 1 .. Len(t)
      PROVE  t[i] \in Elems(s) /\ t[i] # Head(s) /\ \A j \in 1 .. Len(t) : t[i] = t[j] => i = j
  <2>1. i + 1 \in 1 .. Len(s) /\ 1 \in 1 .. Len(s) /\ i + 1 # 1 /\ t[i] = s[i + 1]
    BY <1>1, <1>2
  <2>2. t[i] \in Elems(s) /\ t[i] # Head(s)
    BY <1>3, <2>1 DEF Elems
  <2>3. ASSUME NEW j \in 1 .. Len(t), t[i] = t[j] PROVE i = j
    <3>1. j + 1 \in 1 .. Len(s) /\ t[j] = s[j + 1]
      BY <1>1, <1>2
    <3>2. i + 1 = j + 1
      BY <2>1, <2>3, <3>1
    <3> QED
      BY <3>2
  <2> QED
    BY <2>2, <2>3
<1>6. Elems(t) \subseteq Elems(s) \ {Head(s)}
  BY <1>5 DEF Elems
<1> QED
  BY <1>1, <1>2, <1>3, <1>4, <1>5, <1>6 DEF t

(* What a concatenation holds.                                             *)
LEMMA ConcatFacts ==
  ASSUME NEW s \in Seq(Rows), NEW t \in Seq(Rows), NEW r, r = s \o t
  PROVE  /\ r \in Seq(Rows) /\ Len(s) \in Nat /\ Len(t) \in Nat /\ Len(r) = Len(s) + Len(t)
         /\ \A i \in 1 .. Len(s) : i \in 1 .. Len(r) /\ r[i] = s[i]
         /\ \A i \in 1 .. Len(t) : i + Len(s) \in 1 .. Len(r) /\ r[i + Len(s)] = t[i]
         /\ \A i \in 1 .. Len(r) : i \in 1 .. Len(s) \/ i - Len(s) \in 1 .. Len(t)
         /\ \A i \in 1 .. Len(r) : i \notin 1 .. Len(s) => r[i] = t[i - Len(s)]
<1>1. Len(s) \in Nat /\ Len(t) \in Nat
  BY LenProperties
<1>2. /\ r \in Seq(Rows) /\ Len(r) = Len(s) + Len(t)
      /\ \A i \in 1 .. Len(s) + Len(t) : r[i] = IF i <= Len(s) THEN s[i] ELSE t[i - Len(s)]
  BY ConcatProperties
<1>3. \A i \in 1 .. Len(s) : i \in 1 .. Len(r) /\ r[i] = s[i]
  BY <1>1, <1>2
<1>4. \A i \in 1 .. Len(r) : i \in 1 .. Len(s) \/ i - Len(s) \in 1 .. Len(t)
  BY <1>1, <1>2
<1>5. \A i \in 1 .. Len(r) : i \notin 1 .. Len(s) => r[i] = t[i - Len(s)]
  BY <1>1, <1>2
<1>6. ASSUME NEW i \in 1 .. Len(t)
      PROVE  i + Len(s) \in 1 .. Len(r) /\ r[i + Len(s)] = t[i]
  <2>1. /\ i + Len(s) \in 1 .. Len(r) /\ i + Len(s) \notin 1 .. Len(s)
        /\ (i + Len(s)) - Len(s) = i
    BY <1>1, <1>2
  <2> QED
    BY <1>5, <2>1
<1> QED
  BY <1>1, <1>2, <1>3, <1>4, <1>5, <1>6

(* The statements of an operation in a concatenation.                      *)
LEMMA ConcatRows ==
  ASSUME NEW s \in Seq(Rows), NEW t \in Seq(Rows), NEW r, r = s \o t, NEW q, NEW n
  PROVE  /\ r \in Seq(Rows) /\ Elems(r) = Elems(s) \cup Elems(t)
         /\ Free(r, q) <=> Free(s, q) /\ Free(t, q)
         /\ Behind(r, q, n) <=> Behind(s, q, n) /\ Behind(t, q, n)
         /\ Distinct(s, q) /\ Free(t, q) => Distinct(r, q)
         /\ Free(s, q) /\ Distinct(t, q) => Distinct(r, q)
<1>1. /\ r \in Seq(Rows) /\ Len(s) \in Nat /\ Len(t) \in Nat /\ Len(r) = Len(s) + Len(t)
      /\ \A i \in 1 .. Len(s) : i \in 1 .. Len(r) /\ r[i] = s[i]
      /\ \A i \in 1 .. Len(t) : i + Len(s) \in 1 .. Len(r) /\ r[i + Len(s)] = t[i]
      /\ \A i \in 1 .. Len(r) : i \in 1 .. Len(s) \/ i - Len(s) \in 1 .. Len(t)
      /\ \A i \in 1 .. Len(r) : i \notin 1 .. Len(s) => r[i] = t[i - Len(s)]
  BY ConcatFacts
<1>2. \A i \in 1 .. Len(r) : (\E k \in 1 .. Len(s) : r[i] = s[k]) \/ (\E k \in 1 .. Len(t) : r[i] = t[k])
  BY <1>1
<1>3. \A k \in 1 .. Len(s) : \E i \in 1 .. Len(r) : r[i] = s[k]
  BY <1>1
<1>4. \A k \in 1 .. Len(t) : \E i \in 1 .. Len(r) : r[i] = t[k]
  BY <1>1
<1>5. Elems(r) = Elems(s) \cup Elems(t)
  <2>1. Elems(r) \subseteq Elems(s) \cup Elems(t)
    BY <1>2 DEF Elems
  <2>2. Elems(s) \subseteq Elems(r)
    BY <1>3 DEF Elems
  <2>3. Elems(t) \subseteq Elems(r)
    BY <1>4 DEF Elems
  <2> QED
    BY <2>1, <2>2, <2>3
<1>6. Free(r, q) <=> Free(s, q) /\ Free(t, q)
  <2>1. \A v : Free(v, q) <=> \A x \in Elems(v) : x[1] # q
    BY DEF Free, Elems
  <2> QED
    BY <1>5, <2>1
<1>7. Behind(r, q, n) <=> Behind(s, q, n) /\ Behind(t, q, n)
  <2>1. \A v : Behind(v, q, n) <=> \A x \in Elems(v) : x[1] = q => x[2] < n
    BY DEF Behind, Elems
  <2> QED
    BY <1>5, <2>1
<1>8. ASSUME Distinct(s, q), Free(t, q) PROVE Distinct(r, q)
  <2> SUFFICES ASSUME NEW k \in 1 .. Len(r), NEW l \in 1 .. Len(r), r[k] = r[l], r[k][1] = q
               PROVE  k = l
    BY DEF Distinct
  <2>1. k \in 1 .. Len(s) /\ l \in 1 .. Len(s)
    BY <1>1, <1>8 DEF Free
  <2>2. s[k] = s[l] /\ s[k][1] = q
    BY <1>1, <2>1
  <2> QED
    BY <1>8, <2>1, <2>2 DEF Distinct
<1>9. ASSUME Free(s, q), Distinct(t, q) PROVE Distinct(r, q)
  <2> SUFFICES ASSUME NEW k \in 1 .. Len(r), NEW l \in 1 .. Len(r), r[k] = r[l], r[k][1] = q
               PROVE  k = l
    BY DEF Distinct
  <2>1. k \notin 1 .. Len(s) /\ l \notin 1 .. Len(s)
    BY <1>1, <1>9 DEF Free
  <2>2. /\ k - Len(s) \in 1 .. Len(t) /\ l - Len(s) \in 1 .. Len(t)
        /\ t[k - Len(s)] = t[l - Len(s)] /\ t[k - Len(s)][1] = q
    BY <1>1, <2>1
  <2>3. k - Len(s) = l - Len(s)
    BY <1>9, <2>2 DEF Distinct
  <2> QED
    BY <1>1, <2>3
<1> QED
  BY <1>1, <1>5, <1>6, <1>7, <1>8, <1>9

(* No statements.                                                          *)
LEMMA EmptyRows ==
  ASSUME NEW q, NEW n
  PROVE  /\ <<>> \in Seq(Rows) /\ Len(<<>>) = 0 /\ Elems(<<>>) = {}
         /\ Free(<<>>, q) /\ Distinct(<<>>, q) /\ Behind(<<>>, q, n) /\ Prefix(<<>>, q, 0)
<1>1. <<>> \in Seq(Rows) /\ Len(<<>>) = 0
  BY EmptySeq
<1> QED
  BY <1>1 DEF Elems, Free, Distinct, Behind, Prefix

(* One statement.                                                          *)
One(op, k) == <<<<op, k>>>>

(* One more statement of an operation.                                     *)
LEMMA OneRow ==
  ASSUME NEW op \in Ops, NEW k \in 1 .. Size, NEW s \in Seq(Rows)
  PROVE  /\ One(op, k) \in Seq(Rows) /\ Append(s, <<op, k>>) = s \o One(op, k)
         /\ Elems(One(op, k)) = {<<op, k>>}
         /\ \A q : q # op => Free(One(op, k), q)
         /\ Behind(One(op, k), op, k + 1) /\ Distinct(One(op, k), op)
         /\ Distinct(s, op) /\ Behind(s, op, k) => Distinct(s \o One(op, k), op)
         /\ Prefix(s, op, k - 1) => Prefix(s \o One(op, k), op, k)
<1>1. PICK x, t : x = <<op, k>> /\ t = One(op, k)
  OBVIOUS
<1>2. x \in Rows /\ x[1] = op /\ x[2] = k /\ t = <<x>>
  BY <1>1 DEF Rows, One
<1>3. <<x>> \in Seq(Rows) /\ Len(<<x>>) = 1 /\ <<x>>[1] = x
  BY <1>2
<1>4. Append(s, x) = s \o <<x>>
  BY <1>2, AppendIsConcat
<1>5. /\ t \in Seq(Rows)
      /\ Len(t) = 1 /\ \A i \in 1 .. Len(t) : i = 1 /\ t[i] = x
  BY <1>2, <1>3
<1>6. Elems(t) = {x} /\ \A q : q # op => Free(t, q)
  BY <1>2, <1>5 DEF Elems, Free
<1>7. Behind(t, op, k + 1) /\ Distinct(t, op)
  BY <1>2, <1>5 DEF Behind, Distinct
<1>8. PICK r : r = s \o t
  OBVIOUS
<1>9. /\ Len(s) \in Nat /\ Len(r) = Len(s) + 1
      /\ \A i \in 1 .. Len(s) : i \in 1 .. Len(r) /\ r[i] = s[i]
      /\ \A i \in 1 .. Len(r) : i \in 1 .. Len(s) \/ (i = Len(s) + 1 /\ r[i] = x)
  <2>1. /\ Len(s) \in Nat /\ Len(r) = Len(s) + Len(t)
        /\ \A i \in 1 .. Len(s) : i \in 1 .. Len(r) /\ r[i] = s[i]
        /\ \A i \in 1 .. Len(r) : i \in 1 .. Len(s) \/ i - Len(s) \in 1 .. Len(t)
        /\ \A i \in 1 .. Len(r) : i \notin 1 .. Len(s) => r[i] = t[i - Len(s)]
    <3>1. t \in Seq(Rows)
      BY <1>5
    <3> QED
      BY <1>8, <3>1, ConcatFacts
  <2> QED
    BY <1>5, <2>1
<1>10. ASSUME Distinct(s, op), Behind(s, op, k) PROVE Distinct(r, op)
  <2>1. \A i \in 1 .. Len(s) : s[i] # x
    BY <1>2, <1>10 DEF Behind
  <2> QED
    BY <1>9, <1>10, <2>1 DEF Distinct
<1>11. ASSUME Prefix(s, op, k - 1) PROVE Prefix(r, op, k)
  <2>1. Len(s) = k - 1 /\ \A i \in 1 .. Len(s) : s[i] = <<op, i>>
    BY <1>11 DEF Prefix
  <2>2. Len(r) = k
    BY <1>9, <2>1
  <2>3. ASSUME NEW i \in 1 .. k PROVE r[i] = <<op, i>>
    <3>1. CASE i \in 1 .. Len(s)
      BY <1>9, <2>1, <3>1
    <3>2. CASE i \notin 1 .. Len(s)
      <4>1. i = Len(s) + 1 /\ r[i] = x /\ i = k
        BY <1>9, <2>1, <2>2, <3>2
      <4> QED
        BY <1>1, <4>1
    <3> QED
      BY <3>1, <3>2
  <2> QED
    BY <2>2, <2>3 DEF Prefix
<1> QED
  BY <1>1, <1>2, <1>4, <1>5, <1>6, <1>7, <1>8, <1>10, <1>11

(* What the predicates on sequences say of each other.                     *)
LEMMA RowFacts ==
  ASSUME NEW s \in Seq(Rows), NEW q
  PROVE  /\ Free(s, q) => Statements(q) \cap Elems(s) = {} /\ Distinct(s, q) /\ \A n : Behind(s, q, n)
         /\ Behind(s, q, 1) => Free(s, q)
         /\ Prefix(s, q, Size) /\ q \in Ops \ Singles => Statements(q) = Elems(s)
         /\ q \in Ops => Statements(q) # {}
<1>1. ASSUME Free(s, q) PROVE Statements(q) \cap Elems(s) = {}
  <2>1. \A x \in Elems(s) : x[1] # q
    BY <1>1 DEF Free, Elems
  <2>2. \A x \in Statements(q) : x[1] = q
    BY DEF Statements
  <2> QED
    BY <2>1, <2>2
<1>2. Free(s, q) => Distinct(s, q) /\ \A n : Behind(s, q, n)
  BY DEF Free, Distinct, Behind
<1>3. ASSUME Behind(s, q, 1) PROVE Free(s, q)
  <2>1. ASSUME NEW i \in 1 .. Len(s) PROVE s[i][2] \in 1 .. Size
    <3>1. s[i] \in Rows
      BY ElementOfSeq
    <3> QED
      BY <3>1 DEF Rows
  <2>2. \A i \in 1 .. Len(s) : ~(s[i][2] < 1)
    BY <2>1, PoolAssumption
  <2> QED
    BY <1>3, <2>2 DEF Free, Behind
<1>4. ASSUME Prefix(s, q, Size), q \in Ops \ Singles PROVE Statements(q) = Elems(s)
  <2>1. Statements(q) = {<<q, k>> : k \in 1 .. Size}
    BY <1>4 DEF Statements, Length
  <2>2. Elems(s) = {s[k] : k \in 1 .. Size}
    BY <1>4 DEF Elems, Prefix
  <2>3. \A k \in 1 .. Size : s[k] = <<q, k>>
    BY <1>4 DEF Prefix
  <2> QED
    BY <2>1, <2>2, <2>3, Zenon
<1>5. <<q, 1>> \in Statements(q)
  <2>1. 1 \in 1 .. Length(q)
    BY PoolAssumption DEF Length
  <2> QED
    BY <2>1 DEF Statements
<1> QED
  BY <1>1, <1>2, <1>3, <1>4, <1>5

(* What a step of connection c for operation op leaves alone ...           *)
Frame(c, op) ==
    /\ UNCHANGED <<queue, order, pool>>
    /\ \A d \in Conns \ {c} :
        /\ job'[d] = job[d] /\ phase'[d] = phase[d] /\ pos'[d] = pos[d]
        /\ tries'[d] = tries[d] /\ errno'[d] = errno[d] /\ unc'[d] = unc[d]
        /\ (d \in tx' <=> d \in tx) /\ (d \in down' <=> d \in down)
    /\ \A q \in Ops \ {op} : outcome'[q] = outcome[q] /\ hit'[q] = hit[q]

(* ... and what it does to the server: the database grows by t, and the    *)
(* open transaction of c holds u.  It has no effect, it rolls back, it     *)
(* commits, or it carries out the statement at pos.                        *)
Effect(c, op, t, u) ==
    \/ t = <<>> /\ u = unc[c]
    \/ t = <<>> /\ u = <<>>
    \/ t = unc[c] /\ u = <<>>
    \/ /\ phase[c] = "stmt" /\ c \in tx
       /\ t = <<>> /\ u = unc[c] \o One(op, pos[c])
    \/ /\ phase[c] = "stmt" /\ c \notin tx
       /\ t = One(op, pos[c]) /\ u = <<>>

(* What another operation has in the database and in the transaction of c  *)
(* stays there, or all of it moves from there to the database.             *)
Stays(c, q, t, u) ==
    /\ Free(t, q)
    /\ \/ u = <<>>
       \/ /\ Free(u, q) <=> Free(unc[c], q)
          /\ Distinct(unc[c], q) => Distinct(u, q)
          /\ Elems(unc[c]) \subseteq Elems(u)

Moves(c, t, u) == t = unc[c] /\ u = <<>>

(* The effect of a step on another operation is one of the two.            *)
LEMMA EffectAside ==
  ASSUME TypeOK, NEW c \in Conns, NEW op \in Ops, NEW t, NEW u, Effect(c, op, t, u), NEW q, q # op
  PROVE  /\ t \in Seq(Rows) /\ u \in Seq(Rows)
         /\ Stays(c, q, t, u) \/ Moves(c, t, u)
         /\ Free(unc[c], q) => Stays(c, q, t, u) /\ Free(u, q)
<1>1. unc[c] \in Seq(Rows) /\ pos[c] \in 1 .. Size
  BY DEF TypeOK, Rows
<1>2. <<>> \in Seq(Rows) /\ Free(<<>>, q)
  BY EmptyRows
<1>3. PICK x : x = One(op, pos[c])
  OBVIOUS
<1>4. x \in Seq(Rows) /\ Free(x, q)
  BY <1>1, <1>3, OneRow
<1>5. PICK v : v = unc[c]
  OBVIOUS
<1>6. CASE t = <<>> /\ u = v
  BY <1>1, <1>2, <1>5, <1>6 DEF Stays
<1>7. CASE t = <<>> /\ u = <<>>
  BY <1>2, <1>7 DEF Stays
<1>8. CASE t = v /\ u = <<>>
  BY <1>1, <1>2, <1>5, <1>8 DEF Stays, Moves
<1>9. CASE t = <<>> /\ u = v \o x
  <2>1. /\ u \in Seq(Rows) /\ Elems(u) = Elems(v) \cup Elems(x)
        /\ Free(u, q) <=> Free(v, q) /\ Free(x, q)
        /\ Distinct(v, q) /\ Free(x, q) => Distinct(u, q)
    BY <1>1, <1>4, <1>5, <1>9, ConcatRows
  <2> QED
    BY <1>2, <1>4, <1>5, <1>9, <2>1 DEF Stays
<1>10. CASE t = x /\ u = <<>>
  BY <1>2, <1>4, <1>10 DEF Stays
<1> QED
  BY <1>3, <1>5, <1>6, <1>7, <1>8, <1>9, <1>10 DEF Effect

(* The invariant of another operation is kept by a step of c.              *)
LEMMA Others ==
  ASSUME PoolInv, NEW c \in Conns, NEW op \in Ops, op = job[c], NEW t, NEW u,
         Frame(c, op), Effect(c, op, t, u), db' = db \o t, unc'[c] = u,
         NEW q \in Ops, q # op
  PROVE  OpInv(q)'
<1>1. TypeOK /\ OpInv(q) /\ db \in Seq(Rows) /\ unc[c] \in Seq(Rows)
  BY DEF PoolInv, TypeOK, Rows
<1>2. /\ t \in Seq(Rows) /\ u \in Seq(Rows)
      /\ Stays(c, q, t, u) \/ Moves(c, t, u)
      /\ Free(unc[c], q) => Stays(c, q, t, u) /\ Free(u, q)
  BY <1>1, EffectAside
<1>3. /\ \A kind : Met(q, kind)' <=> Met(q, kind)
      /\ Torn(q)' <=> Torn(q)
      /\ outcome'[q] = outcome[q]
  BY DEF Frame, Met, Torn
<1>4. /\ Elems(db') = Elems(db) \cup Elems(t)
      /\ Free(db', q) <=> Free(db, q) /\ Free(t, q)
      /\ Distinct(db, q) /\ Free(t, q) => Distinct(db', q)
      /\ Free(db, q) /\ Distinct(t, q) => Distinct(db', q)
  BY <1>1, <1>2, ConcatRows
<1>5. Durable(q)' = Statements(q) \cap (Elems(db) \cup Elems(t)) /\ Durable(q) = Statements(q) \cap Elems(db)
  BY <1>4 DEF Durable, Statements, Length, Elems
<1>6. Free(<<>>, q)
  BY EmptyRows
<1>7. CASE Stays(c, q, t, u)
  <2>1. Free(t, q) /\ Statements(q) \cap Elems(t) = {}
    BY <1>2, <1>7, RowFacts DEF Stays
  <2>2. Durable(q)' = Durable(q) /\ (Free(db', q) <=> Free(db, q)) /\ (Distinct(db, q) => Distinct(db', q))
    BY <1>4, <1>5, <2>1
  <2>3. ASSUME NEW d \in Conns, ~Free(unc'[d], q) PROVE Left(d, q)'
    <3>1. CASE d = c
      <4>1. u # <<>> /\ ~Free(unc[c], q)
        BY <1>6, <1>7, <2>3, <3>1 DEF Stays
      <4>2. Left(c, q)
        BY <1>1, <4>1 DEF OpInv
      <4>3. /\ \/ outcome[q] # "none" /\ Torn(q)
               \/ outcome[q] = "ok" /\ Statements(q) \subseteq Elems(u)
            /\ Met(q, "lost") \/ (Free(db, q) /\ Distinct(u, q))
        BY <1>7, <4>1, <4>2 DEF Left, Stays
      <4>4. \A e \in Conns \ {c} : Free(unc'[e], q)
        BY <4>2 DEF Left, Frame
      <4>5. Left(c, q)'
        BY <1>3, <2>2, <4>3, <4>4 DEF Left, Statements, Length
      <4> QED
        BY <3>1, <4>5
    <3>2. CASE d # c
      <4>1. unc'[d] = unc[d] /\ job'[d] = job[d]
        BY <3>2 DEF Frame
      <4>2. Left(d, q)
        BY <1>1, <2>3, <4>1 DEF OpInv
      <4>3. Free(u, q)
        BY <1>2, <3>2, <4>2 DEF Left
      <4>4. \A e \in Conns \ {d} : Free(unc'[e], q)
        BY <4>2, <4>3 DEF Left, Frame
      <4> QED
        BY <1>3, <2>2, <4>1, <4>2, <4>4 DEF Left, Statements, Length
    <3> QED
      BY <3>1, <3>2
  <2> QED
    BY <1>1, <1>3, <2>2, <2>3 DEF OpInv, Statements, Length
<1>8. CASE Moves(c, t, u) /\ ~Free(unc[c], q)
  <2>1. Left(c, q) /\ t = unc[c] /\ u = <<>>
    BY <1>1, <1>8 DEF OpInv, Moves
  <2>2. \A d \in Conns : Free(unc'[d], q)
    BY <1>6, <2>1 DEF Left, Frame
  <2>3. Met(q, "lost") \/ Distinct(db', q)
    BY <1>4, <2>1 DEF Left
  <2>4. Torn(q) \/ (outcome[q] = "ok" /\ Durable(q)' = Statements(q))
    BY <1>5, <2>1 DEF Left
  <2> QED
    BY <1>3, <2>2, <2>3, <2>4 DEF OpInv, Statements, Length
<1> QED
  BY <1>2, <1>7, <1>8

(* An operation that is not over is on no other connection's transaction.  *)
LEMMA NotLeft ==
  ASSUME PoolInv, NEW c \in Conns, NEW q \in Ops, outcome[q] = "none", job[c] # q
  PROVE  Free(unc[c], q)
<1>1. Free(unc[c], q) \/ Left(c, q)
  BY DEF PoolInv, OpInv
<1> QED
  BY <1>1 DEF Left

(* A step of connection c for its operation keeps the invariant when it    *)
(* keeps it for c and for the operation.                                   *)
LEMMA ConnStep ==
  ASSUME PoolInv, NEW c \in Conns, NEW op \in Ops, op = job[c], NEW t, NEW u,
         Frame(c, op), Effect(c, op, t, u), db' = db \o t, unc'[c] = u,
         TypeOK', hit' \in [Ops -> Seq(Kinds)],
         job'[c] = op \/ (job'[c] = NoOp /\ outcome'[op] # "none"),
         ConnOK(c)', OpInv(op)'
  PROVE  PoolInv'
<1>1. TypeOK /\ db \in Seq(Rows) /\ op # NoOp
  BY PoolAssumption DEF PoolInv, TypeOK, Rows
<1>2. ASSUME NEW q \in Ops \ {op}, outcome[q] = "none"
      PROVE  /\ Free(db', q) <=> Free(db, q)
             /\ \A n : Behind(db', q, n) <=> Behind(db, q, n)
  <2>1. Free(unc[c], q)
    BY <1>2, NotLeft
  <2>2. t \in Seq(Rows) /\ Free(t, q)
    BY <1>1, <2>1, EffectAside DEF Stays
  <2>3. ASSUME NEW n PROVE Behind(db', q, n) <=> Behind(db, q, n)
    <3>1. Behind(db', q, n) <=> Behind(db, q, n) /\ Behind(t, q, n)
      BY <1>1, <2>2, ConcatRows
    <3> QED
      BY <2>2, <3>1, RowFacts
  <2> QED
    BY <1>1, <2>2, <2>3, ConcatRows
<1>3. \A q \in Ops \ {op} : \A kind : Met(q, kind)' <=> Met(q, kind)
  BY DEF Frame, Met
<1>4. \A d \in Conns \ {c} : job[d] # op
  BY PoolAssumption DEF PoolInv, Accounted
<1>5. \A d \in Conns : ConnOK(d)'
  <2> SUFFICES ASSUME NEW d \in Conns \ {c} PROVE ConnOK(d)'
    OBVIOUS
  <2>1. PICK q, n : q = job[d] /\ n = pos[d]
    OBVIOUS
  <2>2. ConnOK(d) /\ q # op /\ q \in Ops \cup {NoOp}
    BY <1>1, <1>4, <2>1 DEF PoolInv, TypeOK
  <2>3. /\ job'[d] = q /\ phase'[d] = phase[d] /\ pos'[d] = n
        /\ tries'[d] = tries[d] /\ errno'[d] = errno[d] /\ unc'[d] = unc[d]
        /\ (d \in tx' <=> d \in tx) /\ (d \in down' <=> d \in down)
    BY <2>1 DEF Frame
  <2>4. CASE q = NoOp
    BY <2>1, <2>2, <2>3, <2>4, PoolAssumption DEF ConnOK, Ops, Async
  <2>5. CASE q # NoOp
    <3>1. q \in Ops \ {op} /\ outcome[q] = "none" /\ outcome'[q] = outcome[q]
      BY <2>1, <2>2, <2>5 DEF ConnOK, Frame
    <3>2. /\ Free(db', q) <=> Free(db, q)
          /\ Behind(db', q, n) <=> Behind(db, q, n)
      BY <1>2, <3>1
    <3>3. \A kind : Met(job[d], kind)' <=> Met(q, kind)
      BY <1>3, <2>3, <3>1 DEF Met
    <3>4. Torn(job[d])' <=> Torn(q)
      BY <3>3 DEF Torn
    <3>5. Paced(d) => Paced(d)'
      BY <2>1, <2>3, <3>2 DEF Paced
    <3>6. InHand(d) => InHand(d)'
      BY <2>1, <2>3, <3>2 DEF InHand
    <3>7. ~Met(job[d], "lost")' => Paced(d)'
      BY <2>1, <2>2, <2>5, <3>3, <3>5 DEF ConnOK
    <3>8. ~Torn(job[d])' => InHand(d)'
      BY <2>1, <2>2, <2>5, <3>4, <3>6 DEF ConnOK
    <3> QED
      BY <2>1, <2>2, <2>3, <3>1, <3>7, <3>8 DEF ConnOK
  <2> QED
    BY <2>4, <2>5
<1>6. Accounted'
  <2>1. /\ \A i, j \in 1 .. Len(queue') : queue'[i] = queue'[j] => i = j
        /\ Elems(queue') \subseteq Elems(order')
    BY DEF PoolInv, Accounted, Frame
  <2>2. ASSUME NEW q \in Ops, Pending(q)'
        PROVE  outcome'[q] = "none" /\ Free(db', q) /\ \A d \in Conns : job'[d] # q
    <3>1. q # op
      <4>1. ~Pending(op)
        BY DEF PoolInv, Accounted
      <4> QED
        BY <2>2, <4>1 DEF Pending, Frame
    <3>2. Pending(q)
      BY <2>2, <3>1 DEF Pending, Frame
    <3>3. outcome[q] = "none" /\ Free(db, q) /\ \A d \in Conns : job[d] # q
      BY <3>2 DEF PoolInv, Accounted
    <3>4. outcome'[q] = "none" /\ \A d \in Conns \ {c} : job'[d] # q
      BY <3>1, <3>3 DEF Frame
    <3>5. job'[c] # q
      BY <3>1, PoolAssumption
    <3>6. Free(db', q)
      BY <1>2, <3>1, <3>3
    <3> QED
      BY <3>4, <3>5, <3>6
  <2>3. \A d, e \in Conns : job'[d] = job'[e] /\ job'[d] # NoOp => d = e
    <3>1. \A d \in Conns \ {c} : job'[d] = job[d]
      BY DEF Frame
    <3>2. \A d, e \in Conns : job[d] = job[e] /\ job[d] # NoOp => d = e
      BY DEF PoolInv, Accounted
    <3> QED
      BY <1>1, <1>4, <3>1, <3>2
  <2> QED
    BY <2>1, <2>2, <2>3 DEF Accounted
<1>7. \A q \in Ops : OpInv(q)'
  <2> SUFFICES ASSUME NEW q \in Ops PROVE OpInv(q)'
    OBVIOUS
  <2>1. CASE q = op
    BY <2>1
  <2>2. CASE q # op
    BY <2>2, Others
  <2> QED
    BY <2>1, <2>2
<1> QED
  BY <1>5, <1>6, <1>7 DEF PoolInv

(* A step that gives connection c the operation j, the phase ph, the       *)
(* position ps, the error er and the open statements u, and operation op   *)
(* the outcome o and the faults h.                                         *)
Sets(c, op, j, ph, ps, er, u, o, h) ==
    /\ UNCHANGED <<queue, order, pool, tries>>
    /\ job' = [job EXCEPT ![c] = j] /\ phase' = [phase EXCEPT ![c] = ph]
    /\ pos' = [pos EXCEPT ![c] = ps] /\ errno' = [errno EXCEPT ![c] = er]
    /\ unc' = [unc EXCEPT ![c] = u]
    /\ outcome' = [outcome EXCEPT ![op] = o] /\ hit' = [hit EXCEPT ![op] = h]
    /\ tx' \in {tx, tx \cup {c}, tx \ {c}} /\ down' \in {down, down \cup {c}}

(* The new values have their types.                                        *)
Typed(c, op, j, ph, ps, er, u, o, h) ==
    /\ j \in Ops \cup {NoOp} /\ ph \in {"idle", "begin", "stmt", "rollback", "failed", "commit"}
    /\ ps \in 1 .. Size /\ er \in {"none", "refused", "deadlock"} /\ u \in Seq(Rows)
    /\ o \in {"none", "ok", "failed"} /\ h \in Seq(Kinds) /\ Elems(hit[op]) \subseteq Elems(h)
    /\ (c \in tx' => c \notin down') /\ (c \notin tx' => u = <<>>)

(* Such a step keeps the types and touches nothing else.                   *)
LEMMA Shape ==
  ASSUME PoolInv, NEW c \in Conns, NEW op \in Ops, NEW j, NEW ph, NEW ps, NEW er, NEW u,
         NEW o, NEW h, Sets(c, op, j, ph, ps, er, u, o, h),
         Typed(c, op, j, ph, ps, er, u, o, h), db' \in Seq(Rows)
  PROVE  /\ TypeOK' /\ hit' \in [Ops -> Seq(Kinds)] /\ Frame(c, op)
         /\ job'[c] = j /\ phase'[c] = ph /\ pos'[c] = ps /\ errno'[c] = er /\ unc'[c] = u
         /\ tries' = tries /\ outcome'[op] = o /\ hit'[op] = h
<1>1. TypeOK /\ hit \in [Ops -> Seq(Kinds)]
  BY DEF PoolInv
<1>2. /\ job' \in [Conns -> Ops \cup {NoOp}] /\ job'[c] = j
      /\ \A d \in Conns \ {c} : job'[d] = job[d]
  BY <1>1 DEF TypeOK, Sets, Typed
<1>3. /\ phase' \in [Conns -> {"idle", "begin", "stmt", "rollback", "failed", "commit"}]
      /\ phase'[c] = ph /\ \A d \in Conns \ {c} : phase'[d] = phase[d]
  BY <1>1 DEF TypeOK, Sets, Typed
<1>4. /\ pos' \in [Conns -> 1 .. Size] /\ pos'[c] = ps
      /\ \A d \in Conns \ {c} : pos'[d] = pos[d]
  BY <1>1 DEF TypeOK, Sets, Typed
<1>5. /\ errno' \in [Conns -> {"none", "refused", "deadlock"}] /\ errno'[c] = er
      /\ \A d \in Conns \ {c} : errno'[d] = errno[d]
  BY <1>1 DEF TypeOK, Sets, Typed
<1>6. /\ unc' \in [Conns -> Seq(Rows)] /\ unc'[c] = u
      /\ \A d \in Conns \ {c} : unc'[d] = unc[d]
  BY <1>1 DEF TypeOK, Sets, Typed, Rows
<1>7. /\ outcome' \in [Ops -> {"none", "ok", "failed"}] /\ outcome'[op] = o
      /\ \A q \in Ops \ {op} : outcome'[q] = outcome[q]
  BY <1>1 DEF TypeOK, Sets, Typed
<1>8. /\ hit' \in [Ops -> Seq(Kinds)] /\ hit'[op] = h
      /\ \A q \in Ops \ {op} : hit'[q] = hit[q]
  BY <1>1 DEF Sets, Typed
<1>9. /\ UNCHANGED <<queue, order, pool, tries>> /\ tx' \subseteq Conns /\ down' \subseteq Conns
      /\ \A d \in Conns \ {c} : (d \in tx' <=> d \in tx) /\ (d \in down' <=> d \in down)
  BY <1>1 DEF TypeOK, Sets
<1>10. tx' \cap down' = {} /\ \A d \in Conns \ tx' : unc'[d] = <<>>
  <2> SUFFICES ASSUME NEW d \in Conns
               PROVE  ~(d \in tx' /\ d \in down') /\ (d \notin tx' => unc'[d] = <<>>)
    BY <1>9
  <2>1. CASE d = c
    BY <1>6, <2>1 DEF Typed
  <2>2. CASE d # c
    <3>1. d \in Conns \ {c} /\ ~(d \in tx /\ d \in down) /\ (d \notin tx => unc[d] = <<>>)
      BY <1>1, <2>2 DEF TypeOK
    <3> QED
      BY <1>6, <1>9, <3>1
  <2> QED
    BY <2>1, <2>2
<1>11. TypeOK'
  <2>1. /\ queue' \in Seq(Async) /\ order' \in Seq(Async)
        /\ pool' \in {"open", "closing", "closed", "crashed"} /\ tries' \in [Conns -> 0 .. Retries]
    BY <1>1, <1>9 DEF TypeOK
  <2> QED
    BY <1>2, <1>3, <1>4, <1>5, <1>6, <1>7, <1>9, <1>10, <2>1 DEF TypeOK, Rows
<1>12. Frame(c, op)
  BY <1>2, <1>3, <1>4, <1>5, <1>6, <1>7, <1>8, <1>9 DEF Frame
<1> QED
  BY <1>2, <1>3, <1>4, <1>5, <1>6, <1>7, <1>8, <1>9, <1>11, <1>12

TornBy(h) == "lost" \in Elems(h) \/ "begin" \in Elems(h) \/ "rollback" \in Elems(h)

(* The new values keep what ConnOK asks for, with Paced and InHand ...     *)
GoodConn(c, op, j, ph, ps, er, u, o, h) ==
    /\ (j = op /\ o = "none") \/ (j = NoOp /\ o # "none")
    /\ j = NoOp <=> ph = "idle"
    /\ j = op /\ op \in Singles => ph = "stmt" /\ ps = 1
    /\ (c \in down' => er = "none") /\ (ph = "failed" => er # "deadlock")
    /\ j = op /\ "lost" \notin Elems(h) /\ ph \in {"begin", "stmt"} =>
        /\ ph = "begin" => ps = 1
        /\ Behind(db', op, ps) /\ Behind(u, op, ps)
        /\ c \in tx' => Free(db', op)
    /\ j = op /\ ~TornBy(h) =>
        /\ ph = "stmt" /\ op \notin Singles /\ c \notin down' => c \in tx'
        /\ ph = "stmt" /\ op \notin Singles /\ c \in tx' => Prefix(u, op, ps - 1)
        /\ ph = "commit" => c \in tx' /\ Prefix(u, op, Size)
        /\ ph = "failed" => Free(u, op)

(* ... and what OpInv asks for: unless it is torn, nothing of op is done,  *)
(* or op is over and reported done and all of it is.                       *)
GoodOp(op, j, u, o, h) == ~TornBy(h) =>
    /\ \/ Free(db', op) /\ (o = "ok" => "commit" \in Elems(h) \/ "open" \in Elems(h))
       \/ o = "ok" /\ Statements(op) \subseteq Elems(db')
    /\ j = NoOp => Free(u, op) \/ (o = "ok" /\ Statements(op) \subseteq Elems(u))

(* No statement is repeated by a step, unless the connection was lost.     *)
LEMMA OnceKept ==
  ASSUME PoolInv, NEW c \in Conns, NEW op \in Ops, op = job[c], ~Met(op, "lost"),
         NEW t, NEW u, Effect(c, op, t, u), db' = db \o t
  PROVE  Distinct(db', op) /\ (Free(u, op) \/ (Free(db', op) /\ Distinct(u, op)))
<1>1. PICK v, n : v = unc[c] /\ n = pos[c]
  OBVIOUS
<1>2. db \in Seq(Rows) /\ v \in Seq(Rows) /\ n \in 1 .. Size /\ op # NoOp /\ ConnOK(c) /\ OpInv(op)
      /\ (c \notin tx => v = <<>>)
  BY <1>1, PoolAssumption DEF PoolInv, TypeOK, Rows
<1>3. Distinct(db, op) /\ (Free(v, op) \/ (Free(db, op) /\ Distinct(v, op)))
  BY <1>1, <1>2 DEF OpInv, Left
<1>4. <<>> \in Seq(Rows) /\ Free(<<>>, op) /\ db \o <<>> = db
  BY <1>2, EmptyRows, ConcatEmptySeq
<1>5. CASE t = <<>> /\ (u = v \/ u = <<>>)
  BY <1>3, <1>4, <1>5
<1>6. CASE t = v /\ u = <<>>
  BY <1>2, <1>3, <1>4, <1>6, ConcatRows
<1>7. PICK x : x = One(op, n)
  OBVIOUS
<1>8. phase[c] = "stmt" => Behind(db, op, n) /\ Behind(v, op, n) /\ (c \in tx => Free(db, op))
  BY <1>1, <1>2 DEF ConnOK, Paced
<1>9. CASE phase[c] = "stmt" /\ c \in tx /\ t = <<>> /\ u = v \o x
  <2>1. Distinct(v, op)
    BY <1>2, <1>3, RowFacts
  <2>2. Distinct(u, op)
    BY <1>2, <1>7, <1>8, <1>9, <2>1, OneRow
  <2> QED
    BY <1>3, <1>4, <1>8, <1>9, <2>2
<1>10. CASE phase[c] = "stmt" /\ c \notin tx /\ t = x /\ u = <<>>
  <2>1. Distinct(db \o x, op)
    BY <1>2, <1>3, <1>7, <1>8, <1>10, OneRow
  <2> QED
    BY <1>4, <1>10, <2>1
<1> QED
  BY <1>1, <1>5, <1>6, <1>7, <1>9, <1>10 DEF Effect

(* Such a step of a connection for its operation keeps the invariant.      *)
LEMMA OpStep ==
  ASSUME PoolInv, NEW c \in Conns, NEW op \in Ops, op = job[c],
         NEW j, NEW ph, NEW ps, NEW er, NEW u, NEW o, NEW h, NEW t,
         Sets(c, op, j, ph, ps, er, u, o, h), Typed(c, op, j, ph, ps, er, u, o, h),
         Effect(c, op, t, u), db' = db \o t,
         GoodConn(c, op, j, ph, ps, er, u, o, h), GoodOp(op, j, u, o, h)
  PROVE  PoolInv'
<1>1. TypeOK /\ db \in Seq(Rows) /\ op # NoOp /\ ConnOK(c) /\ OpInv(op)
  BY PoolAssumption DEF PoolInv, TypeOK, Rows
<1>2. t \in Seq(Rows) /\ db' \in Seq(Rows)
  <2>1. t \in Seq(Rows)
    BY <1>1, EffectAside
  <2> QED
    BY <1>1, <2>1, ConcatRows
<1>3. /\ TypeOK' /\ hit' \in [Ops -> Seq(Kinds)] /\ Frame(c, op)
      /\ job'[c] = j /\ phase'[c] = ph /\ pos'[c] = ps /\ errno'[c] = er /\ unc'[c] = u
      /\ tries' = tries /\ outcome'[op] = o /\ hit'[op] = h
  BY <1>2, Shape
<1>4. /\ \A kind : Met(op, kind)' <=> kind \in Elems(h)
      /\ Torn(op)' <=> TornBy(h)
  BY <1>3 DEF Met, Torn, TornBy
<1>5. "lost" \notin Elems(h) => Distinct(db', op) /\ (Free(u, op) \/ (Free(db', op) /\ Distinct(u, op)))
  <2>1. "lost" \notin Elems(h) => ~Met(op, "lost")
    BY DEF Met, Typed
  <2> QED
    BY <2>1, OnceKept
<1>6. ~TornBy(h) =>
        \/ Durable(op)' = {} /\ (o = "ok" => "commit" \in Elems(h) \/ "open" \in Elems(h))
        \/ o = "ok" /\ Durable(op)' = Statements(op)
  <2>1. Durable(op)' = Statements(op) \cap Elems(db')
    BY DEF Durable, Statements, Length, Elems
  <2>2. Free(db', op) => Statements(op) \cap Elems(db') = {}
    BY <1>2, RowFacts
  <2> QED
    BY <2>1, <2>2 DEF GoodOp
<1>7. \A d \in Conns \ {c} : Free(unc'[d], op)
  <2> SUFFICES ASSUME NEW d \in Conns \ {c} PROVE Free(unc'[d], op)
    OBVIOUS
  <2>1. job[d] # op /\ outcome[op] = "none"
    BY <1>1 DEF PoolInv, Accounted, ConnOK
  <2>2. Free(unc[d], op)
    BY <2>1, NotLeft
  <2> QED
    BY <1>3, <2>2 DEF Frame
<1>8. Free(u, op) \/ Left(c, op)'
  <2> SUFFICES ASSUME ~Free(u, op) PROVE Left(c, op)'
    OBVIOUS
  <2>1. \/ op = job'[c]
        \/ outcome'[op] # "none" /\ Torn(op)'
        \/ outcome'[op] = "ok" /\ Statements(op) \subseteq Elems(u)
    BY <1>3, <1>4 DEF GoodConn, GoodOp
  <2>2. Met(op, "lost")' \/ (Free(db', op) /\ Distinct(u, op))
    BY <1>4, <1>5
  <2> QED
    BY <1>3, <1>7, <2>1, <2>2 DEF Left, Statements, Length
<1>9. OpInv(op)'
  <2>1. \A d \in Conns : Free(unc'[d], op) \/ Left(d, op)'
    BY <1>3, <1>7, <1>8
  <2>2. Met(op, "lost")' \/ Distinct(db', op)
    BY <1>4, <1>5
  <2>3. ~Torn(op)' => Durable(op)' \in {{}, Statements(op)}
    BY <1>4, <1>6
  <2>4. ~Torn(op)' /\ ~Met(op, "commit")' /\ ~Met(op, "open")' =>
          /\ outcome'[op] = "ok" => Durable(op)' = Statements(op)
          /\ outcome'[op] = "failed" => Durable(op)' = {}
    BY <1>3, <1>4, <1>6
  <2> QED
    BY <2>1, <2>2, <2>3, <2>4 DEF OpInv, Statements, Length
<1>10. ConnOK(c)'
  <2>1. /\ job'[c] = NoOp <=> phase'[c] = "idle"
        /\ job'[c] \in Singles => phase'[c] = "stmt" /\ pos'[c] = 1
        /\ job'[c] # NoOp => outcome'[job'[c]] = "none"
        /\ c \in down' => errno'[c] = "none"
        /\ phase'[c] = "failed" => errno'[c] # "deadlock"
    BY <1>3, PoolAssumption DEF GoodConn, Ops, Async
  <2>2. /\ job'[c] \in Async => c \in Workers
        /\ job'[c] \in Directs => c \in Synch
        /\ tries'[c] = 0
    BY <1>1, <1>3, PoolAssumption DEF GoodConn, ConnOK, Ops
  <2>3. job'[c] # NoOp => j = op /\ o = "none" /\ job'[c] = op
    BY <1>3 DEF GoodConn
  <2>4. job'[c] # NoOp => \A kind : Met(job[c], kind)' <=> kind \in Elems(h)
    BY <1>3, <2>3 DEF Met
  <2>5. job'[c] # NoOp /\ ~Met(job[c], "lost")' => Paced(c)'
    BY <1>3, <2>3, <2>4 DEF Paced, GoodConn
  <2>6. job'[c] # NoOp /\ ~Torn(job[c])' => InHand(c)'
    <3> SUFFICES ASSUME job'[c] # NoOp, ~Torn(job[c])' PROVE InHand(c)'
      OBVIOUS
    <3>1. ~TornBy(h)
      BY <2>4 DEF Torn, TornBy
    <3>2. Free(db', op)
      BY <2>3, <3>1 DEF GoodOp
    <3> QED
      BY <1>3, <2>3, <3>1, <3>2 DEF InHand, GoodConn
  <2> QED
    BY <2>1, <2>2, <2>5, <2>6 DEF ConnOK
<1>11. job'[c] = op \/ (job'[c] = NoOp /\ outcome'[op] # "none")
  BY <1>3 DEF GoodConn
<1> QED
  BY <1>3, <1>9, <1>10, <1>11, ConnStep

(* A connection at work: its fields, and that leaving one as it is sets it *)
(* to what it was.                                                         *)
LEMMA Busy ==
  ASSUME PoolInv, NEW c \in Conns, phase[c] # "idle", NEW op, op = job[c]
  PROVE  /\ op \in Ops /\ op # NoOp /\ ConnOK(c) /\ outcome[op] = "none" /\ tries[c] = 0
         /\ pos[c] \in 1 .. Size /\ errno[c] \in {"none", "refused", "deadlock"}
         /\ unc[c] \in Seq(Rows) /\ hit[op] \in Seq(Kinds) /\ db \in Seq(Rows)
         /\ c \in tx => c \notin down
         /\ c \notin tx => unc[c] = <<>>
         /\ op \in Singles => phase[c] = "stmt" /\ pos[c] = 1
         /\ job = [job EXCEPT ![c] = op] /\ phase = [phase EXCEPT ![c] = phase[c]]
         /\ pos = [pos EXCEPT ![c] = pos[c]] /\ errno = [errno EXCEPT ![c] = errno[c]]
         /\ unc = [unc EXCEPT ![c] = unc[c]]
         /\ outcome = [outcome EXCEPT ![op] = "none"] /\ hit = [hit EXCEPT ![op] = hit[op]]
         /\ "lost" \notin Elems(hit[op]) => Paced(c)
         /\ ~TornBy(hit[op]) => InHand(c)
<1>1. TypeOK /\ hit \in [Ops -> Seq(Kinds)] /\ ConnOK(c)
  BY DEF PoolInv
<1>2. op \in Ops /\ op # NoOp /\ outcome[op] = "none" /\ tries[c] = 0
  BY <1>1 DEF TypeOK, ConnOK
<1>3. /\ pos[c] \in 1 .. Size /\ errno[c] \in {"none", "refused", "deadlock"}
      /\ unc[c] \in Seq(Rows) /\ hit[op] \in Seq(Kinds) /\ db \in Seq(Rows)
      /\ (c \in tx => c \notin down) /\ (c \notin tx => unc[c] = <<>>)
  BY <1>1, <1>2 DEF TypeOK, Rows
<1>4. /\ op \in Singles => phase[c] = "stmt" /\ pos[c] = 1
      /\ "lost" \notin Elems(hit[op]) => Paced(c)
      /\ ~TornBy(hit[op]) => InHand(c)
  BY <1>1, <1>2 DEF ConnOK, Met, Torn, TornBy
<1>5. /\ job = [job EXCEPT ![c] = op] /\ phase = [phase EXCEPT ![c] = phase[c]]
      /\ pos = [pos EXCEPT ![c] = pos[c]] /\ errno = [errno EXCEPT ![c] = errno[c]]
      /\ unc = [unc EXCEPT ![c] = unc[c]]
  BY <1>1 DEF TypeOK
<1>6. outcome = [outcome EXCEPT ![op] = "none"] /\ hit = [hit EXCEPT ![op] = hit[op]]
  BY <1>1, <1>2 DEF TypeOK
<1> QED
  BY <1>1, <1>2, <1>3, <1>4, <1>5, <1>6

(* A new fault of an operation.                                            *)
LEMMA HitFacts ==
  ASSUME NEW s \in Seq(Kinds), NEW kind \in Kinds
  PROVE  /\ Append(s, kind) \in Seq(Kinds)
         /\ Elems(Append(s, kind)) = Elems(s) \cup {kind}
  BY ElemsAppend

(* The position moves on.                                                  *)
LEMMA BehindNext ==
  ASSUME NEW s \in Seq(Rows), NEW op, NEW n \in 1 .. Size, Behind(s, op, n)
  PROVE  Behind(s, op, n + 1)
<1>1. ASSUME NEW i \in 1 .. Len(s) PROVE s[i][2] \in 1 .. Size
  <2>1. s[i] \in Rows
    BY ElementOfSeq
  <2> QED
    BY <2>1 DEF Rows
<1>2. \A i \in 1 .. Len(s) : s[i][2] < n => s[i][2] < n + 1
  BY <1>1, PoolAssumption
<1> QED
  BY <1>2 DEF Behind

(* A step that makes nothing durable.                                      *)
LEMMA QuietStep ==
  ASSUME PoolInv, NEW c \in Conns, NEW op \in Ops, op = job[c],
         NEW j, NEW ph, NEW ps, NEW er, NEW u, NEW o, NEW h,
         Sets(c, op, j, ph, ps, er, u, o, h), Typed(c, op, j, ph, ps, er, u, o, h),
         u = unc[c] \/ u = <<>>, db' = db,
         GoodConn(c, op, j, ph, ps, er, u, o, h), GoodOp(op, j, u, o, h)
  PROVE  PoolInv'
<1>1. db \in Seq(Rows)
  BY DEF PoolInv, TypeOK, Rows
<1>2. db' = db \o <<>>
  BY <1>1, ConcatEmptySeq
<1>3. Effect(c, op, <<>>, u)
  BY DEF Effect
<1> QED
  BY <1>2, <1>3, OpStep

(* START TRANSACTION, which commits what an earlier operation left open.   *)
LEMMA BeginTransactionStep ==
  ASSUME PoolInv, NEW c \in Conns, BeginTransaction(c)
  PROVE  PoolInv'
<1>1. PICK op, v, h : op = job[c] /\ v = unc[c] /\ h = hit[op]
  OBVIOUS
<1>2. phase[c] = "begin" /\ phase[c] # "idle" /\ c \notin down
  BY DEF BeginTransaction
<1>3. /\ op \in Ops /\ op # NoOp /\ h \in Seq(Kinds) /\ db \in Seq(Rows) /\ v \in Seq(Rows)
      /\ op \notin Singles
      /\ job = [job EXCEPT ![c] = op]
      /\ outcome = [outcome EXCEPT ![op] = "none"] /\ hit = [hit EXCEPT ![op] = h]
      /\ "lost" \notin Elems(h) => Paced(c)
  BY <1>1, <1>2, Busy
<1>4. <<>> \in Seq(Rows) /\ Behind(<<>>, op, 1) /\ Prefix(<<>>, op, 0) /\ Free(<<>>, op)
  BY EmptyRows
<1>5. /\ Sets(c, op, op, "stmt", 1, "none", <<>>, "none", h)
      /\ db' = db \o v /\ c \in tx' /\ down' = down
  BY <1>1, <1>3 DEF BeginTransaction, NoError, Sets, poolVars
<1>6. Typed(c, op, op, "stmt", 1, "none", <<>>, "none", h)
  BY <1>1, <1>2, <1>3, <1>4, <1>5, PoolAssumption DEF Typed
<1>7. "lost" \notin Elems(h) => Free(db', op) /\ Behind(db', op, 1)
  <2> SUFFICES ASSUME "lost" \notin Elems(h) PROVE Free(db', op) /\ Behind(db', op, 1)
    OBVIOUS
  <2>1. Behind(db, op, 1) /\ Behind(v, op, 1)
    BY <1>1, <1>2, <1>3 DEF Paced
  <2>2. db' \in Seq(Rows) /\ Behind(db', op, 1)
    BY <1>3, <1>5, <2>1, ConcatRows
  <2> QED
    BY <2>2, RowFacts
<1>8. GoodConn(c, op, op, "stmt", 1, "none", <<>>, "none", h)
  BY <1>2, <1>3, <1>4, <1>5, <1>7 DEF GoodConn
<1>9. GoodOp(op, op, <<>>, "none", h)
  BY <1>3, <1>4, <1>7 DEF GoodOp, TornBy
<1>10. Effect(c, op, v, <<>>)
  BY <1>1 DEF Effect
<1> QED
  BY <1>1, <1>3, <1>5, <1>6, <1>8, <1>9, <1>10, OpStep

(* ROLLBACK.                                                               *)
LEMMA RollbackTransactionStep ==
  ASSUME PoolInv, NEW c \in Conns, RollbackTransaction(c)
  PROVE  PoolInv'
<1>1. PICK op, h : op = job[c] /\ h = hit[op]
  OBVIOUS
<1>2. phase[c] = "rollback" /\ phase[c] # "idle" /\ c \notin down
  BY DEF RollbackTransaction
<1>3. /\ op \in Ops /\ op # NoOp /\ h \in Seq(Kinds)
      /\ op \notin Singles /\ pos[c] \in 1 .. Size
      /\ job = [job EXCEPT ![c] = op] /\ pos = [pos EXCEPT ![c] = pos[c]]
      /\ outcome = [outcome EXCEPT ![op] = "none"] /\ hit = [hit EXCEPT ![op] = h]
      /\ ~TornBy(h) => InHand(c)
  BY <1>1, <1>2, Busy
<1>4. <<>> \in Seq(Rows) /\ Free(<<>>, op)
  BY EmptyRows
<1>5. /\ Sets(c, op, op, "failed", pos[c], "none", <<>>, "none", h)
      /\ db' = db /\ c \notin tx' /\ down' = down
  BY <1>3 DEF RollbackTransaction, RollBack, Goto, NoError, Sets, poolVars
<1>6. Typed(c, op, op, "failed", pos[c], "none", <<>>, "none", h)
  BY <1>1, <1>2, <1>3, <1>4, <1>5 DEF Typed
<1>7. GoodConn(c, op, op, "failed", pos[c], "none", <<>>, "none", h)
  BY <1>2, <1>3, <1>4, <1>5 DEF GoodConn
<1>8. GoodOp(op, op, <<>>, "none", h)
  BY <1>1, <1>3, <1>5 DEF GoodOp, InHand
<1> QED
  BY <1>1, <1>3, <1>5, <1>6, <1>7, <1>8, QuietStep

(* A failed transaction is given up: the error number that would ask for   *)
(* another try is not there by then.                                       *)
LEMMA TransactionFailedStep ==
  ASSUME PoolInv, NEW c \in Conns, TransactionFailed(c)
  PROVE  PoolInv'
<1>1. PICK op, v, h, er : op = job[c] /\ v = unc[c] /\ h = hit[op] /\ er = errno[c]
  OBVIOUS
<1>2. phase[c] = "failed" /\ phase[c] # "idle"
  BY DEF TransactionFailed
<1>3. /\ op \in Ops /\ op # NoOp /\ h \in Seq(Kinds) /\ v \in Seq(Rows)
      /\ op \notin Singles /\ pos[c] \in 1 .. Size /\ ConnOK(c) /\ tries[c] = 0
      /\ er \in {"none", "refused", "deadlock"}
      /\ (c \in tx => c \notin down) /\ (c \notin tx => v = <<>>)
      /\ pos = [pos EXCEPT ![c] = pos[c]] /\ errno = [errno EXCEPT ![c] = er]
      /\ unc = [unc EXCEPT ![c] = v] /\ hit = [hit EXCEPT ![op] = h]
      /\ ~TornBy(h) => InHand(c)
  BY <1>1, <1>2, Busy
<1>4. er # "deadlock" /\ (c \in down => er = "none") /\ ~(tries[c] \in 1 .. (Retries - 1))
  BY <1>1, <1>2, <1>3, PoolAssumption DEF ConnOK
<1>5. Finish(c, "failed") /\ UNCHANGED <<errno, down, poolVars, serverVars, hit>>
  BY <1>1, <1>4 DEF TransactionFailed
<1>6. /\ Sets(c, op, NoOp, "idle", pos[c], er, v, "failed", h)
      /\ db' = db /\ tx' = tx /\ down' = down
  BY <1>1, <1>3, <1>5 DEF Finish, Sets, poolVars, serverVars
<1>7. Typed(c, op, NoOp, "idle", pos[c], er, v, "failed", h)
  BY <1>1, <1>3, <1>6 DEF Typed
<1>8. GoodConn(c, op, NoOp, "idle", pos[c], er, v, "failed", h)
  BY <1>3, <1>4, <1>6 DEF GoodConn
<1>9. GoodOp(op, NoOp, v, "failed", h)
  BY <1>1, <1>2, <1>3, <1>6 DEF GoodOp, InHand
<1> QED
  BY <1>1, <1>3, <1>6, <1>7, <1>8, <1>9, QuietStep

(* COMMIT makes the whole transaction durable.                             *)
LEMMA CommitTransactionStep ==
  ASSUME PoolInv, NEW c \in Conns, CommitTransaction(c)
  PROVE  PoolInv'
<1>1. PICK op, v, h : op = job[c] /\ v = unc[c] /\ h = hit[op]
  OBVIOUS
<1>2. /\ phase[c] = "commit" /\ phase[c] # "idle" /\ c \notin down
      /\ MakeDurable(c) /\ NoError(c) /\ Finish(c, "ok") /\ UNCHANGED <<poolVars, down, hit>>
  BY DEF CommitTransaction
<1>3. /\ op \in Ops /\ op # NoOp /\ h \in Seq(Kinds) /\ db \in Seq(Rows)
      /\ pos[c] \in 1 .. Size /\ v \in Seq(Rows) /\ op \notin Singles
      /\ pos = [pos EXCEPT ![c] = pos[c]] /\ hit = [hit EXCEPT ![op] = h]
      /\ ~TornBy(h) => InHand(c)
  BY <1>1, <1>2, Busy
<1>4. <<>> \in Seq(Rows) /\ Free(<<>>, op)
  BY EmptyRows
<1>5. /\ Sets(c, op, NoOp, "idle", pos[c], "none", <<>>, "ok", h)
      /\ db' = db \o v /\ c \notin tx' /\ down' = down
  BY <1>1, <1>2, <1>3 DEF Finish, MakeDurable, NoError, Sets, poolVars
<1>6. ~TornBy(h) => Statements(op) \subseteq Elems(db')
  <2>1. ~TornBy(h) => Prefix(v, op, Size)
    BY <1>1, <1>2, <1>3 DEF InHand
  <2>2. Elems(db') = Elems(db) \cup Elems(v)
    BY <1>3, <1>5, ConcatRows
  <2> QED
    BY <1>3, <2>1, <2>2, RowFacts
<1>7. Typed(c, op, NoOp, "idle", pos[c], "none", <<>>, "ok", h)
  BY <1>1, <1>3, <1>4, <1>5 DEF Typed
<1>8. GoodConn(c, op, NoOp, "idle", pos[c], "none", <<>>, "ok", h)
  BY <1>3, <1>5 DEF GoodConn
<1>9. GoodOp(op, NoOp, <<>>, "ok", h)
  BY <1>4, <1>6 DEF GoodOp
<1>10. Effect(c, op, v, <<>>)
  BY <1>1 DEF Effect
<1> QED
  BY <1>1, <1>3, <1>5, <1>7, <1>8, <1>9, <1>10, OpStep

(* A single statement the server accepts: durable at once, or part of a    *)
(* transaction that was left open.                                         *)
LEMMA ExecuteSingle ==
  ASSUME PoolInv, NEW c \in Conns, Execute(c), job[c] \in Singles
  PROVE  PoolInv'
<1>1. PICK op, v, s : op = job[c] /\ v = unc[c] /\ s = hit[op]
  OBVIOUS
<1>2. /\ phase[c] = "stmt" /\ phase[c] # "idle" /\ c \notin down
      /\ Apply(c, <<op, pos[c]>>) /\ NoError(c) /\ Finish(c, "ok") /\ UNCHANGED <<poolVars, down>>
      /\ IF c \in tx THEN Hits(c, "open") ELSE UNCHANGED hit
  BY <1>1 DEF Execute
<1>3. /\ op \in Ops /\ op # NoOp /\ s \in Seq(Kinds) /\ db \in Seq(Rows) /\ v \in Seq(Rows)
      /\ pos[c] = 1 /\ 1 \in 1 .. Size
      /\ (c \notin tx => v = <<>>)
      /\ pos = [pos EXCEPT ![c] = 1] /\ unc = [unc EXCEPT ![c] = v]
      /\ hit = [hit EXCEPT ![op] = s]
      /\ ~TornBy(s) => InHand(c)
  BY <1>1, <1>2, Busy, PoolAssumption
<1>4. PICK x, y : x = <<op, 1>> /\ y = One(op, 1)
  OBVIOUS
<1>5. y \in Seq(Rows) /\ Append(db, x) = db \o y /\ Append(v, x) = v \o y /\ Elems(y) = {x}
  <2>1. op \in Ops /\ 1 \in 1 .. Size /\ db \in Seq(Rows) /\ v \in Seq(Rows)
    BY <1>3
  <2>2. y \in Seq(Rows) /\ Append(db, x) = db \o y /\ Elems(y) = {x}
    BY <1>4, <2>1, OneRow
  <2>3. Append(v, x) = v \o y
    BY <1>4, <2>1, OneRow
  <2> QED
    BY <2>2, <2>3
<1>6. Statements(op) = {x}
  BY <1>1, <1>4 DEF Statements, Length
<1>7. <<>> \in Seq(Rows) /\ Free(<<>>, op)
  BY EmptyRows
<1>8. CASE c \in tx
  <2>1. PICK h, u : h = Append(s, "open") /\ u = v \o y
    OBVIOUS
  <2>2. h \in Seq(Kinds) /\ Elems(h) = Elems(s) \cup {"open"}
    <3>1. "open" \in Kinds
      BY DEF Kinds
    <3> QED
      BY <1>3, <2>1, <3>1, HitFacts
  <2>3. u \in Seq(Rows) /\ Elems(u) = Elems(v) \cup {x}
    <3>1. v \in Seq(Rows) /\ y \in Seq(Rows)
      BY <1>3, <1>5
    <3>2. u \in Seq(Rows) /\ Elems(u) = Elems(v) \cup Elems(y)
      BY <2>1, <3>1, ConcatRows
    <3> QED
      BY <1>5, <3>2
  <2>4. unc' = [unc EXCEPT ![c] = u] /\ UNCHANGED <<tx, db>> /\ hit' = [hit EXCEPT ![op] = h]
    BY <1>1, <1>2, <1>3, <1>4, <1>5, <1>8, <2>1 DEF Apply, Hits
  <2>5. Sets(c, op, NoOp, "idle", 1, "none", u, "ok", h) /\ down' = down
    BY <1>1, <1>2, <1>3, <2>4 DEF Finish, NoError, Sets, poolVars
  <2>6. Typed(c, op, NoOp, "idle", 1, "none", u, "ok", h)
    BY <1>1, <1>2, <1>3, <1>8, <2>2, <2>3, <2>4, <2>5 DEF Typed
  <2>7. GoodConn(c, op, NoOp, "idle", 1, "none", u, "ok", h)
    BY <1>3 DEF GoodConn
  <2>8. GoodOp(op, NoOp, u, "ok", h)
    BY <1>1, <1>3, <1>6, <2>2, <2>3, <2>4 DEF GoodOp, InHand, TornBy
  <2>9. Effect(c, op, <<>>, u)
    BY <1>1, <1>2, <1>3, <1>4, <1>8, <2>1 DEF Effect
  <2>10. db' = db \o <<>>
    BY <1>3, <2>4, ConcatEmptySeq
  <2> QED
    BY <1>1, <1>3, <2>5, <2>6, <2>7, <2>8, <2>9, <2>10, OpStep
<1>9. CASE c \notin tx
  <2>1. db' = db \o y /\ UNCHANGED <<tx, unc, hit>>
    BY <1>2, <1>3, <1>4, <1>5, <1>9 DEF Apply
  <2>2. Sets(c, op, NoOp, "idle", 1, "none", <<>>, "ok", s) /\ down' = down
    BY <1>1, <1>2, <1>3, <1>9, <2>1 DEF Finish, NoError, Sets, poolVars
  <2>3. Typed(c, op, NoOp, "idle", 1, "none", <<>>, "ok", s)
    BY <1>1, <1>3, <1>7, <1>9, <2>1 DEF Typed
  <2>4. GoodConn(c, op, NoOp, "idle", 1, "none", <<>>, "ok", s)
    BY <1>3 DEF GoodConn
  <2>5. Elems(db') = Elems(db) \cup {x}
    <3>1. db \in Seq(Rows) /\ y \in Seq(Rows) /\ db' = db \o y
      BY <1>3, <1>5, <2>1
    <3>2. Elems(db') = Elems(db) \cup Elems(y)
      BY <3>1, ConcatRows
    <3> QED
      BY <1>5, <3>2
  <2>6. GoodOp(op, NoOp, <<>>, "ok", s)
    BY <1>6, <1>7, <2>5 DEF GoodOp
  <2>7. Effect(c, op, y, <<>>)
    BY <1>2, <1>3, <1>4, <1>9 DEF Effect
  <2> QED
    BY <1>1, <1>3, <2>1, <2>2, <2>3, <2>4, <2>6, <2>7, OpStep
<1> QED
  BY <1>8, <1>9

(* A statement of a transaction the server accepts.                        *)
LEMMA ExecuteOfTransaction ==
  ASSUME PoolInv, NEW c \in Conns, Execute(c), job[c] \notin Singles
  PROVE  PoolInv'
<1>1. PICK op, k, v, h : op = job[c] /\ k = pos[c] /\ v = unc[c] /\ h = hit[op]
  OBVIOUS
<1>2. /\ phase[c] = "stmt" /\ phase[c] # "idle" /\ c \notin down
      /\ Apply(c, <<op, k>>) /\ NoError(c) /\ UNCHANGED <<poolVars, down, hit>>
  BY <1>1 DEF Execute
<1>3. /\ op \in Ops /\ op # NoOp /\ h \in Seq(Kinds) /\ db \in Seq(Rows) /\ v \in Seq(Rows)
      /\ k \in 1 .. Size
      /\ (c \notin tx => v = <<>>)
      /\ job = [job EXCEPT ![c] = op] /\ phase = [phase EXCEPT ![c] = "stmt"]
      /\ pos = [pos EXCEPT ![c] = k] /\ unc = [unc EXCEPT ![c] = v]
      /\ outcome = [outcome EXCEPT ![op] = "none"] /\ hit = [hit EXCEPT ![op] = h]
      /\ "lost" \notin Elems(h) => Paced(c)
      /\ ~TornBy(h) => InHand(c)
  BY <1>1, <1>2, Busy
<1>4. PICK ph, ps :
        /\ \/ k = Size /\ ph = "commit" /\ ps = k
           \/ k # Size /\ ph = "stmt" /\ ps = k + 1
        /\ phase' = [phase EXCEPT ![c] = ph] /\ pos' = [pos EXCEPT ![c] = ps]
        /\ UNCHANGED <<job, tries, outcome>>
  <2>1. CASE k = Size
    <3>1. Goto(c, "commit")
      BY <1>1, <2>1 DEF Execute
    <3> QED
      BY <1>3, <2>1, <3>1 DEF Goto
  <2>2. CASE k # Size
    <3>1. pos' = [pos EXCEPT ![c] = k + 1] /\ UNCHANGED <<job, phase, tries, outcome>>
      BY <1>1, <2>2 DEF Execute
    <3> QED
      BY <1>3, <2>2, <3>1
  <2> QED
    BY <2>1, <2>2
<1>5. ps \in 1 .. Size /\ ph \in {"stmt", "commit"} /\ (ph = "stmt" => ps = k + 1) /\ (ph = "commit" => k = Size)
  BY <1>3, <1>4, PoolAssumption
<1>6. PICK x, y : x = <<op, k>> /\ y = One(op, k)
  OBVIOUS
<1>7. /\ y \in Seq(Rows) /\ Append(db, x) = db \o y /\ Append(v, x) = v \o y
      /\ Behind(y, op, k + 1)
      /\ Prefix(v, op, k - 1) => Prefix(v \o y, op, k)
  <2>1. op \in Ops /\ k \in 1 .. Size /\ db \in Seq(Rows) /\ v \in Seq(Rows)
    BY <1>3
  <2>2. y \in Seq(Rows) /\ Append(db, x) = db \o y /\ Behind(y, op, k + 1)
    BY <1>6, <2>1, OneRow
  <2>3. Append(v, x) = v \o y /\ (Prefix(v, op, k - 1) => Prefix(v \o y, op, k))
    BY <1>6, <2>1, OneRow
  <2> QED
    BY <2>2, <2>3
<1>8. "lost" \notin Elems(h) =>
        Behind(db, op, k + 1) /\ Behind(v, op, k + 1) /\ (c \in tx => Free(db, op))
  <2>1. "lost" \notin Elems(h) => Behind(db, op, k) /\ Behind(v, op, k) /\ (c \in tx => Free(db, op))
    BY <1>1, <1>2, <1>3 DEF Paced
  <2> QED
    BY <1>3, <2>1, BehindNext
<1>9. <<>> \in Seq(Rows) /\ Free(<<>>, op) /\ Behind(<<>>, op, k + 1)
  BY EmptyRows
<1>10. CASE c \in tx
  <2>1. PICK u : u = v \o y
    OBVIOUS
  <2>2. unc' = [unc EXCEPT ![c] = u] /\ UNCHANGED <<tx, db>>
    BY <1>1, <1>2, <1>6, <1>7, <1>10, <2>1 DEF Apply
  <2>3. u \in Seq(Rows) /\ ("lost" \notin Elems(h) => Behind(u, op, k + 1))
    <3>1. v \in Seq(Rows) /\ y \in Seq(Rows)
      BY <1>3, <1>7
    <3>2. /\ v \o y \in Seq(Rows)
          /\ Behind(v \o y, op, k + 1) <=> Behind(v, op, k + 1) /\ Behind(y, op, k + 1)
      BY <3>1, ConcatRows
    <3> QED
      BY <1>7, <1>8, <2>1, <3>2
  <2>4. ~TornBy(h) => Prefix(u, op, k) /\ Free(db, op)
    BY <1>1, <1>2, <1>3, <1>7, <1>10, <2>1 DEF InHand
  <2>5. Sets(c, op, op, ph, ps, "none", u, "none", h) /\ tx' = tx /\ down' = down /\ db' = db
    BY <1>1, <1>2, <1>3, <1>4, <2>2 DEF NoError, Sets, poolVars
  <2>6. Typed(c, op, op, ph, ps, "none", u, "none", h)
    BY <1>1, <1>2, <1>3, <1>5, <1>10, <2>3, <2>5 DEF Typed
  <2>7. ph = "stmt" => ps - 1 = k
    BY <1>3, <1>5
  <2>8. GoodConn(c, op, op, ph, ps, "none", u, "none", h)
    BY <1>1, <1>2, <1>3, <1>5, <1>8, <1>10, <2>3, <2>4, <2>5, <2>7 DEF GoodConn
  <2>9. GoodOp(op, op, u, "none", h)
    BY <1>3, <2>4, <2>5 DEF GoodOp
  <2>10. Effect(c, op, <<>>, u)
    BY <1>1, <1>2, <1>6, <1>10, <2>1 DEF Effect
  <2>11. db' = db \o <<>>
    BY <1>3, <2>5, ConcatEmptySeq
  <2> QED
    BY <1>1, <1>3, <2>5, <2>6, <2>8, <2>9, <2>10, <2>11, OpStep
<1>11. CASE c \notin tx
  <2>1. db' = db \o y /\ UNCHANGED <<tx, unc>>
    BY <1>2, <1>6, <1>7, <1>11 DEF Apply
  <2>2. TornBy(h)
    BY <1>1, <1>2, <1>3, <1>11 DEF InHand
  <2>3. Sets(c, op, op, ph, ps, "none", <<>>, "none", h) /\ c \notin tx' /\ down' = down
    BY <1>1, <1>2, <1>3, <1>4, <1>11, <2>1 DEF NoError, Sets, poolVars
  <2>4. Typed(c, op, op, ph, ps, "none", <<>>, "none", h)
    BY <1>1, <1>3, <1>5, <1>9, <2>3 DEF Typed
  <2>5. "lost" \notin Elems(h) => Behind(db', op, k + 1)
    <3>1. db \in Seq(Rows) /\ y \in Seq(Rows) /\ db' = db \o y
      BY <1>3, <1>7, <2>1
    <3>2. Behind(db', op, k + 1) <=> Behind(db, op, k + 1) /\ Behind(y, op, k + 1)
      BY <3>1, ConcatRows
    <3> QED
      BY <1>7, <1>8, <3>2
  <2>6. GoodConn(c, op, op, ph, ps, "none", <<>>, "none", h)
    BY <1>1, <1>2, <1>3, <1>5, <1>9, <2>2, <2>3, <2>5 DEF GoodConn
  <2>7. GoodOp(op, op, <<>>, "none", h)
    BY <2>2 DEF GoodOp
  <2>8. Effect(c, op, y, <<>>)
    BY <1>1, <1>2, <1>6, <1>11 DEF Effect
  <2> QED
    BY <1>1, <1>3, <2>1, <2>3, <2>4, <2>6, <2>7, <2>8, OpStep
<1> QED
  BY <1>10, <1>11

(* A statement that is refused, or chosen as a deadlock victim.            *)
LEMMA ExecuteFailsStep ==
  ASSUME PoolInv, NEW c \in Conns, ExecuteFails(c)
  PROVE  PoolInv'
<1>1. PICK op, v, s : op = job[c] /\ v = unc[c] /\ s = hit[op]
  OBVIOUS
<1>2. /\ phase[c] = "stmt" /\ phase[c] # "idle" /\ c \notin down
      /\ UNCHANGED <<poolVars, down>>
  BY DEF ExecuteFails
<1>3. /\ op \in Ops /\ op # NoOp /\ s \in Seq(Kinds)
      /\ pos[c] \in 1 .. Size /\ v \in Seq(Rows)
      /\ (op \in Singles => pos[c] = 1) /\ (c \notin tx => v = <<>>)
      /\ job = [job EXCEPT ![c] = op] /\ pos = [pos EXCEPT ![c] = pos[c]]
      /\ unc = [unc EXCEPT ![c] = v] /\ outcome = [outcome EXCEPT ![op] = "none"]
      /\ "lost" \notin Elems(s) => Paced(c)
      /\ ~TornBy(s) => InHand(c)
  BY <1>1, <1>2, Busy
<1>4. PICK kind \in {"refused", "deadlock"} :
        /\ hit' = [hit EXCEPT ![op] = Append(s, kind)] /\ errno' = [errno EXCEPT ![c] = kind]
        /\ IF kind = "deadlock" THEN RollBack(c) ELSE UNCHANGED serverVars
  BY <1>1 DEF ExecuteFails, Hits
<1>5. PICK h : h = Append(s, kind)
  OBVIOUS
<1>6. h \in Seq(Kinds) /\ Elems(h) = Elems(s) \cup {kind}
  <2>1. kind \in Kinds
    BY DEF Kinds
  <2> QED
    BY <1>3, <1>5, <2>1, HitFacts
<1>7. ~TornBy(h) => ~TornBy(s) /\ "lost" \notin Elems(s)
  BY <1>6 DEF TornBy
<1>8. <<>> \in Seq(Rows) /\ Free(<<>>, op)
  BY EmptyRows
<1>9. PICK u \in {<<>>, v} :
        /\ unc' = [unc EXCEPT ![c] = u] /\ tx' \in {tx, tx \ {c}} /\ db' = db
        /\ c \notin tx' => u = <<>>
  BY <1>3, <1>4 DEF RollBack, serverVars
<1>10. ~TornBy(h) => Free(db, op)
  BY <1>1, <1>3, <1>7 DEF InHand
<1>11. CASE op \in Singles
  <2>1. Finish(c, "failed")
    BY <1>1, <1>11 DEF ExecuteFails
  <2>2. Sets(c, op, NoOp, "idle", pos[c], kind, u, "failed", h) /\ down' = down
    BY <1>1, <1>2, <1>3, <1>4, <1>5, <1>9, <2>1 DEF Finish, Sets, poolVars
  <2>3. Typed(c, op, NoOp, "idle", pos[c], kind, u, "failed", h)
    BY <1>1, <1>2, <1>3, <1>6, <1>8, <1>9, <2>2 DEF Typed
  <2>4. GoodConn(c, op, NoOp, "idle", pos[c], kind, u, "failed", h)
    BY <1>2, <1>3, <2>2 DEF GoodConn
  <2>5. ~TornBy(h) => Free(u, op)
    <3>1. ~TornBy(h) => Behind(v, op, 1)
      BY <1>1, <1>2, <1>3, <1>7, <1>11 DEF Paced
    <3> QED
      BY <1>3, <1>8, <1>9, <3>1, RowFacts
  <2>6. GoodOp(op, NoOp, u, "failed", h)
    BY <1>9, <1>10, <2>5 DEF GoodOp
  <2> QED
    BY <1>1, <1>3, <1>9, <2>2, <2>3, <2>4, <2>6, QuietStep
<1>12. CASE op \notin Singles
  <2>1. Goto(c, "rollback")
    BY <1>1, <1>12 DEF ExecuteFails
  <2>2. Sets(c, op, op, "rollback", pos[c], kind, u, "none", h) /\ down' = down
    BY <1>1, <1>2, <1>3, <1>4, <1>5, <1>9, <2>1 DEF Goto, Sets, poolVars
  <2>3. Typed(c, op, op, "rollback", pos[c], kind, u, "none", h)
    BY <1>1, <1>2, <1>3, <1>6, <1>8, <1>9, <2>2 DEF Typed
  <2>4. GoodConn(c, op, op, "rollback", pos[c], kind, u, "none", h)
    BY <1>2, <1>3, <1>12, <2>2 DEF GoodConn
  <2>5. GoodOp(op, op, u, "none", h)
    BY <1>3, <1>9, <1>10 DEF GoodOp
  <2> QED
    BY <1>1, <1>3, <1>9, <2>2, <2>3, <2>4, <2>5, QuietStep
<1> QED
  BY <1>11, <1>12

(* What a statement that returns false does to connection and operation.   *)
Returns(c, op, j, ph, ps, o) ==
    /\ job' = [job EXCEPT ![c] = j] /\ phase' = [phase EXCEPT ![c] = ph]
    /\ pos' = [pos EXCEPT ![c] = ps] /\ outcome' = [outcome EXCEPT ![op] = o]
    /\ tries' = tries /\ ps \in 1 .. Size
    /\ \/ phase[c] = "begin" /\ op \notin Singles /\ j = op /\ ph = "stmt" /\ ps = 1 /\ o = "none"
       \/ phase[c] = "stmt" /\ op \in Singles /\ j = NoOp /\ ph = "idle" /\ o = "failed"
       \/ phase[c] = "stmt" /\ op \notin Singles /\ j = op /\ ph = "rollback" /\ o = "none"
       \/ phase[c] = "rollback" /\ op \notin Singles /\ j = op /\ ph = "failed" /\ o = "none"
       \/ phase[c] = "commit" /\ op \notin Singles /\ j = NoOp /\ ph = "idle" /\ o = "ok"

(* A statement that returns false leads to one of these.                   *)
LEMMA ReturnsFalseFacts ==
  ASSUME PoolInv, NEW c \in Conns, NEW op, op = job[c], ReturnsFalse(c)
  PROVE  \E j, ph, ps, o : Returns(c, op, j, ph, ps, o)
<1>1. phase[c] # "idle"
  BY DEF ReturnsFalse
<1>2. /\ pos[c] \in 1 .. Size /\ 1 \in 1 .. Size
      /\ op \in Singles => phase[c] = "stmt"
      /\ job = [job EXCEPT ![c] = op] /\ pos = [pos EXCEPT ![c] = pos[c]]
      /\ outcome = [outcome EXCEPT ![op] = "none"]
  BY <1>1, Busy, PoolAssumption
<1>3. CASE phase[c] = "begin"
  <2>1. Returns(c, op, op, "stmt", 1, "none")
    BY <1>2, <1>3 DEF Returns, ReturnsFalse, Goto, Finish
  <2> QED
    BY <2>1
<1>4. CASE phase[c] = "stmt" /\ op \in Singles
  <2>1. Returns(c, op, NoOp, "idle", pos[c], "failed")
    BY <1>2, <1>4 DEF Returns, ReturnsFalse, Finish
  <2> QED
    BY <2>1
<1>5. CASE phase[c] = "stmt" /\ op \notin Singles
  <2>1. Returns(c, op, op, "rollback", pos[c], "none")
    BY <1>2, <1>5 DEF Returns, ReturnsFalse, Goto
  <2> QED
    BY <2>1
<1>6. CASE phase[c] = "rollback"
  <2>1. Returns(c, op, op, "failed", pos[c], "none")
    BY <1>2, <1>6 DEF Returns, ReturnsFalse, Goto
  <2> QED
    BY <2>1
<1>7. CASE phase[c] = "commit"
  <2>1. Returns(c, op, NoOp, "idle", pos[c], "ok")
    BY <1>2, <1>7 DEF Returns, ReturnsFalse, Finish
  <2> QED
    BY <2>1
<1> QED
  BY <1>3, <1>4, <1>5, <1>6, <1>7 DEF ReturnsFalse

(* A connection without a handle fails every statement.                    *)
LEMMA ExecuteDownStep ==
  ASSUME PoolInv, NEW c \in Conns, ExecuteDown(c)
  PROVE  PoolInv'
<1>1. PICK op, h : op = job[c] /\ h = hit[op]
  OBVIOUS
<1>2. c \in down /\ ReturnsFalse(c) /\ UNCHANGED <<poolVars, serverVars, errno, down, hit>>
  BY DEF ExecuteDown
<1>3. PICK j, ph, ps, o : Returns(c, op, j, ph, ps, o)
  BY <1>1, <1>2, ReturnsFalseFacts
<1>4. phase[c] # "idle"
  BY <1>2 DEF ReturnsFalse
<1>5. /\ op \in Ops /\ op # NoOp /\ h \in Seq(Kinds) /\ ConnOK(c)
      /\ c \notin tx /\ unc[c] = <<>>
      /\ unc = [unc EXCEPT ![c] = unc[c]] /\ errno = [errno EXCEPT ![c] = errno[c]]
      /\ hit = [hit EXCEPT ![op] = h]
      /\ "lost" \notin Elems(h) => Paced(c)
      /\ ~TornBy(h) => InHand(c)
  BY <1>1, <1>2, <1>4, Busy
<1>6. errno[c] = "none"
  BY <1>2, <1>5 DEF ConnOK
<1>7. <<>> \in Seq(Rows) /\ Free(<<>>, op) /\ Behind(<<>>, op, ps)
  BY EmptyRows
<1>8. /\ Sets(c, op, j, ph, ps, "none", <<>>, o, h)
      /\ db' = db /\ c \notin tx' /\ c \in down'
  BY <1>2, <1>3, <1>5, <1>6 DEF Returns, Sets, poolVars, serverVars
<1>9. Typed(c, op, j, ph, ps, "none", <<>>, o, h)
  BY <1>1, <1>3, <1>5, <1>7, <1>8 DEF Returns, Typed
<1>10. j = op /\ ph = "stmt" /\ "lost" \notin Elems(h) => Behind(db, op, ps)
  BY <1>1, <1>3, <1>5 DEF Returns, Paced
<1>11. GoodConn(c, op, j, ph, ps, "none", <<>>, o, h)
  BY <1>3, <1>5, <1>7, <1>8, <1>10 DEF Returns, GoodConn
<1>12. ~TornBy(h) => Free(db, op) /\ o # "ok"
  BY <1>1, <1>3, <1>5 DEF Returns, InHand
<1>13. GoodOp(op, j, <<>>, o, h)
  BY <1>7, <1>8, <1>12 DEF GoodOp
<1> QED
  BY <1>1, <1>5, <1>8, <1>9, <1>11, <1>13, QuietStep

(* START TRANSACTION, ROLLBACK or COMMIT is refused and nobody looks.      *)
LEMMA ControlRefusedStep ==
  ASSUME PoolInv, NEW c \in Conns, ControlRefused(c)
  PROVE  PoolInv'
<1>1. PICK op, s, v, kind : op = job[c] /\ s = hit[op] /\ v = unc[c] /\ kind = phase[c]
  OBVIOUS
<1>2. PICK h : h = Append(s, kind)
  OBVIOUS
<1>3. /\ kind \in {"begin", "rollback", "commit"} /\ phase[c] # "idle" /\ c \notin down
      /\ hit' = [hit EXCEPT ![op] = h] /\ errno' = [errno EXCEPT ![c] = "refused"]
      /\ UNCHANGED serverVars \/ (phase[c] = "commit" /\ RollBack(c))
      /\ ReturnsFalse(c) /\ UNCHANGED <<poolVars, down>>
  BY <1>1, <1>2 DEF ControlRefused, Hits
<1>4. PICK j, ph, ps, o : Returns(c, op, j, ph, ps, o)
  BY <1>1, <1>3, ReturnsFalseFacts
<1>5. /\ op \in Ops /\ op # NoOp /\ s \in Seq(Kinds) /\ v \in Seq(Rows) /\ db \in Seq(Rows)
      /\ (c \notin tx => v = <<>>) /\ unc = [unc EXCEPT ![c] = v]
      /\ "lost" \notin Elems(s) => Paced(c)
      /\ ~TornBy(s) => InHand(c)
  BY <1>1, <1>3, Busy
<1>6. h \in Seq(Kinds) /\ Elems(h) = Elems(s) \cup {kind}
  <2>1. kind \in Kinds
    BY <1>3 DEF Kinds
  <2> QED
    BY <1>2, <1>5, <2>1, HitFacts
<1>7. <<>> \in Seq(Rows) /\ Free(<<>>, op)
  BY EmptyRows
<1>8. PICK u \in {<<>>, v} :
        /\ unc' = [unc EXCEPT ![c] = u] /\ tx' \in {tx, tx \ {c}} /\ db' = db
        /\ (c \notin tx' => u = <<>>) /\ (u = v \/ kind = "commit")
  BY <1>1, <1>3, <1>5 DEF RollBack, serverVars
<1>9. Sets(c, op, j, ph, ps, "refused", u, o, h) /\ down' = down
  BY <1>3, <1>4, <1>8 DEF Returns, Sets, poolVars
<1>10. Typed(c, op, j, ph, ps, "refused", u, o, h)
  BY <1>1, <1>3, <1>4, <1>5, <1>6, <1>7, <1>8, <1>9 DEF Returns, Typed
<1>11. j = op /\ ph = "stmt" /\ "lost" \notin Elems(h) =>
         Behind(db, op, ps) /\ Behind(u, op, ps) /\ Free(db, op)
  <2> SUFFICES ASSUME j = op, ph = "stmt", "lost" \notin Elems(h)
               PROVE  Behind(db, op, ps) /\ Behind(u, op, ps) /\ Free(db, op)
    OBVIOUS
  <2>1. phase[c] = "begin" /\ ps = 1 /\ u = v
    BY <1>1, <1>4, <1>5, <1>8 DEF Returns
  <2>2. Behind(db, op, 1) /\ Behind(v, op, 1)
    BY <1>1, <1>5, <1>6, <2>1 DEF Paced
  <2> QED
    BY <1>5, <2>1, <2>2, RowFacts
<1>12. ~TornBy(h) => kind = "commit" /\ j = NoOp /\ o = "ok"
  BY <1>1, <1>3, <1>4, <1>6 DEF TornBy, Returns
<1>13. GoodConn(c, op, j, ph, ps, "refused", u, o, h)
  BY <1>3, <1>4, <1>5, <1>8, <1>9, <1>11, <1>12 DEF Returns, GoodConn
<1>14. ~TornBy(h) => Free(db, op) /\ Statements(op) = Elems(v)
  <2>1. ~TornBy(h) => ~TornBy(s)
    BY <1>6 DEF TornBy
  <2>2. ~TornBy(h) => Free(db, op) /\ Prefix(v, op, Size)
    BY <1>1, <1>5, <1>12, <2>1 DEF InHand
  <2>3. op \notin Singles
    BY <1>1, <1>3, <1>4 DEF Returns
  <2> QED
    BY <1>5, <2>2, <2>3, RowFacts
<1>15. GoodOp(op, j, u, o, h)
  BY <1>6, <1>7, <1>8, <1>12, <1>14 DEF GoodOp
<1> QED
  BY <1>1, <1>5, <1>8, <1>9, <1>10, <1>13, <1>15, QuietStep

(* A broken connection leaves nothing open, and any or none of what was.   *)
Leaves(c, op, h, t) ==
    /\ hit' = [hit EXCEPT ![op] = h] /\ h \in Seq(Kinds)
    /\ Elems(hit[op]) \subseteq Elems(h) /\ "lost" \in Elems(h)
    /\ Effect(c, op, t, <<>>) /\ db' = db \o t

(* A connection that breaks leaves just that.                              *)
LEMMA BreaksFacts ==
  ASSUME PoolInv, NEW c \in Conns, Breaks(c), NEW op, op = job[c]
  PROVE  /\ phase[c] # "idle" /\ op \in Ops
         /\ \E h, t : Leaves(c, op, h, t)
         /\ unc' = [unc EXCEPT ![c] = <<>>] /\ tx' = tx \ {c}
         /\ errno' = [errno EXCEPT ![c] = "none"] /\ UNCHANGED poolVars
<1>1. /\ phase[c] # "idle" /\ errno' = [errno EXCEPT ![c] = "none"] /\ UNCHANGED poolVars
      /\ hit' = [hit EXCEPT ![op] = Append(hit[op], "lost")]
  BY DEF Breaks, Hits, NoError
<1>2. /\ op \in Ops /\ hit[op] \in Seq(Kinds) /\ db \in Seq(Rows) /\ pos[c] \in 1 .. Size
      /\ (c \notin tx => unc[c] = <<>>) /\ unc = [unc EXCEPT ![c] = unc[c]]
  BY <1>1, Busy
<1>3. PICK h : h = Append(hit[op], "lost")
  OBVIOUS
<1>4. h \in Seq(Kinds) /\ Elems(h) = Elems(hit[op]) \cup {"lost"}
  <2>1. "lost" \in Kinds
    BY DEF Kinds
  <2> QED
    BY <1>2, <1>3, <2>1, HitFacts
<1>5. PICK k : k = pos[c]
  OBVIOUS
<1>6. /\ unc' = [unc EXCEPT ![c] = <<>>] /\ tx' = tx \ {c}
      /\ \E t : Effect(c, op, t, <<>>) /\ db' = db \o t
  <2>1. CASE RollBack(c)
    <3>1. db' = db \o <<>> /\ unc' = [unc EXCEPT ![c] = <<>>] /\ tx' = tx \ {c}
      BY <1>2, <2>1, ConcatEmptySeq DEF RollBack
    <3>2. Effect(c, op, <<>>, <<>>)
      BY DEF Effect
    <3> QED
      BY <3>1, <3>2
  <2>2. CASE MakeDurable(c)
    <3>1. db' = db \o unc[c] /\ unc' = [unc EXCEPT ![c] = <<>>] /\ tx' = tx \ {c}
      BY <2>2 DEF MakeDurable
    <3>2. Effect(c, op, unc[c], <<>>)
      BY DEF Effect
    <3> QED
      BY <3>1, <3>2
  <2>3. CASE phase[c] = "stmt" /\ c \notin tx /\ db' = Append(db, <<job[c], pos[c]>>) /\ UNCHANGED <<tx, unc>>
    <3>1. db' = db \o One(op, k)
      BY <1>2, <1>5, <2>3, OneRow
    <3>2. Effect(c, op, One(op, k), <<>>)
      BY <1>5, <2>3 DEF Effect
    <3>3. unc' = [unc EXCEPT ![c] = <<>>] /\ tx' = tx \ {c}
      BY <1>2, <2>3
    <3> QED
      BY <3>1, <3>2, <3>3
  <2> QED
    BY <2>1, <2>2, <2>3 DEF Breaks
<1>7. PICK t : Effect(c, op, t, <<>>) /\ db' = db \o t
  BY <1>6
<1>8. Leaves(c, op, h, t)
  BY <1>1, <1>3, <1>4, <1>7 DEF Leaves
<1> QED
  BY <1>1, <1>2, <1>6, <1>8

(* The connection is lost, opened again, and the statement sent again.     *)
LEMMA ConnectionLostStep ==
  ASSUME PoolInv, NEW c \in Conns, ConnectionLost(c)
  PROVE  PoolInv'
<1>1. PICK op : op = job[c]
  OBVIOUS
<1>2. Breaks(c) /\ UNCHANGED <<job, phase, pos, tries, down, outcome>>
  BY DEF ConnectionLost
<1>3. PICK h, t : Leaves(c, op, h, t)
  BY <1>1, <1>2, BreaksFacts
<1>4. /\ phase[c] # "idle" /\ op \in Ops
      /\ unc' = [unc EXCEPT ![c] = <<>>] /\ tx' = tx \ {c}
      /\ errno' = [errno EXCEPT ![c] = "none"] /\ UNCHANGED poolVars
  BY <1>1, <1>2, BreaksFacts
<1>5. /\ op # NoOp /\ pos[c] \in 1 .. Size
      /\ op \in Singles => phase[c] = "stmt" /\ pos[c] = 1
      /\ job = [job EXCEPT ![c] = op] /\ phase = [phase EXCEPT ![c] = phase[c]]
      /\ pos = [pos EXCEPT ![c] = pos[c]] /\ outcome = [outcome EXCEPT ![op] = "none"]
  BY <1>1, <1>4, Busy
<1>6. phase[c] \in {"begin", "stmt", "rollback", "commit"}
  BY <1>2 DEF Breaks
<1>7. Sets(c, op, op, phase[c], pos[c], "none", <<>>, "none", h) /\ c \notin tx' /\ down' = down
  BY <1>2, <1>3, <1>4, <1>5 DEF Leaves, Sets, poolVars
<1>8. TornBy(h) /\ "lost" \in Elems(h) /\ Effect(c, op, t, <<>>) /\ db' = db \o t
  BY <1>3 DEF Leaves, TornBy
<1>9. Typed(c, op, op, phase[c], pos[c], "none", <<>>, "none", h)
  <2>1. <<>> \in Seq(Rows)
    BY EmptyRows
  <2> QED
    BY <1>3, <1>4, <1>5, <1>6, <1>7, <2>1 DEF Leaves, Typed
<1>10. GoodConn(c, op, op, phase[c], pos[c], "none", <<>>, "none", h)
  BY <1>4, <1>5, <1>7, <1>8 DEF GoodConn
<1>11. GoodOp(op, op, <<>>, "none", h)
  BY <1>8 DEF GoodOp
<1> QED
  BY <1>1, <1>4, <1>7, <1>8, <1>9, <1>10, <1>11, OpStep

(* The connection is lost and cannot be opened again.                      *)
LEMMA ReconnectFailsStep ==
  ASSUME PoolInv, NEW c \in Conns, ReconnectFails(c)
  PROVE  PoolInv'
<1>1. PICK op : op = job[c]
  OBVIOUS
<1>2. Breaks(c) /\ down' \in {down, down \cup {c}} /\ ReturnsFalse(c)
  BY DEF ReconnectFails
<1>3. PICK h, t : Leaves(c, op, h, t)
  BY <1>1, <1>2, BreaksFacts
<1>4. /\ phase[c] # "idle" /\ op \in Ops
      /\ unc' = [unc EXCEPT ![c] = <<>>] /\ tx' = tx \ {c}
      /\ errno' = [errno EXCEPT ![c] = "none"] /\ UNCHANGED poolVars
  BY <1>1, <1>2, BreaksFacts
<1>5. PICK j, ph, ps, o : Returns(c, op, j, ph, ps, o)
  BY <1>1, <1>2, ReturnsFalseFacts
<1>6. op # NoOp
  BY <1>1, <1>4, Busy
<1>7. Sets(c, op, j, ph, ps, "none", <<>>, o, h) /\ c \notin tx'
  BY <1>2, <1>3, <1>4, <1>5 DEF Leaves, Returns, Sets, poolVars
<1>8. TornBy(h) /\ "lost" \in Elems(h) /\ Effect(c, op, t, <<>>) /\ db' = db \o t
  BY <1>3 DEF Leaves, TornBy
<1>9. Typed(c, op, j, ph, ps, "none", <<>>, o, h)
  <2>1. <<>> \in Seq(Rows)
    BY EmptyRows
  <2> QED
    BY <1>3, <1>4, <1>5, <1>6, <1>7, <2>1 DEF Leaves, Returns, Typed
<1>10. GoodConn(c, op, j, ph, ps, "none", <<>>, o, h)
  BY <1>5, <1>6, <1>7, <1>8 DEF Returns, GoodConn
<1>11. GoodOp(op, j, <<>>, o, h)
  BY <1>8 DEF GoodOp
<1> QED
  BY <1>1, <1>4, <1>7, <1>8, <1>9, <1>10, <1>11, OpStep

-----------------------------------------------------------------------------
(* Steps that leave the database, the faults and the outcomes alone, and   *)
(* give no operation up that is waiting for a COMMIT.                      *)
LEMMA CalmStep ==
  ASSUME PoolInv, UNCHANGED <<db, outcome, hit>>,
         \A c \in Conns : unc'[c] = <<>> \/ unc'[c] = unc[c],
         \A c \in Conns : unc'[c] = <<>> \/ job'[c] = job[c] \/ job[c] = NoOp
  PROVE  /\ \A q \in Ops : OpInv(q)'
         /\ \A q, kind : Met(q, kind)' <=> Met(q, kind)
         /\ \A q : Torn(q)' <=> Torn(q)
<1>1. \A q, kind : Met(q, kind)' <=> Met(q, kind)
  BY DEF Met
<1>2. \A q : Torn(q)' <=> Torn(q)
  BY <1>1 DEF Torn
<1>3. ASSUME NEW q \in Ops PROVE OpInv(q)'
  <2>1. OpInv(q) /\ Durable(q)' = Durable(q) /\ q # NoOp /\ Free(<<>>, q)
    BY EmptyRows, PoolAssumption DEF PoolInv, Durable, Statements, Length
  <2>2. ASSUME NEW c \in Conns, ~Free(unc'[c], q) PROVE Left(c, q)'
    <3>1. unc'[c] = unc[c] /\ (job'[c] = job[c] \/ job[c] = NoOp)
      BY <2>1, <2>2
    <3>2. Left(c, q)
      BY <2>1, <2>2, <3>1 DEF OpInv
    <3>3. \A d \in Conns \ {c} : Free(unc'[d], q)
      BY <2>1, <3>2 DEF Left
    <3>4. \/ q = job'[c]
          \/ outcome[q] # "none" /\ Torn(q)
          \/ outcome[q] = "ok" /\ Statements(q) \subseteq Elems(unc[c])
      BY <2>1, <3>1, <3>2 DEF Left
    <3> QED
      BY <1>1, <1>2, <3>1, <3>2, <3>3, <3>4 DEF Left, Statements, Length
  <2> QED
    BY <1>1, <1>2, <2>1, <2>2 DEF OpInv, Statements, Length
<1> QED
  BY <1>1, <1>2, <1>3

(* An operation that has not been started is given to an idle connection.  *)
LEMMA StartStep ==
  ASSUME PoolInv, NEW c \in Conns, NEW op \in Ops, phase[c] = "idle", Start(c, op), Pending(op),
         op \in Async => c \in Workers /\ op \in Elems(order), op \in Directs => c \in Synch,
         queue' \in Seq(Async), \A i, j \in 1 .. Len(queue') : queue'[i] = queue'[j] => i = j,
         Elems(queue') \subseteq Elems(queue) \ {op}
  PROVE  PoolInv'
<1>1. TypeOK /\ db \in Seq(Rows) /\ unc[c] \in Seq(Rows) /\ \A d \in Conns : ConnOK(d)
  BY DEF PoolInv, TypeOK, Rows
<1>2. /\ op # NoOp /\ outcome[op] = "none" /\ Free(db, op) /\ \A d \in Conns : job[d] # op
      /\ job[c] = NoOp
  BY <1>1, PoolAssumption DEF PoolInv, Accounted, ConnOK
<1>3. UNCHANGED <<order, pool, errno, down, tx, unc, db, outcome, hit>>
  BY DEF Start, serverVars
<1>4. PICK ph : ph = IF op \in Singles THEN "stmt" ELSE "begin"
  OBVIOUS
<1>5. /\ job' \in [Conns -> Ops \cup {NoOp}] /\ job'[c] = op
      /\ \A d \in Conns \ {c} : job'[d] = job[d]
  BY <1>1 DEF Start, TypeOK
<1>6. /\ phase' \in [Conns -> {"idle", "begin", "stmt", "rollback", "failed", "commit"}]
      /\ phase'[c] = ph /\ \A d \in Conns \ {c} : phase'[d] = phase[d]
  <2>1. phase' = [phase EXCEPT ![c] = ph]
    BY <1>4 DEF Start
  <2> QED
    BY <1>1, <1>4, <2>1 DEF TypeOK
<1>7. /\ pos' \in [Conns -> 1 .. Size] /\ pos'[c] = 1
      /\ \A d \in Conns \ {c} : pos'[d] = pos[d]
  BY <1>1, PoolAssumption DEF Start, TypeOK
<1>8. /\ tries' \in [Conns -> 0 .. Retries] /\ tries'[c] = 0
      /\ \A d \in Conns \ {c} : tries'[d] = tries[d]
  BY <1>1, PoolAssumption DEF Start, TypeOK
<1>9. TypeOK'
  BY <1>1, <1>3, <1>5, <1>6, <1>7, <1>8 DEF TypeOK
<1>10. /\ \A q \in Ops : OpInv(q)'
       /\ \A q, kind : Met(q, kind)' <=> Met(q, kind)
       /\ \A q : Torn(q)' <=> Torn(q)
  <2>1. \A d \in Conns : unc'[d] = unc[d] /\ (job'[d] = job[d] \/ job[d] = NoOp)
    BY <1>2, <1>3, <1>5
  <2> QED
    BY <1>3, <2>1, CalmStep
<1>11. ConnOK(c)'
  <2>1. Free(unc[c], op)
    BY <1>2, NotLeft
  <2>2. Behind(db, op, 1) /\ Behind(unc[c], op, 1)
    BY <1>1, <1>2, <2>1, RowFacts
  <2>3. errno[c] \in {"none", "refused", "deadlock"} /\ (c \in down => errno[c] = "none")
    BY <1>1 DEF TypeOK, ConnOK
  <2>4. ph \in {"begin", "stmt"} /\ (ph = "stmt" <=> op \in Singles)
    BY <1>4
  <2>5. Paced(c)'
    BY <1>2, <1>3, <1>5, <1>6, <1>7, <2>2 DEF Paced
  <2>6. InHand(c)'
    BY <1>2, <1>3, <1>5, <1>6, <2>4 DEF InHand
  <2> QED
    BY <1>2, <1>3, <1>5, <1>6, <1>7, <1>8, <2>3, <2>4, <2>5, <2>6 DEF ConnOK
<1>12. ASSUME NEW d \in Conns \ {c} PROVE ConnOK(d)'
  <2>1. PICK q : q = job[d]
    OBVIOUS
  <2>2. /\ job'[d] = q /\ phase'[d] = phase[d] /\ pos'[d] = pos[d] /\ tries'[d] = tries[d]
        /\ UNCHANGED <<errno, down, tx, unc, db, outcome, hit>>
    BY <1>3, <1>5, <1>6, <1>7, <1>8, <2>1
  <2>3. (Met(job[d], "lost")' <=> Met(q, "lost")) /\ (Torn(job[d])' <=> Torn(q))
    BY <2>2 DEF Met, Torn
  <2>4. (Paced(d) => Paced(d)') /\ (InHand(d) => InHand(d)')
    BY <2>1, <2>2 DEF Paced, InHand
  <2> QED
    BY <1>1, <2>1, <2>2, <2>3, <2>4 DEF ConnOK
<1>13. Accounted'
  <2>1. \A d, e \in Conns : job'[d] = job'[e] /\ job'[d] # NoOp => d = e
    BY <1>2, <1>5 DEF PoolInv, Accounted
  <2>2. ASSUME NEW q \in Ops, Pending(q)'
        PROVE  outcome'[q] = "none" /\ Free(db', q) /\ \A d \in Conns : job'[d] # q
    <3>1. q # op
      <4>1. op \notin Elems(queue') /\ ~(op \in Async \ Elems(order'))
        BY <1>3
      <4> QED
        BY <1>5, <2>2, <4>1 DEF Pending
    <3>2. Pending(q)
      <4>1. CASE q \in Elems(queue')
        BY <4>1 DEF Pending
      <4>2. CASE q \in Async \ Elems(order')
        BY <1>3, <4>2 DEF Pending
      <4>3. CASE q \in Directs /\ pool' = "open" /\ outcome'[q] = "none"
                 /\ \A d \in Conns : job'[d] # q
        <5>1. job[c] = NoOp /\ q # NoOp
          BY <1>2, PoolAssumption
        <5>2. \A d \in Conns : job[d] # q
          BY <1>5, <4>3, <5>1
        <5> QED
          BY <1>3, <4>3, <5>2 DEF Pending
      <4> QED
        BY <2>2, <4>1, <4>2, <4>3 DEF Pending
    <3>3. outcome[q] = "none" /\ Free(db, q) /\ \A d \in Conns : job[d] # q
      BY <3>2 DEF PoolInv, Accounted
    <3>4. \A d \in Conns : job'[d] # q
      BY <1>5, <3>1, <3>3
    <3> QED
      BY <1>3, <3>3, <3>4
  <2>3. Elems(queue') \subseteq Elems(order')
    BY <1>3 DEF PoolInv, Accounted
  <2> QED
    BY <2>1, <2>2, <2>3 DEF Accounted
<1>14. hit' \in [Ops -> Seq(Kinds)]
  BY <1>3 DEF PoolInv
<1> QED
  BY <1>9, <1>10, <1>11, <1>12, <1>13, <1>14 DEF PoolInv

(* A worker takes the oldest operation of the queue.                       *)
LEMMA DequeueStep ==
  ASSUME PoolInv, NEW c \in Conns, Dequeue(c)
  PROVE  PoolInv'
<1>1. /\ phase[c] = "idle" /\ c \in Workers /\ queue # <<>> /\ queue' = Tail(queue)
      /\ Start(c, Head(queue))
  BY DEF Dequeue
<1>2. /\ queue \in Seq(Async) /\ Elems(queue) \subseteq Elems(order)
      /\ \A i, j \in 1 .. Len(queue) : queue[i] = queue[j] => i = j
  BY DEF PoolInv, TypeOK, Accounted
<1>3. PICK op : op = Head(queue)
  OBVIOUS
<1>4. /\ op \in Elems(queue) /\ op \in Async /\ Tail(queue) \in Seq(Async)
      /\ Elems(Tail(queue)) \subseteq Elems(queue) \ {op}
      /\ \A i, j \in 1 .. Len(Tail(queue)) : Tail(queue)[i] = Tail(queue)[j] => i = j
  BY <1>1, <1>2, <1>3, ElemsTail
<1>5. op \in Ops /\ op \notin Directs /\ Pending(op)
  BY <1>4, PoolAssumption DEF Ops, Pending
<1> QED
  BY <1>1, <1>2, <1>3, <1>4, <1>5, StartStep

(* A synchronous connection is taken for a transaction.                    *)
LEMMA DirectCommitStep ==
  ASSUME PoolInv, NEW c \in Conns, NEW op \in Directs, DirectCommit(c, op)
  PROVE  PoolInv'
<1>1. /\ phase[c] = "idle" /\ c \in Synch /\ pool = "open" /\ outcome[op] = "none"
      /\ (\A d \in Synch : job[d] # op) /\ Start(c, op) /\ queue' = queue
  BY DEF DirectCommit
<1>2. op \in Ops /\ op \notin Async
  BY PoolAssumption DEF Ops
<1>3. \A d \in Conns : job[d] # op
  <2> SUFFICES ASSUME NEW d \in Conns, job[d] = op PROVE FALSE
    OBVIOUS
  <2>1. d \in Synch
    BY DEF PoolInv, ConnOK
  <2> QED
    BY <1>1, <2>1
<1>4. Pending(op)
  BY <1>1, <1>3 DEF Pending
<1>5. /\ queue \in Seq(Async) /\ Elems(queue) \subseteq Async
      /\ \A i, j \in 1 .. Len(queue) : queue[i] = queue[j] => i = j
  BY ElemsFacts DEF PoolInv, TypeOK, Accounted
<1>6. Elems(queue') \subseteq Elems(queue) \ {op}
  BY <1>1, <1>2, <1>5
<1> QED
  BY <1>1, <1>2, <1>4, <1>5, <1>6, StartStep

(* Steps of the pool itself: the connections and the server stay as they   *)
(* are, and what has not been started after it had not been started before.*)
LEMMA PoolStep ==
  ASSUME PoolInv, UNCHANGED <<connVars, serverVars, outcome, hit>>,
         queue' \in Seq(Async), order' \in Seq(Async),
         pool' \in {"open", "closing", "closed", "crashed"},
         \A i, j \in 1 .. Len(queue') : queue'[i] = queue'[j] => i = j,
         Elems(queue') \subseteq Elems(order'),
         \A q \in Ops : Pending(q)' => Pending(q)
  PROVE  PoolInv'
<1>1. UNCHANGED <<job, phase, pos, tries, errno, down, tx, unc, db, outcome, hit>>
  BY DEF connVars, serverVars
<1>2. TypeOK' /\ hit' \in [Ops -> Seq(Kinds)]
  BY <1>1 DEF PoolInv, TypeOK
<1>3. \A q \in Ops : OpInv(q)'
  BY <1>1, CalmStep
<1>4. \A c \in Conns : ConnOK(c)'
  BY <1>1 DEF PoolInv, ConnOK, Paced, InHand, Met, Torn
<1>5. Accounted'
  <2>1. ASSUME NEW q \in Ops, Pending(q)'
        PROVE  outcome'[q] = "none" /\ Free(db', q) /\ \A c \in Conns : job'[c] # q
    <3>1. outcome[q] = "none" /\ Free(db, q) /\ \A c \in Conns : job[c] # q
      BY <2>1 DEF PoolInv, Accounted
    <3> QED
      BY <1>1, <3>1
  <2>2. \A c, d \in Conns : job'[c] = job'[d] /\ job'[c] # NoOp => c = d
    BY <1>1 DEF PoolInv, Accounted
  <2> QED
    BY <2>1, <2>2 DEF Accounted
<1> QED
  BY <1>2, <1>3, <1>4, <1>5 DEF PoolInv

(* An operation is enqueued.                                               *)
LEMMA EnqueueStep ==
  ASSUME PoolInv, NEW op \in Ops, Enqueue(op)
  PROVE  PoolInv'
<1>1. /\ op \in Async /\ op \notin Elems(order) /\ pool' = pool
      /\ queue' = Append(queue, op) /\ order' = Append(order, op)
      /\ UNCHANGED <<connVars, serverVars, outcome, hit>>
  BY DEF Enqueue
<1>2. /\ queue \in Seq(Async) /\ order \in Seq(Async) /\ Elems(queue) \subseteq Elems(order)
      /\ pool' \in {"open", "closing", "closed", "crashed"}
      /\ \A i, j \in 1 .. Len(queue) : queue[i] = queue[j] => i = j
  BY <1>1 DEF PoolInv, TypeOK, Accounted
<1>3. /\ queue' \in Seq(Async) /\ Len(queue') = Len(queue) + 1
      /\ Elems(queue') = Elems(queue) \cup {op} /\ queue'[Len(queue) + 1] = op
      /\ \A i \in 1 .. Len(queue) : queue'[i] = queue[i]
  BY <1>1, <1>2, ElemsAppend
<1>4. order' \in Seq(Async) /\ Elems(order') = Elems(order) \cup {op}
  BY <1>1, <1>2, ElemsAppend
<1>5. \A i, j \in 1 .. Len(queue') : queue'[i] = queue'[j] => i = j
  <2>1. \A i \in 1 .. Len(queue) : queue[i] # op
    BY <1>1, <1>2, ElemsFacts
  <2>2. Len(queue) \in Nat
    BY <1>2, LenProperties
  <2>3. \A i \in 1 .. Len(queue') : i = Len(queue) + 1 \/ i \in 1 .. Len(queue)
    BY <1>3, <2>2
  <2> QED
    BY <1>2, <1>3, <2>1, <2>3
<1>6. \A q \in Ops : Pending(q)' => Pending(q)
  <2>1. UNCHANGED <<job, outcome>>
    BY <1>1 DEF connVars
  <2> QED
    BY <1>1, <1>3, <1>4, <2>1 DEF Pending
<1>7. Elems(queue') \subseteq Elems(order')
  BY <1>2, <1>3, <1>4
<1> QED
  BY <1>1, <1>2, <1>3, <1>4, <1>5, <1>6, <1>7, PoolStep

(* The queue is flushed.                                                   *)
LEMMA CloseStep ==
  ASSUME PoolInv, Close
  PROVE  PoolInv'
<1>1. /\ pool' = "closing" /\ order' = order /\ queue' = <<>>
      /\ UNCHANGED <<connVars, serverVars, outcome, hit>>
  BY DEF Close
<1>2. order \in Seq(Async)
  BY DEF PoolInv, TypeOK
<1>3. queue' \in Seq(Async) /\ Len(queue') = 0 /\ Elems(queue') = {}
  BY <1>1, EmptySeq DEF Elems
<1>4. \A q \in Ops : Pending(q)' => Pending(q)
  BY <1>1, <1>3 DEF Pending
<1>5. \A i, j \in 1 .. Len(queue') : queue'[i] = queue'[j] => i = j
  BY <1>3
<1> QED
  BY <1>1, <1>2, <1>3, <1>4, <1>5, PoolStep

(* The connections are closed, or die with the process: what is open on    *)
(* them is rolled back, and none of them works any more.                   *)
LEMMA EndStep ==
  ASSUME PoolInv, pool' \in {"closed", "crashed"}, queue' = queue \/ queue' = <<>>,
         job' \in [Conns -> {NoOp}], phase' \in [Conns -> {"idle"}],
         tx' = {}, unc' = [c \in Conns |-> <<>>],
         UNCHANGED <<order, pos, tries, errno, down, db, outcome, hit>>
  PROVE  PoolInv'
<1>1. <<>> \in Seq(Async) /\ <<>> \in Seq(Rows) /\ Len(<<>>) = 0 /\ Elems(<<>>) = {}
  BY EmptySeq DEF Elems
<1>2. /\ queue \in Seq(Async) /\ order \in Seq(Async) /\ Elems(queue) \subseteq Elems(order)
      /\ \A i, j \in 1 .. Len(queue) : queue[i] = queue[j] => i = j
  BY DEF PoolInv, TypeOK, Accounted
<1>3. /\ queue' \in Seq(Async) /\ Elems(queue') \subseteq Elems(queue)
      /\ \A i, j \in 1 .. Len(queue') : queue'[i] = queue'[j] => i = j
  <2>1. CASE queue' = queue
    BY <1>2, <2>1
  <2>2. CASE queue' = <<>>
    <3>1. Len(queue') = 0 /\ Elems(queue') = {}
      BY <1>1, <2>2
    <3> QED
      BY <1>1, <2>2, <3>1
  <2> QED
    BY <2>1, <2>2
<1>4. TypeOK' /\ hit' \in [Ops -> Seq(Kinds)]
  <2>1. /\ job' \in [Conns -> Ops \cup {NoOp}]
        /\ phase' \in [Conns -> {"idle", "begin", "stmt", "rollback", "failed", "commit"}]
        /\ unc' \in [Conns -> Seq(Rows)] /\ \A c \in Conns \ tx' : unc'[c] = <<>>
    BY <1>1
  <2> QED
    BY <1>3, <2>1 DEF PoolInv, TypeOK, Rows
<1>5. \A q \in Ops : OpInv(q)'
  <2>1. \A c \in Conns : unc'[c] = <<>>
    OBVIOUS
  <2> QED
    BY <2>1, CalmStep
<1>6. ASSUME NEW c \in Conns PROVE ConnOK(c)'
  <2>1. job'[c] = NoOp /\ phase'[c] = "idle"
    OBVIOUS
  <2>2. NoOp \notin Async /\ NoOp \notin Directs /\ NoOp \notin Singles
    BY PoolAssumption DEF Ops, Async
  <2>3. tries'[c] = 0 /\ (c \in down' => errno'[c] = "none")
    BY DEF PoolInv, ConnOK
  <2> QED
    BY <2>1, <2>2, <2>3 DEF ConnOK
<1>7. Accounted'
  <2>1. ASSUME NEW q \in Ops, Pending(q)'
        PROVE  outcome'[q] = "none" /\ Free(db', q) /\ \A c \in Conns : job'[c] # q
    <3>1. Pending(q)
      BY <1>3, <2>1 DEF Pending
    <3>2. outcome[q] = "none" /\ Free(db, q)
      BY <3>1 DEF PoolInv, Accounted
    <3>3. \A c \in Conns : job'[c] # q
      BY PoolAssumption
    <3> QED
      BY <3>2, <3>3
  <2>2. \A c \in Conns : job'[c] = NoOp
    OBVIOUS
  <2> QED
    BY <1>2, <1>3, <2>1, <2>2 DEF Accounted
<1> QED
  BY <1>4, <1>5, <1>6, <1>7 DEF PoolInv

(* The pool is closed.                                                     *)
LEMMA ClosedStep ==
  ASSUME PoolInv, Unlocked, Closed
  PROVE  PoolInv'
<1>1. /\ pool' = "closed" /\ \A c \in Workers : phase[c] = "idle"
      /\ tx' = {} /\ unc' = [c \in Conns |-> <<>>]
      /\ UNCHANGED <<queue, order, job, phase, pos, tries, errno, down, db, outcome, hit>>
  BY DEF Closed, connVars
<1>2. phase \in [Conns -> {"idle"}] /\ job \in [Conns -> {NoOp}]
  <2>1. \A c \in Conns : phase[c] = "idle"
    BY <1>1 DEF Conns, Closed, Unlocked
  <2>2. \A c \in Conns : job[c] = NoOp
    BY <2>1 DEF PoolInv, ConnOK
  <2> QED
    BY <2>1, <2>2 DEF PoolInv, TypeOK
<1> QED
  BY <1>1, <1>2, EndStep

(* The process dies.                                                       *)
LEMMA CrashStep ==
  ASSUME PoolInv, Crash
  PROVE  PoolInv'
<1>1. /\ pool' = "crashed" /\ queue' = <<>>
      /\ job' = [c \in Conns |-> NoOp] /\ phase' = [c \in Conns |-> "idle"]
      /\ tx' = {} /\ unc' = [c \in Conns |-> <<>>]
      /\ UNCHANGED <<order, pos, tries, errno, down, db, outcome, hit>>
  BY DEF Crash
<1>2. job' \in [Conns -> {NoOp}] /\ phase' \in [Conns -> {"idle"}]
  BY <1>1
<1> QED
  BY <1>1, <1>2, EndStep

(* A new pool has done nothing.                                            *)
LEMMA PoolInit == Init => PoolInv
<1> SUFFICES ASSUME Init PROVE PoolInv
  OBVIOUS
<1>1. /\ \A S : <<>> \in Seq(S)
      /\ Len(<<>>) = 0 /\ Elems(<<>>) = {} /\ 1 \in 1 .. Size /\ 0 \in 0 .. Retries
  BY EmptySeq, PoolAssumption DEF Elems
<1>2. TypeOK /\ hit \in [Ops -> Seq(Kinds)]
  BY <1>1 DEF Init, TypeOK
<1>3. \A q : Free(<<>>, q) /\ Distinct(<<>>, q)
  BY EmptyRows
<1>4. NoOp \notin Async /\ NoOp \notin Directs /\ NoOp \notin Singles /\ NoOp \notin Ops
  BY PoolAssumption DEF Ops, Async
<1>5. \A c \in Conns : ConnOK(c)
  BY <1>1, <1>4 DEF Init, ConnOK
<1>6. Accounted
  BY <1>1, <1>3, <1>4 DEF Init, Accounted
<1>7. ASSUME NEW q \in Ops PROVE OpInv(q)
  <2>1. Durable(q) = {} /\ outcome[q] = "none" /\ db = <<>> /\ \A c \in Conns : unc[c] = <<>>
    BY <1>1 DEF Init, Durable
  <2> QED
    BY <1>3, <2>1 DEF OpInv
<1> QED
  BY <1>2, <1>5, <1>6, <1>7 DEF PoolInv

(* A step that changes nothing.                                            *)
LEMMA StutterStep ==
  ASSUME PoolInv, UNCHANGED vars
  PROVE  PoolInv'
<1>1. /\ UNCHANGED <<queue, order, pool>> /\ UNCHANGED <<connVars, serverVars, outcome, hit>>
  BY DEF vars, poolVars
<1>2. /\ queue' \in Seq(Async) /\ order' \in Seq(Async)
      /\ pool' \in {"open", "closing", "closed", "crashed"}
      /\ Elems(queue') \subseteq Elems(order')
      /\ \A i, j \in 1 .. Len(queue') : queue'[i] = queue'[j] => i = j
  BY <1>1 DEF PoolInv, TypeOK, Accounted
<1>3. \A q \in Ops : Pending(q)' => Pending(q)
  BY <1>1 DEF Pending, connVars
<1> QED
  BY <1>1, <1>2, <1>3, PoolStep

-----------------------------------------------------------------------------
(* What the server does in a step of connection c, and what c becomes.     *)
Advance(c, t, u) ==
    /\ phase[c] # "idle" /\ UNCHANGED <<queue, order, pool>>
    /\ \A d \in Conns \ {c} : phase'[d] = phase[d] /\ job'[d] = job[d] /\ unc'[d] = unc[d]
    /\ job'[c] \in {job[c], NoOp} /\ unc'[c] = u /\ db' = db \o t
    /\ Effect(c, job[c], t, u)

(* Every statement a connection sends, and every fault in one, is of this  *)
(* form.                                                                   *)
LEMMA StepAdvances ==
  ASSUME PoolInv, NEW c \in Conns, Step(c) \/ Fault(c)
  PROVE  \E t, u : Advance(c, t, u)
<1>1. phase[c] # "idle"
  BY DEF Step, Fault, BeginTransaction, Execute, RollbackTransaction, TransactionFailed,
         CommitTransaction, ExecuteDown, ReturnsFalse, ExecuteFails, ControlRefused,
         ConnectionLost, ReconnectFails, Breaks
<1>2. PICK op : op = job[c]
  OBVIOUS
<1>3. /\ op \in Ops /\ unc[c] \in Seq(Rows) /\ db \in Seq(Rows) /\ pos[c] \in 1 .. Size
      /\ c \notin tx => unc[c] = <<>>
  BY <1>1, <1>2, Busy
<1>4. TypeOK
  BY DEF PoolInv
<1>5. UNCHANGED <<queue, order, pool>>
  BY DEF Step, Fault, BeginTransaction, Execute, RollbackTransaction, TransactionFailed,
         CommitTransaction, ExecuteDown, ExecuteFails, ControlRefused, ConnectionLost,
         ReconnectFails, Breaks, poolVars
<1>6. /\ job' = job \/ job' = [job EXCEPT ![c] = NoOp]
      /\ phase' = phase \/ \E p : phase' = [phase EXCEPT ![c] = p]
  <2>1. CASE Step(c)
    BY <2>1 DEF Step, BeginTransaction, Execute, RollbackTransaction, TransactionFailed,
                CommitTransaction, ExecuteDown, ReturnsFalse, Finish, Goto
  <2>2. CASE Fault(c)
    BY <2>2 DEF Fault, ExecuteFails, ControlRefused, ConnectionLost, ReconnectFails,
                ReturnsFalse, Finish, Goto
  <2> QED
    BY <2>1, <2>2
<1>7. /\ \A d \in Conns \ {c} : phase'[d] = phase[d] /\ job'[d] = job[d]
      /\ job'[c] \in {job[c], NoOp}
  BY <1>4, <1>6 DEF TypeOK
<1>8. PICK r : r = <<op, pos[c]>>
  OBVIOUS
<1>9. \/ db' = db /\ unc' = unc
      \/ db' = db /\ unc' = [unc EXCEPT ![c] = <<>>]
      \/ db' = db \o unc[c] /\ unc' = [unc EXCEPT ![c] = <<>>]
      \/ phase[c] = "stmt" /\ c \in tx /\ db' = db /\ unc' = [unc EXCEPT ![c] = Append(unc[c], r)]
      \/ phase[c] = "stmt" /\ c \notin tx /\ db' = Append(db, r) /\ unc' = unc
  <2>1. CASE Step(c)
    BY <1>2, <1>8, <2>1 DEF Step, BeginTransaction, Execute, RollbackTransaction, TransactionFailed,
                CommitTransaction, ExecuteDown, Apply, RollBack, MakeDurable, serverVars
  <2>2. CASE Fault(c)
    BY <1>2, <1>8, <2>2 DEF Fault, ExecuteFails, ControlRefused, ConnectionLost, ReconnectFails, Breaks,
                RollBack, MakeDurable, serverVars
  <2> QED
    BY <2>1, <2>2
<1>10. PICK t, u : /\ Effect(c, op, t, u) /\ db' = db \o t /\ unc'[c] = u
                   /\ \A d \in Conns \ {c} : unc'[d] = unc[d]
  <2>1. PICK v, x : v = unc[c] /\ x = One(op, pos[c])
    OBVIOUS
  <2>2. db \o <<>> = db /\ Append(db, r) = db \o x /\ Append(v, r) = v \o x
    BY <1>3, <1>8, <2>1, OneRow, ConcatEmptySeq
  <2>3. unc \in [Conns -> Seq(Rows)]
    BY <1>4 DEF TypeOK, Rows
  <2>4. CASE db' = db /\ unc' = unc
    BY <2>1, <2>2, <2>4 DEF Effect
  <2>5. CASE db' = db /\ unc' = [unc EXCEPT ![c] = <<>>]
    BY <2>1, <2>2, <2>3, <2>5 DEF Effect
  <2>6. CASE db' = db \o v /\ unc' = [unc EXCEPT ![c] = <<>>]
    BY <2>1, <2>2, <2>3, <2>6 DEF Effect
  <2>7. CASE phase[c] = "stmt" /\ c \in tx /\ db' = db /\ unc' = [unc EXCEPT ![c] = Append(v, r)]
    BY <2>1, <2>2, <2>3, <2>7 DEF Effect
  <2>8. CASE phase[c] = "stmt" /\ c \notin tx /\ db' = Append(db, r) /\ unc' = unc
    BY <1>3, <2>1, <2>2, <2>8 DEF Effect
  <2> QED
    BY <1>9, <2>1, <2>4, <2>5, <2>6, <2>7, <2>8
<1> QED
  BY <1>1, <1>2, <1>5, <1>7, <1>10 DEF Advance

(* Only Close begins to close, and it waits for the synchronous            *)
(* connections; nobody takes one afterwards.                               *)
LEMMA UnlockedStep ==
  ASSUME PoolInv, Unlocked, [Next]_vars
  PROVE  Unlocked'
<1> USE DEF Unlocked
<1>1. ASSUME NEW op \in Ops, Enqueue(op) PROVE Unlocked'
  BY <1>1 DEF Enqueue, connVars
<1>2. ASSUME NEW c \in Conns, NEW op \in Directs, DirectCommit(c, op) PROVE Unlocked'
  BY <1>2 DEF DirectCommit, Start
<1>3. ASSUME NEW c \in Conns, Dequeue(c) PROVE Unlocked'
  BY <1>3 DEF Dequeue, Start
<1>4. ASSUME NEW c \in Conns, Step(c) \/ Fault(c) PROVE Unlocked'
  <2>1. PICK t, u : Advance(c, t, u)
    BY <1>4, StepAdvances
  <2> QED
    BY <2>1 DEF Advance, Conns
<1>5. CASE Close
  BY <1>5 DEF Close, connVars
<1>6. CASE Closed \/ Crash
  BY <1>6 DEF Closed, Crash
<1>7. CASE UNCHANGED vars
  BY <1>7 DEF vars, poolVars, connVars
<1> QED
  BY <1>1, <1>2, <1>3, <1>4, <1>5, <1>6, <1>7 DEF Next, Terminated

(* PoolInv is inductive: it holds in every state the pool reaches.         *)
THEOREM PoolInvariant == Spec => []PoolInv
<1>1. PoolInv /\ Unlocked /\ [Next]_vars => PoolInv'
  <2> SUFFICES ASSUME PoolInv, Unlocked, [Next]_vars PROVE PoolInv'
    OBVIOUS
  <2>1. ASSUME NEW op \in Ops, Enqueue(op) PROVE PoolInv'
    BY <2>1, EnqueueStep
  <2>2. ASSUME NEW c \in Conns, NEW op \in Directs, DirectCommit(c, op) PROVE PoolInv'
    BY <2>2, DirectCommitStep
  <2>3. ASSUME NEW c \in Conns, Dequeue(c) PROVE PoolInv'
    BY <2>3, DequeueStep
  <2>4. ASSUME NEW c \in Conns, Step(c) PROVE PoolInv'
    BY <2>4, BeginTransactionStep, ExecuteSingle, ExecuteOfTransaction, RollbackTransactionStep,
       TransactionFailedStep, CommitTransactionStep, ExecuteDownStep DEF Step
  <2>5. ASSUME NEW c \in Conns, Fault(c) PROVE PoolInv'
    BY <2>5, ExecuteFailsStep, ControlRefusedStep, ConnectionLostStep, ReconnectFailsStep DEF Fault
  <2>6. CASE Close
    BY <2>6, CloseStep
  <2>7. CASE Closed
    BY <2>7, ClosedStep
  <2>8. CASE Crash
    BY <2>8, CrashStep
  <2>9. CASE UNCHANGED vars
    BY <2>9, StutterStep
  <2> QED
    BY <2>1, <2>2, <2>3, <2>4, <2>5, <2>6, <2>7, <2>8, <2>9 DEF Next, Terminated
<1>2. PoolInv /\ Unlocked /\ [Next]_vars => Unlocked'
  BY UnlockedStep
<1>3. Init => PoolInv /\ Unlocked
  BY PoolInit DEF Init, Unlocked
<1> QED
  BY <1>1, <1>2, <1>3, PTL DEF Spec

(* The variables of the pool, its connections and the server keep their    *)
(* types; a transaction is open only on a connection with a handle, and    *)
(* statements wait for a COMMIT only in a transaction.                     *)
THEOREM PoolTypes == Spec => []TypeOK
<1>1. PoolInv => TypeOK
  BY DEF PoolInv
<1> QED
  BY <1>1, PoolInvariant, PTL

(* ExecuteTransaction is all or nothing, whatever the server refuses and   *)
(* whenever the process dies, unless its connection was lost or its START  *)
(* TRANSACTION or ROLLBACK was refused.  A refused COMMIT is no exception, *)
(* and neither is a transaction that finds another one still open.         *)
THEOREM TransactionsAreAtomic == Spec => []AtomicUnlessTorn
<1>1. PoolInv => AtomicUnlessTorn
  <2> SUFFICES ASSUME PoolInv, NEW op \in Transactions \cup Directs, ~Torn(op)
               PROVE  Durable(op) \in {{}, Statements(op)}
    BY DEF AtomicUnlessTorn
  <2>1. op \in Ops /\ op \notin Singles
    BY PoolAssumption DEF Ops, Async
  <2> QED
    BY <2>1 DEF PoolInv, OpInv
<1> QED
  BY <1>1, PoolInvariant, PTL

(* What Execute, the statement tasks and DirectCommitTransaction report is *)
(* what the database holds, unless the connection was lost, a statement    *)
(* that frames the transaction was refused, or a single statement ran      *)
(* inside a transaction left open by an earlier operation.                 *)
THEOREM ReportsAreTrue == Spec => []OutcomeHonest
<1>1. PoolInv => OutcomeHonest
  BY DEF PoolInv, OpInv, OutcomeHonest
<1> QED
  BY <1>1, PoolInvariant, PTL

(* A statement takes effect once: only _HandleMySQLErrno, after a lost     *)
(* connection, sends one again.                                            *)
THEOREM EffectsAreSingle == Spec => []AtMostOnce
<1>1. PoolInv => AtMostOnce
  <2> SUFFICES ASSUME PoolInv, NEW i \in 1 .. Len(db), NEW j \in 1 .. Len(db), i # j, db[i] = db[j]
               PROVE  Met(db[i][1], "lost")
    BY DEF AtMostOnce
  <2>1. db \in Seq(Rows)
    BY DEF PoolInv, TypeOK, Rows
  <2>2. db[i] \in Rows
    BY <2>1, ElementOfSeq
  <2>3. PICK q \in Ops : q = db[i][1]
    BY <2>2 DEF Rows
  <2>4. Met(q, "lost") \/ Distinct(db, q)
    BY DEF PoolInv, OpInv
  <2> QED
    BY <2>3, <2>4 DEF Distinct
<1> QED
  BY <1>1, PoolInvariant, PTL

(* No transaction is ever executed a second time: the loop over            *)
(* loopBreaker in TransactionTask::Execute and DirectCommitTransaction is  *)
(* never entered, because RollbackTransaction, carried out or refused, has *)
(* replaced mysql_errno by the time GetLastError is compared with 1213.    *)
NeverRetried == \A c \in Conns : tries[c] = 0 /\ (phase[c] = "failed" => errno[c] # "deadlock")

(* Whatever the server answers, the retry of a deadlock is dead code.      *)
THEOREM RetryIsDeadCode == Spec => []NeverRetried
<1>1. PoolInv => NeverRetried
  BY DEF PoolInv, ConnOK, NeverRetried
<1> QED
  BY <1>1, PoolInvariant, PTL

-----------------------------------------------------------------------------
(* What is in a concatenation is in one of its parts.                      *)
LEMMA ConcatParts ==
  ASSUME NEW s \in Seq(Rows), NEW t \in Seq(Rows), NEW r, r = s \o t
  PROVE  /\ \A i \in 1 .. Len(r) : \/ \E l \in 1 .. Len(s) : r[i] = s[l]
                                   \/ \E l \in 1 .. Len(t) : r[i] = t[l]
         /\ Synchronous(s) /\ Synchronous(t) => Synchronous(r)
<1>1. /\ \A i \in 1 .. Len(s) : i \in 1 .. Len(r) /\ r[i] = s[i]
      /\ \A i \in 1 .. Len(r) : i \in 1 .. Len(s) \/ i - Len(s) \in 1 .. Len(t)
      /\ \A i \in 1 .. Len(r) : i \notin 1 .. Len(s) => r[i] = t[i - Len(s)]
  BY ConcatFacts
<1> QED
  BY <1>1 DEF Synchronous

(* Order in a concatenation.                                               *)
LEMMA ConcatOrder ==
  ASSUME NEW s \in Seq(Rows), NEW t \in Seq(Rows), NEW r, r = s \o t, NEW o, Len(o) \in Nat,
         Sorted(o, s), Sorted(o, t), Before(o, s, t)
  PROVE  Sorted(o, r)
<1>1. /\ r \in Seq(Rows) /\ Len(s) \in Nat /\ Len(t) \in Nat /\ Len(r) = Len(s) + Len(t)
      /\ \A i \in 1 .. Len(s) : i \in 1 .. Len(r) /\ r[i] = s[i]
      /\ \A i \in 1 .. Len(r) : i \in 1 .. Len(s) \/ i - Len(s) \in 1 .. Len(t)
      /\ \A i \in 1 .. Len(r) : i \notin 1 .. Len(s) => r[i] = t[i - Len(s)]
  BY ConcatFacts
<1> SUFFICES ASSUME NEW i \in 1 .. Len(o), NEW j \in 1 .. Len(o), i < j,
                    NEW m \in 1 .. Len(r), NEW n \in 1 .. Len(r), r[m][1] = o[i], r[n][1] = o[j]
             PROVE  m < n
  BY DEF Sorted
<1>2. CASE m \in 1 .. Len(s) /\ n \in 1 .. Len(s)
  <2>1. s[m][1] = o[i] /\ s[n][1] = o[j]
    BY <1>1, <1>2
  <2> QED
    BY <1>2, <2>1 DEF Sorted
<1>3. CASE m \in 1 .. Len(s) /\ n \notin 1 .. Len(s)
  BY <1>1, <1>3
<1>4. CASE m \notin 1 .. Len(s) /\ n \in 1 .. Len(s)
  <2>1. s[n][1] = o[j] /\ t[m - Len(s)][1] = o[i] /\ m - Len(s) \in 1 .. Len(t)
    BY <1>1, <1>4
  <2>2. j <= i
    BY <1>4, <2>1 DEF Before
  <2> QED
    BY <2>2
<1>5. CASE m \notin 1 .. Len(s) /\ n \notin 1 .. Len(s)
  <2>1. PICK mm, nn : mm = m - Len(s) /\ nn = n - Len(s)
    OBVIOUS
  <2>2. mm \in 1 .. Len(t) /\ nn \in 1 .. Len(t) /\ t[mm][1] = o[i] /\ t[nn][1] = o[j]
    BY <1>1, <1>5, <2>1
  <2>3. mm < nn
    BY <2>2 DEF Sorted
  <2> QED
    BY <1>1, <2>1, <2>3
<1> QED
  BY <1>2, <1>3, <1>4, <1>5

(* Operations before a concatenation, after it, and up to one of them.     *)
LEMMA ConcatBefore ==
  ASSUME NEW s \in Seq(Rows), NEW t \in Seq(Rows), NEW r, r = s \o t, NEW o, NEW x
  PROVE  /\ UpTo(o, s, x) /\ UpTo(o, t, x) => UpTo(o, r, x)
         /\ Before(o, s, x) /\ Before(o, t, x) => Before(o, r, x)
         /\ Before(o, x, s) /\ Before(o, x, t) => Before(o, x, r)
<1>2. \A i \in 1 .. Len(r) : (\E l \in 1 .. Len(s) : r[i] = s[l]) \/ (\E l \in 1 .. Len(t) : r[i] = t[l])
  BY ConcatParts
<1>3. UpTo(o, s, x) /\ UpTo(o, t, x) => UpTo(o, r, x)
  BY <1>2 DEF UpTo
<1>4. ASSUME Before(o, s, x), Before(o, t, x) PROVE Before(o, r, x)
  <2> SUFFICES ASSUME NEW i \in 1 .. Len(o), NEW j \in 1 .. Len(o), NEW m \in 1 .. Len(r),
                      NEW n \in 1 .. Len(x), r[m][1] = o[i], x[n][1] = o[j]
               PROVE  i <= j
    BY DEF Before
  <2>1. (\E l \in 1 .. Len(s) : s[l][1] = o[i]) \/ (\E l \in 1 .. Len(t) : t[l][1] = o[i])
    BY <1>2
  <2> QED
    BY <1>4, <2>1 DEF Before
<1>5. ASSUME Before(o, x, s), Before(o, x, t) PROVE Before(o, x, r)
  <2> SUFFICES ASSUME NEW i \in 1 .. Len(o), NEW j \in 1 .. Len(o), NEW m \in 1 .. Len(x),
                      NEW n \in 1 .. Len(r), x[m][1] = o[i], r[n][1] = o[j]
               PROVE  i <= j
    BY DEF Before
  <2>1. (\E l \in 1 .. Len(s) : s[l][1] = o[j]) \/ (\E l \in 1 .. Len(t) : t[l][1] = o[j])
    BY <1>2
  <2> QED
    BY <1>5, <2>1 DEF Before
<1> QED
  BY <1>3, <1>4, <1>5

(* Statements of no operation in o do not disturb the order.               *)
LEMMA ApartOrder ==
  ASSUME NEW o, NEW s, NEW k, NEW x,
         \A i \in 1 .. Len(o), m \in 1 .. Len(s) : s[m][1] # o[i]
  PROVE  UpTo(o, s, k) /\ Sorted(o, s) /\ Before(o, s, x) /\ Before(o, x, s)
  BY DEF UpTo, Sorted, Before

(* Neither does a statement of the last operation that was begun.          *)
LEMMA OneOrder ==
  ASSUME NEW o \in Seq(Async), NEW k \in Nat, NEW op \in Ops, NEW n \in 1 .. Size,
         \A i \in 1 .. Len(o) : op = o[i] => i = k,
         NEW s, UpTo(o, s, k)
  PROVE  /\ One(op, n) \in Seq(Rows) /\ UpTo(o, One(op, n), k) /\ Sorted(o, One(op, n))
         /\ Before(o, s, One(op, n))
<1>1. PICK t : t = One(op, n)
  OBVIOUS
<1>2. <<>> \in Seq(Rows)
  BY EmptyRows
<1>3. t \in Seq(Rows) /\ Elems(t) = {<<op, n>>}
  BY <1>1, <1>2, OneRow
<1>4. \A m \in 1 .. Len(t) : t[m][1] = op
  BY <1>3 DEF Elems
<1>5. Len(o) \in Nat /\ \A i \in 1 .. Len(o) : i <= k => k >= i
  BY LenProperties
<1>6. UpTo(o, t, k)
  BY <1>4, <1>5 DEF UpTo
<1>7. Sorted(o, t)
  BY <1>4, <1>5 DEF Sorted
<1>8. Before(o, s, t)
  <2>1. \A i \in 1 .. Len(o), m \in 1 .. Len(s) : s[m][1] = o[i] => i <= k
    BY DEF UpTo
  <2>2. \A j \in 1 .. Len(o), m \in 1 .. Len(t) : t[m][1] = o[j] => j = k
    BY <1>4
  <2> QED
    BY <2>1, <2>2 DEF Before
<1> QED
  BY <1>1, <1>3, <1>6, <1>7, <1>8

(* No statements at all.                                                   *)
LEMMA NoneOrder ==
  ASSUME NEW o, NEW k, NEW x
  PROVE  /\ UpTo(o, <<>>, k) /\ Sorted(o, <<>>) /\ Before(o, <<>>, x) /\ Before(o, x, <<>>)
         /\ Synchronous(<<>>)
<1>1. Len(<<>>) = 0
  BY EmptySeq
<1> QED
  BY <1>1 DEF UpTo, Sorted, Before, Synchronous

(* What the server does for the last operation begun keeps the order of    *)
(* the database and of the open transaction.                               *)
LEMMA EffectOrder ==
  ASSUME TypeOK, NEW c \in Conns, NEW k \in Nat, NEW op \in Ops, NEW t, NEW u, Effect(c, op, t, u),
         \A i \in 1 .. Len(order) : op = order[i] => i = k,
         UpTo(order, db, k), UpTo(order, unc[c], k),
         Sorted(order, db), Sorted(order, unc[c]), Before(order, db, unc[c])
  PROVE  /\ UpTo(order, db \o t, k) /\ UpTo(order, u, k)
         /\ Sorted(order, db \o t) /\ Sorted(order, u) /\ Before(order, db \o t, u)
<1>1. /\ unc[c] \in Seq(Rows) /\ pos[c] \in 1 .. Size /\ db \in Seq(Rows) /\ order \in Seq(Async)
      /\ Len(order) \in Nat
  BY LenProperties DEF TypeOK, Rows
<1>2. PICK o, b, v, x : o = order /\ b = db /\ v = unc[c] /\ x = One(op, pos[c])
  OBVIOUS
<1>3. /\ x \in Seq(Rows) /\ UpTo(o, x, k) /\ Sorted(o, x) /\ Before(o, b, x) /\ Before(o, v, x)
  BY <1>1, <1>2, OneOrder
<1>4. /\ UpTo(o, b, k) /\ UpTo(o, v, k) /\ Sorted(o, b) /\ Sorted(o, v) /\ Before(o, b, v)
      /\ b \in Seq(Rows) /\ v \in Seq(Rows) /\ Len(o) \in Nat /\ b \o <<>> = b
  BY <1>1, <1>2, ConcatEmptySeq
<1>5. UpTo(o, <<>>, k) /\ Sorted(o, <<>>) /\ \A y : Before(o, y, <<>>)
  BY NoneOrder
<1>6. UpTo(o, b \o v, k) /\ Sorted(o, b \o v)
  <2>1. PICK r : r = b \o v
    OBVIOUS
  <2>2. UpTo(o, r, k) /\ Sorted(o, r)
    BY <1>4, <2>1, ConcatOrder, ConcatBefore
  <2> QED
    BY <2>1, <2>2
<1>7. UpTo(o, b \o x, k) /\ Sorted(o, b \o x)
  <2>1. PICK r : r = b \o x
    OBVIOUS
  <2>2. UpTo(o, r, k) /\ Sorted(o, r)
    <3>1. /\ b \in Seq(Rows) /\ x \in Seq(Rows) /\ Len(o) \in Nat /\ Before(o, b, x)
          /\ UpTo(o, b, k) /\ UpTo(o, x, k) /\ Sorted(o, b) /\ Sorted(o, x)
      BY <1>3, <1>4
    <3> QED
      BY <2>1, <3>1, ConcatOrder, ConcatBefore
  <2> QED
    BY <2>1, <2>2
<1>8. UpTo(o, v \o x, k) /\ Sorted(o, v \o x) /\ Before(o, b, v \o x)
  <2>1. PICK r : r = v \o x
    OBVIOUS
  <2>2. UpTo(o, r, k) /\ Sorted(o, r) /\ Before(o, b, r)
    <3>1. /\ v \in Seq(Rows) /\ x \in Seq(Rows) /\ Len(o) \in Nat /\ Before(o, v, x)
          /\ UpTo(o, v, k) /\ UpTo(o, x, k) /\ Sorted(o, v) /\ Sorted(o, x)
          /\ Before(o, b, v) /\ Before(o, b, x)
      BY <1>3, <1>4
    <3> QED
      BY <2>1, <3>1, ConcatOrder, ConcatBefore
  <2> QED
    BY <2>1, <2>2
<1>9. \/ t = <<>> /\ u = v
      \/ t = <<>> /\ u = <<>>
      \/ t = v /\ u = <<>>
      \/ t = <<>> /\ u = v \o x
      \/ t = x /\ u = <<>>
  BY <1>2 DEF Effect
<1>10. /\ UpTo(o, b \o t, k) /\ UpTo(o, u, k)
       /\ Sorted(o, b \o t) /\ Sorted(o, u) /\ Before(o, b \o t, u)
  BY <1>4, <1>5, <1>6, <1>7, <1>8, <1>9
<1> QED
  BY <1>2, <1>10

(* A synchronous transaction has effects of its own only.                  *)
LEMMA EffectAlone ==
  ASSUME TypeOK, NEW c \in Conns, NEW op \in Directs, NEW t, NEW u, Effect(c, op, t, u),
         Synchronous(unc[c])
  PROVE  t \in Seq(Rows) /\ u \in Seq(Rows) /\ Synchronous(t) /\ Synchronous(u)
<1>1. unc[c] \in Seq(Rows) /\ pos[c] \in 1 .. Size /\ op \in Ops
  BY DEF TypeOK, Rows, Ops
<1>2. PICK v, x : v = unc[c] /\ x = One(op, pos[c])
  OBVIOUS
<1>3. x \in Seq(Rows) /\ Elems(x) = {<<op, pos[c]>>}
  BY <1>1, <1>2, OneRow
<1>4. Synchronous(x)
  <2>1. \A m \in 1 .. Len(x) : x[m] = <<op, pos[c]>>
    BY <1>3 DEF Elems
  <2> QED
    BY <2>1 DEF Synchronous
<1>5. <<>> \in Seq(Rows) /\ Synchronous(<<>>) /\ v \in Seq(Rows) /\ Synchronous(v)
  BY <1>1, <1>2, EmptyRows, NoneOrder
<1>6. v \o x \in Seq(Rows) /\ Synchronous(v \o x)
  <2>1. PICK r : r = v \o x
    OBVIOUS
  <2>2. r \in Seq(Rows)
    BY <1>3, <1>5, <2>1, ConcatRows
  <2>3. Synchronous(r)
    BY <1>3, <1>4, <1>5, <2>1, ConcatParts
  <2> QED
    BY <2>1, <2>2, <2>3
<1> QED
  BY <1>2, <1>3, <1>4, <1>5, <1>6 DEF Effect

(* With one worker, a step of any connection keeps the order: what it does *)
(* is of the operation at the frontier, commits what is older, or is of no *)
(* asynchronous operation.                                                 *)
LEMMA AdvanceKeepsOrder ==
  ASSUME PoolInv, NEW w, Workers = {w}, OrderInv(w), NEW c \in Conns, NEW t, NEW u, Advance(c, t, u)
  PROVE  OrderInv(w)'
<1>1. PICK op : op = job[c]
  OBVIOUS
<1>2. /\ UNCHANGED <<queue, order, pool>> /\ unc'[c] = u /\ db' = db \o t
      /\ \A d \in Conns \ {c} : job'[d] = job[d] /\ unc'[d] = unc[d]
      /\ job'[c] \in {op, NoOp} /\ Effect(c, op, t, u)
  BY <1>1 DEF Advance
<1>3. /\ TypeOK /\ db \in Seq(Rows) /\ order \in Seq(Async) /\ Len(order) \in Nat /\ w \in Conns
      /\ unc[w] \in Seq(Rows)
  BY LenProperties DEF PoolInv, TypeOK, Rows, Conns
<1>4. /\ op \in Ops /\ (op \in Async => c = w) /\ (op \in Directs => c # w)
  <2>1. phase[c] # "idle"
    BY DEF Advance
  <2>2. op \in Ops /\ ConnOK(c)
    BY <1>1, <2>1, Busy
  <2>3. (op \in Async => c \in Workers) /\ (op \in Directs => c \in Synch)
    BY <1>1, <2>2 DEF ConnOK
  <2> QED
    BY <2>2, <2>3, PoolAssumption
<1>5. PICK k \in 0 .. Len(order) : Frontier(w, k)
  BY DEF OrderInv
<1>6. /\ Sorted(order, db) /\ Sorted(order, unc[w]) /\ Before(order, db, unc[w])
      /\ UpTo(order, db, k) /\ UpTo(order, unc[w], k) /\ k \in Nat
  BY <1>5 DEF OrderInv, Frontier
<1>7. \A i \in 1 .. Len(order) : order[i] \in Async /\ order[i] # NoOp
  BY <1>3, ElementOfSeq, PoolAssumption DEF Ops
<1>8. \A i \in 1 .. Len(order) : job'[w] = order[i] => i = k
  <2>1. job'[w] \in {job[w], NoOp}
    BY <1>1, <1>2, <1>3
  <2> QED
    BY <1>5, <1>7, <2>1 DEF Frontier
<1>9. /\ UpTo(order, db', k) /\ UpTo(order, unc'[w], k)
      /\ Sorted(order, db') /\ Sorted(order, unc'[w]) /\ Before(order, db', unc'[w])
      /\ \A d \in Conns \ {w} : Synchronous(unc'[d])
  <2>1. CASE c = w
    <3>1. \A i \in 1 .. Len(order) : op = order[i] => i = k
      BY <1>1, <1>5, <2>1 DEF Frontier
    <3>2. /\ UpTo(order, db \o t, k) /\ UpTo(order, u, k)
          /\ Sorted(order, db \o t) /\ Sorted(order, u) /\ Before(order, db \o t, u)
      BY <1>2, <1>3, <1>4, <1>6, <2>1, <3>1, EffectOrder
    <3>3. \A d \in Conns \ {w} : Synchronous(unc'[d])
      BY <1>2, <2>1 DEF OrderInv
    <3> QED
      BY <1>2, <2>1, <3>2, <3>3
  <2>2. CASE c # w
    <3>1. op \in Directs /\ Synchronous(unc[c])
      BY <1>4, <2>2 DEF Ops, OrderInv
    <3>2. t \in Seq(Rows) /\ Synchronous(t) /\ Synchronous(u)
      BY <1>2, <1>3, <3>1, EffectAlone
    <3>3. \A i \in 1 .. Len(order), m \in 1 .. Len(t) : t[m][1] # order[i]
      BY <1>7, <3>2, PoolAssumption DEF Synchronous
    <3>4. /\ UpTo(order, t, k) /\ Sorted(order, t) /\ Before(order, t, unc[w]) /\ Before(order, db, t)
      BY <3>3, ApartOrder
    <3>5. PICK o, b, v, r : o = order /\ b = db /\ v = unc[w] /\ r = db'
      OBVIOUS
    <3>6. UpTo(order, db', k) /\ Before(order, db', unc[w]) /\ Sorted(order, db')
      <4>1. /\ r = b \o t /\ b \in Seq(Rows) /\ t \in Seq(Rows) /\ Len(o) \in Nat
            /\ Sorted(o, b) /\ Sorted(o, t) /\ Before(o, b, t) /\ UpTo(o, b, k) /\ UpTo(o, t, k)
            /\ Before(o, b, v) /\ Before(o, t, v)
        BY <1>2, <1>3, <1>6, <3>2, <3>4, <3>5
      <4>2. Sorted(o, r)
        BY <4>1, ConcatOrder
      <4>3. UpTo(o, r, k)
        BY <4>1, ConcatBefore
      <4>4. Before(o, r, v)
        BY <4>1, ConcatBefore
      <4> QED
        BY <3>5, <4>2, <4>3, <4>4
    <3>7. unc'[w] = unc[w]
      BY <1>2, <1>3, <2>2
    <3>8. \A d \in Conns \ {w} : Synchronous(unc'[d])
      BY <1>2, <3>2 DEF OrderInv
    <3> QED
      BY <1>6, <3>6, <3>7, <3>8
  <2> QED
    BY <2>1, <2>2
<1>10. Frontier(w, k)'
  BY <1>2, <1>5, <1>8, <1>9 DEF Frontier
<1>11. \A i, j \in 1 .. Len(order') : order'[i] = order'[j] => i = j
  BY <1>2 DEF OrderInv
<1>12. k \in 0 .. Len(order')
  BY <1>2
<1> QED
  BY <1>2, <1>9, <1>10, <1>11, <1>12 DEF OrderInv

(* The worker takes the operation after the frontier.                      *)
LEMMA DequeueKeepsOrder ==
  ASSUME PoolInv, NEW w, Workers = {w}, OrderInv(w), Dequeue(w)
  PROVE  OrderInv(w)'
<1>1. /\ pool = "open" /\ queue # <<>> /\ queue' = Tail(queue)
      /\ job' = [job EXCEPT ![w] = Head(queue)] /\ UNCHANGED <<order, pool, db, unc>>
  BY DEF Dequeue, Start, serverVars
<1>2. /\ queue \in Seq(Async) /\ order \in Seq(Async) /\ Len(order) \in Nat /\ Len(queue) \in Nat
      /\ \A i, j \in 1 .. Len(queue) : queue[i] = queue[j] => i = j
  BY LenProperties DEF PoolInv, TypeOK, Accounted
<1>3. /\ Head(queue) = queue[1] /\ Len(queue') = Len(queue) - 1 /\ Len(queue) >= 1
      /\ \A i \in 1 .. Len(queue') : queue'[i] = queue[i + 1]
  BY <1>1, <1>2, ElemsTail
<1>4. PICK k \in 0 .. Len(order) : Frontier(w, k)
  BY DEF OrderInv
<1>5. k + 1 <= Len(order) /\ Head(queue) = order[k + 1] /\ k + 1 \in 0 .. Len(order)
  BY <1>2, <1>3, <1>4 DEF Frontier
<1>6. \A i \in 1 .. Len(queue') : (k + 1) + i <= Len(order) /\ queue'[i] = order[(k + 1) + i]
  <2> SUFFICES ASSUME NEW i \in 1 .. Len(queue')
               PROVE  (k + 1) + i <= Len(order) /\ queue'[i] = order[(k + 1) + i]
    OBVIOUS
  <2>1. i + 1 \in 1 .. Len(queue) /\ k + (i + 1) = (k + 1) + i
    BY <1>2, <1>3
  <2>2. k + (i + 1) <= Len(order) /\ queue[i + 1] = order[k + (i + 1)]
    BY <1>4, <2>1 DEF Frontier
  <2> QED
    BY <1>3, <2>1, <2>2
<1>7. pool = "open" => Len(queue') = Len(order) - (k + 1)
  BY <1>2, <1>3, <1>4 DEF Frontier
<1>8. \A i \in 1 .. Len(order) : job'[w] = order[i] => i = k + 1
  <2>1. job'[w] = order[k + 1] /\ k + 1 \in 1 .. Len(order)
    BY <1>1, <1>5 DEF PoolInv, TypeOK, Conns
  <2> QED
    BY <2>1 DEF OrderInv
<1>9. UpTo(order, db, k + 1) /\ UpTo(order, unc[w], k + 1)
  <2>1. \A i \in 1 .. Len(order) : i <= k => i <= k + 1
    BY <1>2
  <2> QED
    BY <1>4, <2>1 DEF Frontier, UpTo
<1>10. Frontier(w, k + 1)'
  BY <1>1, <1>6, <1>7, <1>8, <1>9 DEF Frontier
<1>11. PICK l : l = k + 1
  OBVIOUS
<1>12. l \in 0 .. Len(order') /\ Frontier(w, l)'
  BY <1>1, <1>5, <1>10, <1>11
<1>13. /\ Sorted(order', db') /\ Sorted(order', unc'[w]) /\ Before(order', db', unc'[w])
       /\ \A d \in Conns \ {w} : Synchronous(unc'[d])
       /\ \A i, j \in 1 .. Len(order') : order'[i] = order'[j] => i = j
  BY <1>1 DEF OrderInv
<1> QED
  BY <1>12, <1>13 DEF OrderInv

(* A new operation is behind the frontier and has left no trace.           *)
LEMMA EnqueueKeepsOrder ==
  ASSUME PoolInv, NEW w, Workers = {w}, OrderInv(w), NEW op \in Ops, Enqueue(op)
  PROVE  OrderInv(w)'
<1>1. /\ pool = "open" /\ op \in Async /\ op \notin Elems(order) /\ w \in Conns
      /\ queue' = Append(queue, op) /\ order' = Append(order, op) /\ UNCHANGED <<pool, job, db, unc>>
  BY DEF Enqueue, connVars, serverVars, Conns
<1>2. /\ queue \in Seq(Async) /\ order \in Seq(Async) /\ Len(order) \in Nat /\ Len(queue) \in Nat
      /\ \A i \in 1 .. Len(order) : order[i] # op
  BY <1>1, LenProperties, ElemsFacts DEF PoolInv, TypeOK
<1>3. /\ Len(queue') = Len(queue) + 1 /\ queue'[Len(queue) + 1] = op
      /\ \A i \in 1 .. Len(queue) : queue'[i] = queue[i]
  BY <1>1, <1>2, ElemsAppend
<1>4. /\ Len(order') = Len(order) + 1 /\ order'[Len(order) + 1] = op
      /\ \A i \in 1 .. Len(order) : order'[i] = order[i]
  BY <1>1, <1>2, ElemsAppend
<1>5. Free(db, op) /\ Free(unc[w], op) /\ job[w] # op
  <2>1. Pending(op)
    BY <1>1 DEF Pending
  <2>2. outcome[op] = "none" /\ Free(db, op) /\ job[w] # op
    BY <1>1, <2>1 DEF PoolInv, Accounted
  <2> QED
    BY <1>1, <2>2, NotLeft
<1>6. \A i \in 1 .. Len(order') : i = Len(order) + 1 \/ i \in 1 .. Len(order)
  BY <1>2, <1>4
<1>7. PICK k \in 0 .. Len(order) : Frontier(w, k)
  BY DEF OrderInv
<1>8. k \in 0 .. Len(order') /\ Len(queue) = Len(order) - k
  BY <1>1, <1>2, <1>4, <1>7 DEF Frontier
<1>9. \A i \in 1 .. Len(queue') : k + i <= Len(order') /\ queue'[i] = order'[k + i]
  <2> SUFFICES ASSUME NEW i \in 1 .. Len(queue')
               PROVE  k + i <= Len(order') /\ queue'[i] = order'[k + i]
    OBVIOUS
  <2>1. CASE i \in 1 .. Len(queue)
    <3>1. k + i <= Len(order) /\ queue[i] = order[k + i] /\ k + i \in 1 .. Len(order)
      BY <1>2, <1>7, <2>1 DEF Frontier
    <3> QED
      BY <1>2, <1>3, <1>4, <2>1, <3>1
  <2>2. CASE i = Len(queue) + 1
    <3>1. k + i = Len(order) + 1
      BY <1>2, <1>8, <2>2
    <3> QED
      BY <1>2, <1>3, <1>4, <2>2, <3>1
  <2> QED
    BY <1>2, <1>3, <2>1, <2>2
<1>10. Len(queue') = Len(order') - k
  BY <1>2, <1>3, <1>4, <1>8
<1>11. \A i \in 1 .. Len(order') : job'[w] = order'[i] => i = k
  BY <1>1, <1>4, <1>5, <1>6, <1>7 DEF Frontier
<1>12. /\ Sorted(order, db) /\ Sorted(order, unc[w]) /\ Before(order, db, unc[w])
       /\ UpTo(order, db, k) /\ UpTo(order, unc[w], k)
  BY <1>7 DEF OrderInv, Frontier
<1>13. /\ UpTo(order', db, k) /\ UpTo(order', unc[w], k)
       /\ Sorted(order', db) /\ Sorted(order', unc[w]) /\ Before(order', db, unc[w])
  <2>1. \A s : Free(s, op) =>
          \A i \in 1 .. Len(order'), m \in 1 .. Len(s) :
             s[m][1] = order'[i] => i \in 1 .. Len(order) /\ order'[i] = order[i]
    BY <1>4, <1>6 DEF Free
  <2>2. ASSUME NEW s, Free(s, op), UpTo(order, s, k), Sorted(order, s)
        PROVE  UpTo(order', s, k) /\ Sorted(order', s)
    <3>1. \A i \in 1 .. Len(order'), m \in 1 .. Len(s) :
             s[m][1] = order'[i] => i \in 1 .. Len(order) /\ order'[i] = order[i]
      BY <2>1, <2>2
    <3> QED
      BY <2>2, <3>1 DEF UpTo, Sorted
  <2>3. Before(order', db, unc[w])
    <3>1. PICK b, v, o, p : b = db /\ v = unc[w] /\ o = order /\ p = order'
      OBVIOUS
    <3>2. Before(o, b, v) /\ Free(b, op) /\ Free(v, op)
      BY <1>5, <1>12, <3>1
    <3>3. \A i \in 1 .. Len(p), m \in 1 .. Len(b) : b[m][1] = p[i] => i \in 1 .. Len(o) /\ p[i] = o[i]
      BY <2>1, <3>1, <3>2
    <3>4. \A i \in 1 .. Len(p), m \in 1 .. Len(v) : v[m][1] = p[i] => i \in 1 .. Len(o) /\ p[i] = o[i]
      BY <2>1, <3>1, <3>2
    <3>5. Before(p, b, v)
      <4> SUFFICES ASSUME NEW i \in 1 .. Len(p), NEW j \in 1 .. Len(p), NEW m \in 1 .. Len(b),
                          NEW n \in 1 .. Len(v), b[m][1] = p[i], v[n][1] = p[j]
                   PROVE  i <= j
        BY DEF Before
      <4>1. i \in 1 .. Len(o) /\ b[m][1] = o[i]
        BY <3>3
      <4>2. j \in 1 .. Len(o) /\ v[n][1] = o[j]
        BY <3>4
      <4> QED
        BY <3>2, <4>1, <4>2 DEF Before
    <3> QED
      BY <3>1, <3>5
  <2> QED
    BY <1>5, <1>12, <2>2, <2>3
<1>14. Frontier(w, k)'
  BY <1>1, <1>9, <1>10, <1>11, <1>13 DEF Frontier
<1>15. \A i, j \in 1 .. Len(order') : order'[i] = order'[j] => i = j
  BY <1>2, <1>4, <1>6 DEF OrderInv
<1>16. \A d \in Conns \ {w} : Synchronous(unc'[d])
  BY <1>1 DEF OrderInv
<1> QED
  BY <1>1, <1>8, <1>13, <1>14, <1>15, <1>16 DEF OrderInv

(* The other steps leave the order and the database alone; a connection    *)
(* keeps what is open on it or loses it.                                   *)
LEMMA RestKeepsOrder ==
  ASSUME PoolInv, NEW w, Workers = {w}, OrderInv(w), UNCHANGED <<order, db>>,
         job'[w] = job[w] \/ job'[w] = NoOp,
         (\A d \in Conns : unc'[d] = unc[d]) \/ (\A d \in Conns : unc'[d] = <<>>),
         (queue' = queue /\ pool' = pool) \/ (queue' \in {queue, <<>>} /\ pool' # "open")
  PROVE  OrderInv(w)'
<1>1. PICK k \in 0 .. Len(order) : Frontier(w, k)
  BY DEF OrderInv
<1>2. \A i \in 1 .. Len(order) : order[i] # NoOp
  <2>1. order \in Seq(Ops)
    BY DEF PoolInv, TypeOK, Ops
  <2>2. NoOp \notin Ops
    BY PoolAssumption DEF Ops
  <2> QED
    BY <2>1, <2>2, ElementOfSeq
<1>3. /\ \A i \in 1 .. Len(queue') : k + i <= Len(order) /\ queue'[i] = order[k + i]
      /\ pool' = "open" => Len(queue') = Len(order) - k
  <2>1. CASE queue' = queue
    BY <1>1, <2>1 DEF Frontier
  <2>2. CASE queue' = <<>> /\ pool' # "open"
    <3>1. Len(queue') = 0
      BY <2>2, EmptySeq
    <3> QED
      BY <2>2, <3>1
  <2> QED
    BY <2>1, <2>2
<1>4. \A i \in 1 .. Len(order) : job'[w] = order[i] => i = k
  BY <1>1, <1>2 DEF Frontier
<1>5. w \in Conns
  BY DEF Conns
<1>6. /\ UpTo(order, db, k) /\ UpTo(order, unc'[w], k)
      /\ Sorted(order, db) /\ Sorted(order, unc'[w]) /\ Before(order, db, unc'[w])
      /\ \A d \in Conns \ {w} : Synchronous(unc'[d])
  <2>1. CASE \A d \in Conns : unc'[d] = unc[d]
    BY <1>1, <1>5, <2>1 DEF Frontier, OrderInv
  <2>2. CASE \A d \in Conns : unc'[d] = <<>>
    <3>1. UpTo(order, <<>>, k) /\ Sorted(order, <<>>) /\ Before(order, db, <<>>) /\ Synchronous(<<>>)
      BY NoneOrder
    <3> QED
      BY <1>1, <1>5, <2>2, <3>1 DEF Frontier, OrderInv
  <2> QED
    BY <2>1, <2>2
<1>7. Frontier(w, k)'
  BY <1>1, <1>3, <1>4, <1>6 DEF Frontier
<1>8. \A i, j \in 1 .. Len(order') : order'[i] = order'[j] => i = j
  BY DEF OrderInv
<1> QED
  BY <1>6, <1>7, <1>8 DEF OrderInv

(* OrderInv is inductive on top of PoolInv when there is one worker.       *)
LEMMA OrderInvariant ==
  ASSUME NEW w, Workers = {w}
  PROVE  Spec => []OrderInv(w)
<1>1. ASSUME PoolInv, OrderInv(w), [Next]_vars PROVE OrderInv(w)'
  <2>1. ASSUME NEW op \in Ops, Enqueue(op) PROVE OrderInv(w)'
    BY <1>1, <2>1, EnqueueKeepsOrder
  <2>2. ASSUME NEW c \in Conns, NEW op \in Directs, DirectCommit(c, op) PROVE OrderInv(w)'
    <3>1. /\ c \in Synch /\ job' = [job EXCEPT ![c] = op]
          /\ UNCHANGED <<queue, order, pool, db, unc>>
      BY <2>2 DEF DirectCommit, Start, serverVars
    <3>2. c # w
      BY <3>1, PoolAssumption
    <3>3. job'[w] = job[w]
      BY <1>1, <3>1, <3>2 DEF PoolInv, TypeOK, Conns
    <3> QED
      BY <1>1, <3>1, <3>3, RestKeepsOrder
  <2>3. ASSUME NEW c \in Conns, Dequeue(c) PROVE OrderInv(w)'
    <3>1. Dequeue(w)
      BY <2>3 DEF Dequeue
    <3> QED
      BY <1>1, <3>1, DequeueKeepsOrder
  <2>4. ASSUME NEW c \in Conns, Step(c) \/ Fault(c) PROVE OrderInv(w)'
    <3>1. PICK t, u : Advance(c, t, u)
      BY <1>1, <2>4, StepAdvances
    <3> QED
      BY <1>1, <3>1, AdvanceKeepsOrder
  <2>5. CASE Close
    BY <1>1, <2>5, RestKeepsOrder DEF Close, connVars, serverVars
  <2>6. CASE Closed
    <3>1. /\ pool' # "open" /\ UNCHANGED <<queue, order, db, job>>
          /\ \A d \in Conns : unc'[d] = <<>>
      BY <2>6 DEF Closed, connVars
    <3> QED
      BY <1>1, <3>1, RestKeepsOrder
  <2>7. CASE Crash
    <3>1. /\ job'[w] = NoOp /\ queue' = <<>> /\ pool' # "open" /\ UNCHANGED <<order, db>>
          /\ \A d \in Conns : unc'[d] = <<>>
      BY <2>7 DEF Crash, Conns
    <3> QED
      BY <1>1, <3>1, RestKeepsOrder
  <2>8. CASE UNCHANGED vars
    BY <1>1, <2>8, RestKeepsOrder DEF vars, poolVars, connVars, serverVars
  <2> QED
    BY <1>1, <2>1, <2>2, <2>3, <2>4, <2>5, <2>6, <2>7, <2>8 DEF Next, Terminated
<1>2. Init => OrderInv(w)
  <2> SUFFICES ASSUME Init PROVE OrderInv(w)
    OBVIOUS
  <2>1. Len(order) = 0 /\ Len(queue) = 0 /\ db = <<>> /\ \A d \in Conns : unc[d] = <<>>
    BY EmptySeq DEF Init
  <2>2. w \in Conns
    BY DEF Conns
  <2>3. /\ UpTo(order, <<>>, 0) /\ Sorted(order, <<>>) /\ Before(order, <<>>, <<>>) /\ Synchronous(<<>>)
    BY NoneOrder
  <2>4. Frontier(w, 0)
    BY <2>1, <2>2, <2>3 DEF Frontier
  <2> QED
    BY <2>1, <2>2, <2>3, <2>4 DEF OrderInv
<1>3. PoolInv /\ OrderInv(w) /\ [Next]_vars => OrderInv(w)'
  BY <1>1
<1> QED
  BY <1>2, <1>3, PoolInvariant, PTL DEF Spec

(* With the one asynchronous connection of the default configuration,      *)
(* Execute and CommitTransaction take effect in the order of the calls,    *)
(* whatever fails, is lost or is refused on the way.                       *)
THEOREM EffectsAreInOrder == Spec => []InOrder
<1>1. CASE Cardinality(Workers) = 1
  <2>1. PICK w : Workers = {w}
    BY <1>1, FS_Singleton, PoolAssumption
  <2>2. Spec => []OrderInv(w)
    BY <2>1, OrderInvariant
  <2>3. OrderInv(w) => InOrder
    BY DEF OrderInv, InOrder, Sorted
  <2> QED
    BY <2>2, <2>3, PTL
<1>2. CASE Cardinality(Workers) # 1
  <2>1. InOrder
    BY <1>2 DEF InOrder
  <2> QED
    BY <2>1, PTL
<1> QED
  BY <1>1, <1>2
=============================================================================
