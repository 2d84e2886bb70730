----------------------------- MODULE InstanceIds -----------------------------
(***************************************************************************)
(* The instance id allocator of MapManager: _nextInstanceId and the bit    *)
(* vector _instanceIds, which dungeons (MapInstanced, InstanceSaveManager) *)
(* and battlegrounds share.  The vector is sized in whole words; the size  *)
(* and the capacity of the std::vector<bool> are kept because the growth   *)
(* rule compares them.                                                     *)
(***************************************************************************)
EXTENDS Naturals, FiniteSets

CONSTANTS
    Word,         \* bits per word of the vector: 32 in the code
    MaxId,        \* bound: the largest id a check hands out
    MaxCap        \* bound: the largest capacity std::vector may reserve

ASSUME IdsAssumption ==
    /\ Word \in Nat /\ Word > 1
    /\ MaxId \in Nat /\ MaxCap \in Nat

VARIABLES
    next,         \* MapManager::_nextInstanceId
    size,         \* _instanceIds.size()
    cap,          \* _instanceIds.capacity()
    bits,         \* indices below size whose bit is set
    given         \* ids handed out or registered and not freed since (history)

idVars == <<next, size, cap, bits, given>>

Ids == 1 .. MaxId

(* Faulty variant: the vector is sized to the id itself.                   *)
RoundUp_Exact(n) == n

(* (n / 32) * 32 + (n % 32 > 0 ? 32 : 0)                                   *)
RoundUp(n) == (n \div Word) * Word + (IF n % Word > 0 THEN Word ELSE 0)

(* What vector<bool>::capacity may be once it holds n bits.                *)
Capacities(n) == {c \in n .. (n + MaxCap) : c % Word = 0}

(* InitInstanceIds and the loop over the instance rows in LoadResetTimes:  *)
(* the vector is sized for MAX(id), rows are registered in ascending order *)
(* and next is pushed past them while they are consecutive.  A bit at or   *)
(* past the end of the vector is written outside of it, and is not there   *)
(* when the vector has grown.                                              *)
LoadIds(rows, n, s, c, b) ==
    /\ \E m \in rows \cup {0} :
        /\ \A i \in rows : i <= m
        /\ s = RoundUp(m)
    /\ c \in Capacities(s)
    /\ b = {i \in rows : i < s}
    /\ n \in 1 .. (MaxId + 1) /\ n \notin rows
    /\ \A i \in 1 .. (MaxId + 1) : i < n => i \in rows

Init ==
    \E rows \in SUBSET Ids :
        /\ given = rows
        /\ LoadIds(rows, next, size, cap, bits)

-----------------------------------------------------------------------------
(* The search for the id after newInstanceId, made before the vector grows *)
Available(i) == i >= size \/ i \notin bits

(* Faulty variant: the search restarts at the new id's successor without   *)
(* looking at the bits.                                                    *)
GenerateInstanceId_NoSearch(id) ==
    /\ id = next /\ id <= MaxId
    /\ next' = id + 1
    /\ size' = IF id < size THEN size ELSE IF size < cap THEN cap ELSE RoundUp(id)
    /\ cap' \in IF size' <= cap THEN {cap} ELSE Capacities(size')
    /\ bits' = bits \cup {i \in {id} : i < size'}
    /\ given' = given \cup {id}

(* MapManager::GenerateInstanceId.  newInstanceId is _nextInstanceId; the  *)
(* overflow branch cannot be taken because the search starts one above.    *)
(* When the id is a whole number of words and size equals capacity, the    *)
(* vector does not grow and the bit is written past its end.               *)
GenerateInstanceId(id) ==
    /\ id = next /\ id <= MaxId
    /\ \E n \in (id + 1) .. (IF size > id THEN size ELSE id + 1) :
        /\ Available(n) /\ \A i \in (id + 1) .. (n - 1) : ~Available(i)
        /\ next' = n
    /\ size' = IF id < size THEN size ELSE IF size < cap THEN cap ELSE RoundUp(id)
    /\ cap' \in IF size' <= cap THEN {cap} ELSE Capacities(size')
    /\ bits' = bits \cup {i \in {id} : i < size'}
    /\ given' = given \cup {id}

(* Faulty variant: next follows every freed id.                            *)
FreeInstanceId_Always(id) ==
    /\ next' = id
    /\ bits' = bits \ {id}
    /\ given' = given \ {id}
    /\ UNCHANGED <<size, cap>>

(* Faulty variant: the bit is cleared only when next moves.                *)
FreeInstanceId_KeepsBit(id) ==
    /\ next' = IF id < next THEN id ELSE next
    /\ bits' = IF id < next THEN bits \ {id} ELSE bits
    /\ given' = given \ {id}
    /\ UNCHANGED <<size, cap>>

(* MapManager::FreeInstanceId.                                             *)
FreeInstanceId(id) ==
    /\ next' = IF id < next THEN id ELSE next
    /\ bits' = bits \ {id}
    /\ given' = given \ {id}
    /\ UNCHANGED <<size, cap>>

(* The process ends and starts again on the rows that were stored.         *)
Restart(rows) ==
    /\ rows \subseteq given
    /\ LoadIds(rows, next', size', cap', bits')
    /\ given' = rows

Next ==
    \/ GenerateInstanceId(next)
    \/ \E id \in given : FreeInstanceId(id)
    \/ \E rows \in SUBSET given : Restart(rows)

Spec == Init /\ [][Next]_idVars

-----------------------------------------------------------------------------
(* The allocator's variables have their types: the vector is a whole       *)
(* number of words, inside its capacity, and only bits inside it are kept. *)
TypeOK ==
    /\ next \in Nat \ {0} /\ size \in Nat /\ cap \in Nat
    /\ size % Word = 0 /\ cap % Word = 0 /\ size <= cap
    /\ bits \subseteq Ids /\ \A i \in bits : i < size
    /\ given \subseteq Ids

(* GenerateInstanceId's claim on FreeInstanceId: no free id is below       *)
(* _nextInstanceId, so ids are always reused from the bottom and none is   *)
(* ever skipped for good.                                                  *)
LowestAvailable == \A i \in Ids : i < next => i \in given

(* An id that is free again is not still marked in _instanceIds (it would  *)
(* never be handed out a second time).                                     *)
FreedIdsAreClear == bits \subseteq given

(* GenerateInstanceId can only return an id that is still in use when the  *)
(* id is a whole number of words (32, 64, ...): every other id that is in  *)
(* use has its bit set.                                                    *)
OnlyWordMultiplesRepeat == next \in given => next % Word = 0

(* "Find the lowest available id": the id the next call returns is not in  *)
(* use.                                                                    *)
NextUnused == next \notin given
=============================================================================
