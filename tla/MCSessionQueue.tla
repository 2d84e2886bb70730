--------------------------- MODULE MCSessionQueue ---------------------------
(* SessionQueue for TLC: accounts of the same rank are interchangeable.    *)
EXTENDS SessionQueue

Interchangeable == Permutations(Accounts \ Staff)
=============================================================================
