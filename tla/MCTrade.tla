------------------------------- MODULE MCTrade -------------------------------
(* Trade for TLC: anna has two tokens, of which nobody may have more than   *)
(* two, bert the third one and two other goods; carl has empty hands, no     *)
(* bags, and a spell.                                                       *)
EXTENDS Trade, TLC

CONSTANTS anna, bert, carl, good1, good2, token1, token2, token3

MCPlayers == {anna, bert, carl}
Tokens == {token1, token2, token3}
Goods == {good1, good2}
MCItems == Tokens \cup Goods
MCKind == [i \in MCItems |-> IF i \in Tokens THEN "token" ELSE "other"]
MCMaxCount == [k \in {"token", "other"} |-> IF k = "token" THEN 2 ELSE 0]

MCCapacity == [p \in MCPlayers |-> IF p = anna THEN 2 ELSE IF p = bert THEN 3 ELSE 0]

MCStartInvs ==
    {[p \in MCPlayers |-> [i \in MCItems |->
        IF p # carl /\ (p = bert <=> i \in Goods \cup {t}) THEN 1 ELSE 0]] : t \in Tokens}
MCStartGold == [p \in MCPlayers |-> IF p = carl THEN 0 ELSE 1]
MCCasters == {carl}

Interchangeable ==
    {f \in Permutations(MCItems) : \A i \in Goods : f[i] \in Goods}
==============================================================================
