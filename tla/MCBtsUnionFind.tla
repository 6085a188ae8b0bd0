--------------------------- MODULE MCBtsUnionFind ---------------------------
(* Inputs for BtsUnionFind: chains of rows whose neighbours share a band,  *)
(* each band on another actor, and a band many rows have.                  *)
EXTENDS BtsUnionFind

FiveRows == <<<<0, 1, 2>>, <<3, 4>>>>
FourKeys == 1..4
OneKeyPerActor == [k \in FourKeys |-> k - 1]

(* Row s[i] has the bands i-1 and i.                                       *)
Chain(s) == [r \in 0..4 |->
    LET i == CHOOSE j \in DOMAIN s : s[j] = r IN {i - 1, i} \cap FourKeys]
Chains == {Chain(<<0, 1, 2, 3, 4>>), Chain(<<1, 3, 0, 4, 2>>), Chain(<<4, 2, 0, 1, 3>>)}
Star == [r \in 0..4 |-> IF r = 4 THEN {1, 2} ELSE {1}]
Pairs == [r \in 0..4 |-> CASE r \in {0, 3} -> {1, 4} [] r \in {1, 4} -> {2, 3} [] OTHER -> {}]
Input(b, m, n) == [bands |-> b, mode |-> m, losses |-> n]
MCInputs ==
    {Input(b, "generated", 0) : b \in Chains \cup {Pairs}}
    \cup {Input(Star, "generated", 1), Input(Star, "given", 1), Input(Pairs, "given", 1)}
=============================================================================
