--------------------------- MODULE MCShardClaims ---------------------------
(* Values for the constants of ShardClaims.                                *)
EXTENDS ShardClaims, TLC

CONSTANTS w1, w2, w3

TwoWorkers   == {w1, w2}
ThreeWorkers == {w1, w2, w3}

Alike2 == Permutations(TwoWorkers)
Alike3 == Permutations(ThreeWorkers)
=============================================================================
