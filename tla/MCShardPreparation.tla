------------------------- MODULE MCShardPreparation -------------------------
(* Values for the constants of ShardPreparation: records of three sizes,   *)
(* and inputs that stress the cut: one record, a record larger than all    *)
(* the others at either end or between them, the same records in another   *)
(* order.  Any of them may be what the next pass over the input finds.     *)
EXTENDS ShardPreparation, TLC

CONSTANTS p1, p2, small, medium, large

MCSize == [r \in {small, medium, large} |->
             CASE r = small -> 3 [] r = medium -> 4 [] r = large -> 12]

MCInputs == {<<large>>, <<small, large>>,
             <<small, large, medium>>, <<small, medium, large>>,
             <<large, small, small, medium>>, <<small, small, small, large>>}

TwoPreparers == {p1, p2}
Alike == Permutations(TwoPreparers)
=============================================================================
