------------------------- MODULE MCDlcCoordination -------------------------
(* Values for the constants of DlcCoordination.                            *)
EXTENDS DlcCoordination, TLC

CONSTANTS i1, i2, i3

TwoInstances   == {i1, i2}
ThreeInstances == {i1, i2, i3}

Alike2 == Permutations(TwoInstances)
Alike3 == Permutations(ThreeInstances)
=============================================================================
