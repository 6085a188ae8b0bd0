--------------------------- MODULE MCStageProfiles ---------------------------
(* Values for the constants of StageProfiles.                              *)
EXTENDS StageProfiles, TLC

CONSTANTS a1, a2, c, d

Evidence(S, O) == [k \in Kinds |-> IF k = "ooms" THEN O ELSE S]
MCShown == {Evidence({1}, {2}), Evidence({2}, {}), Evidence({3}, {}),
            Evidence({1, 3}, {}), Evidence({1}, {1})}
Alike == Permutations({a1, a2}) \cup Permutations({c, d})
==============================================================================
