----------------------- MODULE MCPartitionedExecutor -----------------------
(* Values for the constants of PartitionedExecutor: one recipe file with   *)
(* several texts and sets of CLI overrides; inputs that differ in one row. *)
EXTENDS PartitionedRefinement, TLC

CONSTANTS r1, r2, r3, r4

MCRows == {r1, r2, r3, r4}
Short  == <<r1, r2, r3>>
Other  == <<r1, r2, r4>>
OneInput  == {Short}
TwoInputs == {Short, Other}
AllInputs == {Short, Other, << >>, <<r1>>}

Recipe(text, cli) == [name |-> "recipe.yaml", text |-> text, cli |-> cli]
Original == Recipe("three ops", "")
Edited   == Recipe("two ops", "")
Override == Recipe("three ops", "other operators")
Sparse   == Recipe("three ops", "--checkpoint.strategy manual")
GlobalFirst == Recipe("global first", "")

OneCommand   == {Original}
Attempts     == {Original, Edited, Sparse}
TwoTexts     == {Original, Edited}
TwoOverrides == {Original, Override}
WithGlobalFirst == {Original, GlobalFirst}

MCNames == {"recipe.yaml"}
MCOps == {"a", "b", "c", "g"}

PlanOf(c) ==
    CASE c \in {Original, Sparse} -> <<"a", "b", "c", "g">>
      [] c = Edited      -> <<"a", "c">>
      [] c = Override    -> <<"b", "a", "c", "g">>
      [] c = GlobalFirst -> <<"g", "a">>

Strictly == [c \in Commands |-> {"new", "resume"}]
AnyWay   == [c \in Commands |-> {"job_id", "resume"}]

MCPlan == [c \in Commands |-> PlanOf(c)]

PerCommand == [c \in Commands |-> IF c = Sparse THEN "manual" ELSE "every_op"]
EveryNth   == [c \in Commands |-> "every_n_ops"]
Manually   == [c \in Commands |-> "manual"]
=============================================================================
