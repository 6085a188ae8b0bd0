-------------------------- MODULE MCLocalExecutor --------------------------
(* Four rows.  The filters a and b share an intermediate variable, c and   *)
(* none have none, and none drops every row; m renumbers the rows, so that *)
(* a filter drops other rows before it than after it; of the GPU mappers   *)
(* u and v fit on a GPU together, w with neither; g is an explicitly       *)
(* fused operator.  Recipes extend, reorder and shorten one another.       *)
EXTENDS LocalExecutor

MCRows == 0..9
FourRows == <<1, 2, 3, 4>>
MCDrops == [o \in {"a", "b", "c", "none"} |->
    CASE o = "a" -> {1} [] o = "b" -> {2} [] o = "c" -> {3} [] OTHER -> Rows]
MCMakes == [o \in {"m", "u", "v", "w"} |->
    [r \in Rows |-> CASE o = "m" -> (r + 1) % 10 [] o = "u" -> (r + 3) % 10
                      [] o = "v" -> (3 * r) % 10 [] OTHER -> r]]
MCSharedVar == [o \in {"a", "b", "c", "none"} |-> IF o \in {"a", "b"} THEN 1 ELSE 0]
MCReads  == [o \in {"u", "v", "w"} |-> {"text"}]
MCWrites == [o \in {"u", "v", "w"} |-> {o}]
MCVram   == [o \in {"u", "v", "w"} |-> IF o = "w" THEN 60 ELSE 40]
MCParts  == "g" :> <<"a", "m", "c">>
MCRecipes == {<<"a">>, <<"a", "b">>, <<"b", "a">>, <<"a", "none">>, <<"a", "none", "b">>,
              <<"a", "c", "m", "b">>, <<"b", "u", "v", "w", "a">>, <<"g", "b">>}
SlowFirst == {[o \in Ops |-> CASE o = "a" -> 3 [] o = "c" -> 2 [] OTHER -> 1]}
=============================================================================
