------------------------------ MODULE OpFusion ------------------------------
(***************************************************************************)
(* Operators and what becomes of a process list when op_fusion is on       *)
(* (ops/op_fusion.py): filters next to one another are reordered, those    *)
(* that share an intermediate variable run as one FusedFilter, and GPU     *)
(* mappers next to one another run as one FusedSequentialBatchOp           *)
(* (ops/fused_sequential_batch_op.py, ops/fused_batch_executor.py).        *)
(*                                                                         *)
(* A stage is the sequence of operators that run as one; a fused list is a *)
(* sequence of stages.  Rows are numbers: a filter drops some of them, a   *)
(* mapper replaces each one.  All operators have the same runtime_env; an  *)
(* operator with another one is not fused with its neighbours.             *)
(***************************************************************************)
EXTENDS Integers, SequencesExt

CONSTANTS
    Rows,         \* the rows there may be
    Ops,
    Drops,        \* the rows each filter drops; every other operator maps
    Makes,        \* the row a mapper makes of each row
    SharedVar,    \* the intermediate variable of a filter, 0: none
    Safe,         \* the GPU mappers that opted into fusion
    Reads, Writes,\* their columns
    Vram,         \* their estimated_vram_fraction in percent, 0: undeclared
    VramLimit,    \* mapper_fusion_vram_limit
    Parts,        \* the operators inside each general_fused_op of a recipe
    BatchRows     \* rows of a batch

Filters == DOMAIN Drops
Basic == Ops \ DOMAIN Parts
SharedVars == 1..6     \* ALL_INTER_VARS, in its order

ASSUME OperatorsAssumption ==
    /\ Filters \subseteq Ops /\ Safe \subseteq Ops \ Filters
    /\ SharedVar \in [Filters -> {0} \cup SharedVars]
    /\ Vram \in [Safe -> 0..100] /\ VramLimit \in 1..100
    /\ DOMAIN Parts \subseteq Ops \ (Filters \cup Safe) /\ BatchRows \in Nat \ {0}
    /\ \A op \in DOMAIN Parts : Parts[op] \in Seq(Basic)
    /\ \A op \in Basic \ Filters : Makes[op] \in [Rows -> Rows]

Singles(s) == [i \in DOMAIN s |-> <<s[i]>>]

---------------------------------------------------------------------------
(* Running operators.                                                      *)

(* What an operator makes of one row.                                      *)
Results(op, r) ==
    IF op \notin Filters THEN <<Makes[op][r]>>
    ELSE IF r \in Drops[op] THEN << >> ELSE <<r>>

ApplyOp(op, rows) == FlattenSeq([i \in DOMAIN rows |-> Results(op, rows[i])])

(* Operators one after the other, each on all rows.                        *)
InTurn(s, rows) ==
    LET after[n \in 0..Len(s)] ==
            IF n = 0 THEN rows ELSE ApplyOp(s[n], after[n - 1])
    IN  after[Len(s)]

(* One batch through operators in turn, until no row is left.              *)
ExecuteBatch(s, batch) ==
    LET after[n \in 0..Len(s)] ==
            IF n = 0 THEN batch
            ELSE IF after[n - 1] = << >> THEN << >> ELSE ApplyOp(s[n], after[n - 1])
    IN  after[Len(s)]

InBatches(s, rows) ==
    FlattenSeq([k \in 1..((Len(rows) + BatchRows - 1) \div BatchRows) |->
        ExecuteBatch(s, SubSeq(rows, (k - 1) * BatchRows + 1,
                               IF k * BatchRows < Len(rows) THEN k * BatchRows ELSE Len(rows)))])

(* All statistics first, and then the rows that every filter keeps.        *)
Without(D, rows) ==
    FlattenSeq([i \in DOMAIN rows |-> IF rows[i] \in D THEN << >> ELSE <<rows[i]>>])
FusedFilter(s, rows) == Without(UNION {Drops[s[i]] : i \in DOMAIN s}, rows)

RunStage(s, rows) ==
    IF Len(s) > 1 /\ Head(s) \in Filters THEN FusedFilter(s, rows)
    ELSE IF Len(s) > 1 THEN InBatches(s, rows)
    ELSE IF Head(s) \in DOMAIN Parts THEN InBatches(Parts[Head(s)], rows)
    ELSE ApplyOp(Head(s), rows)

(* What an operator, and a process list, means: no batches, no fusion.     *)
Meaning(op, rows) ==
    IF op \in DOMAIN Parts THEN InTurn(Parts[op], rows) ELSE ApplyOp(op, rows)

Sequential(s, rows) ==
    LET after[n \in 0..Len(s)] ==
            IF n = 0 THEN rows ELSE Meaning(s[n], after[n - 1])
    IN  after[Len(s)]

---------------------------------------------------------------------------
(* Filters.  time[op] is what a probe measured per row, 0 everywhere with  *)
(* the greedy strategy.                                                    *)

StageTime(s, time) ==
    LET sum[n \in 0..Len(s)] == IF n = 0 THEN 0 ELSE sum[n - 1] + time[s[n]]
    IN  sum[Len(s)]

(* sorted is stable.                                                       *)
BySpeed(stages, time) ==
    LET cost == [i \in DOMAIN stages |-> StageTime(stages[i], time)]
        Before(i) == {j \in DOMAIN stages :
                         cost[j] < cost[i] \/ (cost[j] = cost[i] /\ j < i)}
    IN  [k \in DOMAIN stages |->
            stages[CHOOSE i \in DOMAIN stages : Cardinality(Before(i)) = k - 1]]

FuseFilterGroup(group, time) ==
    LET With(v) == FlattenSeq([i \in DOMAIN group |->
                       IF SharedVar[group[i]] = v THEN <<group[i]>> ELSE << >>])
        shared  == FlattenSeq([v \in SharedVars |->
                       IF With(v) = << >> THEN << >> ELSE <<With(v)>>])
    IN  BySpeed(Singles(With(0)) \o shared, time)

(* Mutant: a mapper does not end the group of filters before it.           *)
FuseFiltersAcross(s, time) ==
    Singles(SelectSeq(s, LAMBDA op : op \notin Filters))
        \o FuseFilterGroup(SelectSeq(s, LAMBDA op : op \in Filters), time)

NoGroup == [group |-> << >>, out |-> << >>]

(* A filter joins the group before it, any other operator ends it.         *)
ScanFilter(acc, op, time) ==
    IF op \in Filters THEN [acc EXCEPT !.group = Append(@, op)]
    ELSE [group |-> << >>,
          out |-> acc.out \o FuseFilterGroup(acc.group, time) \o <<<<op>>>>]

FuseFilters(s, time) ==
    LET scan[n \in 0..Len(s)] ==
            IF n = 0 THEN NoGroup ELSE ScanFilter(scan[n - 1], s[n], time)
        end == scan[Len(s)]
    IN  end.out \o FuseFilterGroup(end.group, time)

---------------------------------------------------------------------------
(* Mappers.                                                                *)

Independent(group) ==
    /\ \A i \in DOMAIN group : Writes[group[i]] # {}
    /\ \A i, j \in DOMAIN group : i < j =>
           Writes[group[i]] \cap (Writes[group[j]] \cup Reads[group[j]]) = {}

Blocked(group) ==
    \/ ~Independent(group)
    \/ \E i \in DOMAIN group : Vram[group[i]] = 0
    \/ FoldLeft(LAMBDA v, op : v + Vram[op], 0, group) > VramLimit

FlushGroup(group) == IF Len(group) >= 2 THEN <<group>> ELSE Singles(group)

(* A GPU mapper joins the group before it, or begins one if it may not.    *)
ScanMapper(acc, s) ==
    IF ~(Len(s) = 1 /\ Head(s) \in Safe)
    THEN [group |-> << >>, out |-> acc.out \o FlushGroup(acc.group) \o <<s>>]
    ELSE IF acc.group # << >> /\ Blocked(acc.group \o s)
    THEN [group |-> s, out |-> acc.out \o FlushGroup(acc.group)]
    ELSE [acc EXCEPT !.group = @ \o s]

FuseMappers(stages) ==
    LET scan[n \in 0..Len(stages)] ==
            IF n = 0 THEN NoGroup ELSE ScanMapper(scan[n - 1], stages[n])
        end == scan[Len(stages)]
    IN  end.out \o FlushGroup(end.group)

FuseOperators(s, time) == FuseMappers(FuseFilters(s, time))
=============================================================================
