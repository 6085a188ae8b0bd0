------------------------------ MODULE GpuProbe ------------------------------
(***************************************************************************)
(* The GPU memory preflight of the partitioned executor                    *)
(* (core/executor/gpu_memory_probe.py): before a job is cut into           *)
(* partitions, every CUDA operator is run on one full batch of the rows    *)
(* the recipe would feed it, in a disposable worker that owns a GPU, and   *)
(* its peak becomes the share of a GPU its actors ask Ray for.             *)
(*                                                                         *)
(* Operators whose declared columns show that they depend on CPU operators *)
(* only are probed by concurrent workers, the others by replaying the      *)
(* recipe in order.  Results are saved once, when everything is measured,  *)
(* and a later start takes those whose operator and GPU are the same.      *)
(*                                                                         *)
(* What an operator did to a row is the set of operators its columns have  *)
(* gone through; shares of a GPU are counted in 1/(100 MaxWorkers), memory *)
(* in MiB.                                                                 *)
(***************************************************************************)
EXTENDS Integers, FiniteSets, SequencesExt

CONSTANTS
    Recipes,     \* sequences of operators, see Operator
    Names, Columns, Envs,
    Dataset,     \* ids of the first rows of the input
    Gpus,        \* [name, total]: the GPU the cluster may have at a start
    MaxWorkers,  \* max_gpu_workers_per_device
    Limit,       \* _parallel_probe_limit: probes running at once
    Faults,      \* "error", "empty", "hardware", "kill"
    None,
    MaxStarts,
    MaxActors    \* bound: actors of an operator on one GPU in DeviceFits

Kinds == {"mapper", "filter", "dedup", "pipeline"}
Operator ==
    [name : Names, kind : Kinds, gpu : BOOLEAN, batch : Nat \ {0}, peak : Nat \ {0},
     declared : BOOLEAN,                          \* input_columns and output_columns
     uses : SUBSET Columns, makes : SUBSET Columns,
     drops : [BOOLEAN -> SUBSET Range(Dataset)],  \* what it filters out of rows whose
                                                  \* columns are raw (FALSE) or not
     indexed : BOOLEAN, env : Envs,
     hint : {0} \cup 1..(100 * MaxWorkers)]       \* num_gpus of the recipe; 0: none

ASSUME WorkersAssumption == {MaxWorkers, Limit} \subseteq Nat \ {0}
ASSUME RecipesAssumption == \A r \in Recipes : r \in Seq(Operator)
ASSUME DatasetAssumption == Dataset \in Seq(Range(Dataset)) \ {<< >>}
ASSUME BoundsAssumption  ==
    {MaxStarts, MaxActors} \subseteq Nat /\ Faults \subseteq {"error", "empty", "hardware", "kill"}

VARIABLES
    report,      \* gpu_probe_results.json: index -> record
    pc, recipe, gpu, starts,
    pending,     \* the operators this start must measure
    found,       \* records of this start, reused ones included
    jobs,        \* targets for parallel probes nobody has submitted
    workers,     \* index -> [end : None or how it ended, late : BOOLEAN]
    results,     \* index -> how a received probe ended
    overdue,     \* workers over the deadline when the driver last looked
    at, rows,    \* the ordered replay: next operator and its rows
    known,       \* history: the workers that had ended at that look
    blamed       \* history: the probes the driver gave up as timed out

probing == <<jobs, workers, results, overdue, known, blamed>>
replay  == <<at, rows>>
vars == <<report, pc, recipe, gpu, starts, pending, found, jobs, workers, results,
          overdue, at, rows, known, blamed>>

Nothing == [i \in {} |-> None]
With(new, old) ==
    [i \in DOMAIN new \cup DOMAIN old |-> IF i \in DOMAIN new THEN new[i] ELSE old[i]]
Start0  == [id |-> 0, val |-> [c \in Columns |-> {}]]
Sample(n) == [i \in 1..(IF n < Len(Dataset) THEN n ELSE Len(Dataset)) |->
                 [Start0 EXCEPT !.id = Dataset[i]]]

Init ==
    /\ report = Nothing /\ pc = "off" /\ recipe = << >> /\ gpu = None /\ starts = 0
    /\ pending = {} /\ found = Nothing
    /\ jobs = {} /\ workers = Nothing /\ results = Nothing /\ overdue = {}
    /\ at = 1 /\ rows = << >> /\ known = {} /\ blamed = {}

---------------------------------------------------------------------------
(* Running operators on rows.                                              *)

Larger(m, n)  == IF m > n THEN m ELSE n
Ceil(m, n)    == (m + n - 1) \div n
Touched(op)   == op.uses \cup op.makes
History(row, cols) == UNION {row.val[c] : c \in cols}

Processed(op, row) ==
    [row EXCEPT !.val = [c \in Columns |->
        IF c \in op.makes THEN {op.name} \cup History(row, Touched(op)) ELSE row.val[c]]]

Dropped(op, row) == row.id \in op.drops[History(row, op.uses) # {}]

(* A deduplicator lets the first of the rows it takes for equal through.   *)
Keeps(op, rs, i) ==
    CASE op.kind = "filter" -> ~Dropped(op, rs[i])
      [] op.kind = "dedup"  ->
            ~(Dropped(op, rs[i]) /\ \E j \in 1..(i - 1) : Dropped(op, rs[j]))
      [] OTHER -> TRUE

Kth(S, k) == CHOOSE i \in S : Cardinality({j \in S : j < i}) = k - 1

Run(op, rs) ==
    LET kept == {i \in DOMAIN rs : Keeps(op, rs, i)}
    IN  [k \in 1..Cardinality(kept) |-> Processed(op, rs[Kth(kept, k)])]

(* The operators at S of the recipe r, in its order.                       *)
RunAll(r, S, rs) ==
    LET after[k \in 0..Len(r)] ==
            IF k = 0 THEN rs
            ELSE IF k \in S THEN Run(r[k], after[k - 1]) ELSE after[k - 1]
    IN  after[Len(r)]

(* fill_to_batch of rows, which are not empty.                             *)
Fill(rs, n) == [i \in 1..n |-> rs[((i - 1) % Len(rs)) + 1]]

---------------------------------------------------------------------------
(* Which operators are measured, and how.                                  *)

NeedsProbe(op)   == op.gpu /\ op.hint = 0
NeedsProfile(op) == op.gpu /\ op.kind \in {"mapper", "filter"}
Candidates(r)    == {i \in DOMAIN r : NeedsProbe(r[i]) \/ NeedsProfile(r[i])}
SampleCount(r, S) == Max({r[i].batch : i \in S})

(* plan_parallel_probe_jobs.                                               *)
DependsOn(r, i) ==
    {j \in 1..(i - 1) : \/ r[j].kind # "mapper"
                        \/ r[j].declared /\ r[j].makes \cap Touched(r[i]) # {}}
Ancestors(r, i) ==
    LET direct == [k \in 1..i |-> IF r[k].declared THEN DependsOn(r, k) ELSE {}]
        closure[k \in 1..i] == direct[k] \cup UNION {closure[j] : j \in direct[k]}
    IN  closure[i]

Parallel(r, i) ==
    LET ancestors == Ancestors(r, i)
    IN  /\ r[i].kind \in {"mapper", "filter"}
        /\ \A j \in 1..i : r[j].declared
        /\ \A j \in ancestors : r[j].kind \in {"mapper", "filter"}
        /\ \A j \in ancestors \cup {i} : ~r[j].indexed
        /\ \A j \in ancestors : ~r[j].gpu /\ r[j].env = r[i].env

Serial(r, S) == {i \in S : ~Parallel(r, i)}

(* The rows a parallel worker runs its target on: pure mapper ancestry     *)
(* keeps rows, so one batch is enough.                                     *)
AncestorRows(r, i, sample) ==
    LET ancestors == Ancestors(r, i)
        source == IF \E j \in ancestors : r[j].kind = "filter" THEN sample
                  ELSE SubSeq(sample, 1, IF r[i].batch < Len(sample) THEN r[i].batch ELSE Len(sample))
    IN  RunAll(r, ancestors, source)

---------------------------------------------------------------------------
(* calculate_resource_plan and scheduling_num_gpus.                        *)

Whole == 100 * MaxWorkers
Planned(op) == Ceil(11 * op.peak, 10)
Fits(op)    == Planned(op) <= gpu.total
Share(op)   == Larger(1, Ceil(100 * Planned(op), gpu.total)) * MaxWorkers
AutoShare(op) == Larger(Share(op), 100)

(* Mutant: num_gpus of the recipe wins over the share.                     *)
ScheduledAsHinted(op) == IF op.hint > 0 THEN op.hint ELSE AutoShare(op)

(* What actors ask for: never less than the share that was measured.       *)
Scheduled(op) == Larger(Share(op), IF op.hint > 0 THEN op.hint ELSE AutoShare(op))

Record(i, batch) ==
    [op |-> recipe[i], gpu |-> gpu, share |-> Share(recipe[i]),
     num_gpus |-> Scheduled(recipe[i]), batch |-> batch]

---------------------------------------------------------------------------
(* resolve: reuse, refuse, or begin to probe.                              *)

Stopped == pc \in {"off", "ready", "failed"}

Matching(r) == {i \in Candidates(r) \cap DOMAIN report : report[i].op = r[i]}
SameGpu(g, i) ==
    /\ report[i].gpu.name = g.name
    /\ report[i].gpu.total - g.total \in -16..16

(* _select_reusable_records: none, when the hardware cannot be read.       *)
Reusable(r, g) ==
    {{i \in Matching(r) : SameGpu(g, i)}}
        \cup IF "hardware" \in Faults /\ Matching(r) # {} THEN {{}} ELSE {}

Refused(r, S) ==
    \/ \E i \in Candidates(r) : r[i].kind = "pipeline"
    \/ S # {} /\ \E i \in 1..Max(S) : r[i].kind = "pipeline"

Waiting(r, S) == {i \in S : Parallel(r, i)}
(* The first n targets of a queue, which is in the recipe's order.         *)
First(q, n) == {i \in q : Cardinality({j \in q : j < i}) < n}
Submitted(S) == [i \in S |-> [end |-> None, late |-> FALSE]]

Resolve(r, g, reused) ==
    LET todo  == Candidates(r) \ reused
        queue == Waiting(r, todo)
    IN  /\ recipe' = r /\ gpu' = g /\ starts' = starts + 1
        /\ pending' = todo
        /\ found' = [i \in reused |-> report[i]]
        /\ at' = 1 /\ results' = Nothing
        /\ overdue' = {} /\ known' = {} /\ blamed' = {}
        /\ \/ /\ Refused(r, todo)
              /\ pc' = "failed" /\ jobs' = {} /\ workers' = Nothing /\ rows' = << >>
           \/ /\ ~Refused(r, todo) /\ todo = {}
              /\ pc' = "ready" /\ jobs' = {} /\ workers' = Nothing /\ rows' = << >>
           \/ /\ ~Refused(r, todo) /\ todo # {}
              /\ jobs' = queue \ First(queue, Limit)
              /\ workers' = Submitted(First(queue, Limit))
              /\ rows' = Sample(SampleCount(r, todo))
              /\ pc' = IF queue = {} THEN "replay" ELSE "wait"
        /\ UNCHANGED report

Start ==
    /\ Stopped /\ starts < MaxStarts
    /\ \E r \in Recipes, g \in Gpus : \E reused \in Reusable(r, g) : Resolve(r, g, reused)

(* Any exception: what still runs is cancelled, the job does not start.    *)
Fail ==
    /\ pc' = "failed"
    /\ jobs' = {} /\ workers' = Nothing
    /\ UNCHANGED <<report, recipe, gpu, starts, pending, found, results, replay>>

---------------------------------------------------------------------------
(* Parallel probes: the workers, and the driver's loop.                    *)

Ended(W) == {i \in DOMAIN W : W[i].end # None}
Late(W)  == {i \in DOMAIN W : W[i].late}

Ends(i) ==
    IF AncestorRows(recipe, i, rows) = << >> THEN {"error"}
    ELSE {"ok"} \cup (Faults \cap {"error"})
                \cup IF recipe[i].kind = "mapper" THEN Faults \cap {"empty"} ELSE {}

(* A worker may also never end.                                            *)
WorkerEnds ==
    /\ \E i \in DOMAIN workers \ Ended(workers) : \E e \in Ends(i) :
           workers' = [workers EXCEPT ![i].end = e]
    /\ UNCHANGED <<report, pc, recipe, gpu, starts, pending, found, jobs, results,
                   overdue, replay, known, blamed>>

(* gpu_probe_timeout_seconds pass since a worker was submitted.            *)
GetsLate ==
    /\ \E i \in DOMAIN workers \ Late(workers) : workers' = [workers EXCEPT ![i].late = TRUE]
    /\ UNCHANGED <<report, pc, recipe, gpu, starts, pending, found, jobs, results,
                   overdue, replay, known, blamed>>

(* ray.wait for one worker, for a while, and the time after it.            *)
Look ==
    /\ pc = "wait" /\ workers # Nothing
    /\ overdue' = Late(workers)
    /\ known' = Ended(workers)
    /\ pc' = IF Ended(workers) = {} THEN "check" ELSE "drain"
    /\ UNCHANGED <<report, recipe, gpu, starts, pending, found, jobs, workers,
                   results, replay, blamed>>

(* Mutant: only the worker ray.wait was asked for is received.             *)
ReadyOne == {CHOOSE i \in Ended(workers) : TRUE}

Ready == Ended(workers)

(* Everything that is ready by now is received, and as many probes are     *)
(* submitted.                                                              *)
Drain ==
    /\ pc = "drain"
    /\ overdue' = overdue /\ blamed' = blamed /\ known' = Ended(workers)
    /\ LET more == First(jobs, Cardinality(Ready))
       IN  IF \E i \in Ready : workers[i].end = "error"
           THEN Fail
           ELSE /\ results' = With([i \in Ready |-> workers[i].end], results)
                /\ jobs' = jobs \ more
                /\ workers' = With(Submitted(more),
                                   [i \in DOMAIN workers \ Ready |-> workers[i]])
                /\ pc' = "check"
                /\ UNCHANGED <<report, recipe, gpu, starts, pending, found, replay>>

TimeOut ==
    /\ pc = "check" /\ overdue \cap DOMAIN workers # {}
    /\ blamed' = overdue \cap DOMAIN workers
    /\ Fail
    /\ UNCHANGED <<overdue, known>>

Continue ==
    /\ pc = "check" /\ overdue \cap DOMAIN workers = {}
    /\ pc' = IF workers = Nothing THEN "collect" ELSE "wait"
    /\ overdue' = {} /\ known' = {}
    /\ UNCHANGED <<report, recipe, gpu, starts, pending, found, jobs, workers, results,
                   blamed, replay>>

(* A mapper that lost its batch, or a plan for more than a GPU, fails.     *)
Collect ==
    /\ pc = "collect"
    /\ IF \E i \in DOMAIN results : results[i] = "empty" \/ ~Fits(recipe[i])
       THEN /\ Fail
            /\ UNCHANGED <<overdue, known, blamed>>
       ELSE /\ found' = With([i \in DOMAIN results |->
                                 Record(i, Fill(AncestorRows(recipe, i, rows), recipe[i].batch))],
                             found)
            /\ pc' = IF Serial(recipe, pending) = {} THEN "save" ELSE "replay"
            /\ UNCHANGED <<report, recipe, gpu, starts, pending, probing, replay>>

---------------------------------------------------------------------------
(* The ordered replay, one operator at a time.                             *)

IsTarget == at \in Serial(recipe, pending)
LastSerial == Max(Serial(recipe, pending))
Op == recipe[at]

(* Mutant: the rows of the measured batch go on.                           *)
OnwardMeasured == Run(Op, IF IsTarget THEN Fill(rows, Op.batch) ELSE rows)
(* A measured batch may be cut or padded: later operators get what all the *)
(* rows become, unless nobody comes after.                                 *)
Onward ==
    IF IsTarget /\ ~(at < LastSerial /\ Len(rows) # Op.batch)
    THEN Run(Op, Fill(rows, Op.batch))
    ELSE Run(Op, rows)

Measurable == IsTarget => rows # << >> /\ Fits(Op)

Stage ==
    /\ pc = "replay" /\ Measurable
    /\ found' = IF IsTarget THEN With([i \in {at} |-> Record(i, Fill(rows, Op.batch))], found)
                 ELSE found
    /\ rows' = Onward
    /\ at' = at + 1
    /\ pc' = IF at = LastSerial THEN "save" ELSE "replay"
    /\ UNCHANGED <<report, recipe, gpu, starts, pending, probing>>

StageFails ==
    /\ pc = "replay"
    /\ Measurable => \/ "error" \in Faults
                     \/ IsTarget /\ Op.kind = "mapper" /\ "empty" \in Faults
    /\ Fail
    /\ UNCHANGED <<overdue, known, blamed>>

(* _save_report replaces the file at once.                                 *)
Save ==
    /\ pc = "save"
    /\ report' = found /\ pc' = "ready"
    /\ UNCHANGED <<recipe, gpu, starts, pending, found, probing, replay>>

Kill ==
    /\ "kill" \in Faults /\ ~Stopped
    /\ pc' = "off" /\ jobs' = {} /\ workers' = Nothing
    /\ UNCHANGED <<report, recipe, gpu, starts, pending, found, results, overdue,
                   known, blamed, replay>>

Next ==
    \/ Start \/ WorkerEnds \/ GetsLate \/ Look \/ Drain \/ TimeOut \/ Continue
    \/ Collect \/ Stage \/ StageFails \/ Save \/ Kill

Spec == Init /\ [][Next]_vars

---------------------------------------------------------------------------
(* Whatever way it was probed, an operator was measured on a full batch of *)
(* the rows that the operators before it make of the sample: what a replay *)
(* in order gives in every column the operator touches, in that order, and *)
(* with no row that an earlier batch was padded with or lost to            *)
(* (resolve, plan_parallel_probe_jobs, _run_parallel_probe_job).           *)
AsSeenBy(op, rs) == [k \in DOMAIN rs |-> <<rs[k].id, [c \in Touched(op) |-> rs[k].val[c]]>>]
Fed(i) == RunAll(recipe, 1..(i - 1), Sample(SampleCount(recipe, pending)))

LineageMeasured ==
    \A i \in DOMAIN found \cap pending :
        AsSeenBy(recipe[i], found[i].batch)
            = AsSeenBy(recipe[i], Fill(Fed(i), recipe[i].batch))

(* What n[i] actors of each operator i need together.                      *)
Total(n, each) == FoldSet(LAMBDA i, sum : sum + n[i] * each[i], 0, DOMAIN each)

(* Ray packs actors by num_gpus alone: whatever mix of measured operators  *)
(* it puts on one GPU of this start, their peaks fit, also with num_gpus   *)
(* of the recipe and with records of an earlier start                      *)
(* (calculate_resource_plan, scheduling_num_gpus, _apply_record).          *)
DeviceFits ==
    pc = "ready" =>
        \A n \in [DOMAIN found -> 0..MaxActors] :
            Total(n, [i \in DOMAIN found |-> found[i].num_gpus]) <= Whole
                => Total(n, [i \in DOMAIN found |-> recipe[i].peak]) <= gpu.total

(* A probe the driver reports as timed out had not ended when the driver   *)
(* last looked: a finished one is not mistaken for an overdue one when     *)
(* several finish near the deadline (_run_parallel_jobs_with_ray).         *)
TimeoutHonest == blamed \cap known = {}
=============================================================================
