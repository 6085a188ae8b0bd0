--------------------------- MODULE LocalExecutor ---------------------------
(***************************************************************************)
(* The default executor (core/executor/default_executor.py), the operator  *)
(* loop it runs on its dataset (NestedDataset.process), the                *)
(* CheckpointManager that lets a later run of the job skip operators, and  *)
(* the Exporter.  Runs of one job follow one another in one work_dir; the  *)
(* user may edit the recipe or turn op_fusion on, which turns checkpoints  *)
(* off, in between, an operator may raise, and the process may be killed   *)
(* anywhere, with a file half written.                                     *)
(*                                                                         *)
(* A dataset is the sequence of its rows and the operators applied to it.  *)
(***************************************************************************)
EXTENDS OpFusion

CONSTANTS
    Source,       \* the rows of the input, in order
    Recipes,      \* the process lists the user may run
    Probes,       \* time per row of each operator that a probe may measure
    ShardSizes,   \* values of export_shard_size, in rows; 0: one file
    None, Torn,   \* no such file; a file that was cut while it was written
    MaxStarts,    \* bound: runs of the job
    MaxFaults     \* bound: operators that raise, kills, files not written

ASSUME InputAssumption ==
    /\ Source \in Seq(Rows) /\ Recipes \subseteq Seq(Ops)
    /\ Probes \subseteq [Ops -> Nat]
ASSUME BoundsAssumption == ShardSizes \subseteq Nat /\ MaxStarts \in Nat /\ MaxFaults \in Nat

VARIABLES
    latest, record,             \* ckpt/latest and ckpt/ckpt_op.json
    files,                      \* the exported files: rows by name
    phase, recipe, shardRows,   \* of the current run, or the last one
    fusing,                     \* whether op_fusion is on, which use_checkpoint is not
    available, opRecord, left,  \* of its CheckpointManager; the stages to run
    dataset, touched,           \* what process holds; `dataset is not self`
    raised,                     \* an exception is on its way out
    todo,                       \* files its export has still to write
    starts, faults,
    broken, misled, lost        \* history: a save was cut short or left out,
                                \* the run loaded such a checkpoint, it lost a shard

config  == <<recipe, shardRows, fusing>>
disk    == <<latest, record>>
manager == <<available, opRecord, left>>
history == <<broken, misled, lost>>
vars == <<latest, record, files, phase, recipe, shardRows, fusing, available, opRecord,
          left, dataset, touched, raised, todo, starts, faults, broken, misled, lost>>

Down == {"down", "failed", "done"}
Saving == {"saving", "record", "recording"}   \* save_checkpoint is under way

Input == [rows |-> Source, ops |-> << >>]
Apply(stage, ds) == [rows |-> RunStage(stage, ds.rows), ops |-> ds.ops \o stage]
(* What the operators s make of the input, one after the other.            *)
Outcome(s) == [rows |-> Sequential(s, Source), ops |-> s]

---------------------------------------------------------------------------

(* check_ops_to_skip: the record is a prefix of the process list.          *)
Matches(r) ==
    /\ latest # None /\ record \notin {None, Torn}
    /\ IsPrefix(record, r)

Init ==
    /\ latest = None /\ record = None /\ files = << >>
    /\ phase = "down" /\ recipe = << >> /\ shardRows = 0 /\ fusing = FALSE
    /\ available = FALSE /\ opRecord = << >> /\ left = << >>
    /\ dataset = Input /\ touched = FALSE /\ raised = FALSE /\ todo = {}
    /\ starts = 0 /\ faults = 0
    /\ broken = FALSE /\ misled = FALSE /\ lost = FALSE

Begin(r) ==
    /\ phase \in Down /\ starts < MaxStarts
    /\ starts' = starts + 1 /\ recipe' = r /\ shardRows' \in ShardSizes
    /\ dataset' = Input /\ touched' = FALSE /\ raised' = FALSE
    /\ misled' = FALSE /\ lost' = FALSE
    /\ UNCHANGED <<latest, record, files, todo, faults, broken>>

(* Mutant: a record that does not match is kept.                           *)
StartKeeping(r) ==
    /\ Begin(r)
    /\ ~(latest # None /\ record = Torn)
    /\ phase' = "open" /\ fusing' = FALSE /\ available' = Matches(r)
    /\ opRecord' = IF latest # None /\ record # None THEN record ELSE << >>
    /\ left' = Singles(IF Matches(r) THEN SubSeq(r, Len(record) + 1, Len(r)) ELSE r)

Start(r) ==
    /\ Begin(r)
    /\ ~(latest # None /\ record = Torn)
    /\ phase' = "open" /\ fusing' = FALSE /\ available' = Matches(r)
    /\ opRecord' = IF Matches(r) THEN record ELSE << >>
    /\ left' = Singles(IF Matches(r) THEN SubSeq(r, Len(record) + 1, Len(r)) ELSE r)

(* What op_fusion may make of a recipe, with the probe strategy or without. *)
Plans ==
    [r \in Recipes |-> {FuseOperators(r, time) : time \in Probes \cup {[op \in Ops |-> 0]}}]

(* With op_fusion there is no CheckpointManager.                           *)
StartFusing(r) ==
    /\ Begin(r)
    /\ phase' = "open" /\ fusing' = TRUE /\ available' = FALSE /\ opRecord' = << >>
    /\ left' \in Plans[r]

(* json.load of a cut file raises in the constructor.                      *)
StartRaises(r) ==
    /\ Begin(r)
    /\ latest # None /\ record = Torn
    /\ phase' = "failed" /\ fusing' = FALSE /\ available' = FALSE
    /\ opRecord' = << >> /\ left' = Singles(r)

Load ==
    /\ phase = "open" /\ ~(available /\ latest = Torn)
    /\ phase' = "running"
    /\ dataset' = IF available THEN latest ELSE Input
    /\ misled' = (available /\ broken)
    /\ UNCHANGED <<latest, record, files, config, available, opRecord, left,
                   touched, raised, todo, starts, faults, broken, lost>>

LoadRaises ==
    /\ phase = "open" /\ available /\ latest = Torn
    /\ phase' = "failed"
    /\ UNCHANGED <<disk, files, config, manager, dataset, touched, raised,
                   todo, starts, faults, history>>

---------------------------------------------------------------------------
(* NestedDataset.process.                                                  *)
RunOp ==
    /\ phase = "running" /\ left # << >>
    /\ dataset' = Apply(Head(left), dataset) /\ touched' = TRUE
    /\ opRecord' = IF fusing THEN opRecord ELSE opRecord \o Head(left)
    /\ left' = Tail(left)
    /\ UNCHANGED <<disk, files, phase, config, available, raised, todo,
                   starts, faults, history>>

(* Mutant: the exception leaves at once.                                    *)
RaiseUnsaved ==
    /\ phase = "running" /\ (left # << >> \/ touched) /\ faults < MaxFaults
    /\ faults' = faults + 1 /\ raised' = TRUE
    /\ phase' = "failed"
    /\ UNCHANGED <<disk, files, config, manager, dataset, touched, todo,
                   starts, history>>

(* An operator raises, or the analysis of a small batch after one.         *)
Raise ==
    /\ phase = "running" /\ (left # << >> \/ touched) /\ faults < MaxFaults
    /\ faults' = faults + 1 /\ raised' = TRUE
    /\ phase' = IF touched /\ ~fusing THEN "save" ELSE "failed"
    /\ UNCHANGED <<disk, files, config, manager, dataset, touched, todo,
                   starts, history>>

Processed ==
    /\ phase = "running" /\ left = << >>
    /\ phase' = IF touched /\ ~fusing THEN "save" ELSE "export"
    /\ UNCHANGED <<disk, files, config, manager, dataset, touched, raised,
                   todo, starts, faults, history>>

(* save_checkpoint: the dataset in place, unless it is empty, and then the *)
(* record, whose file is emptied before it is written.                     *)
BeginSave ==
    /\ phase = "save" /\ dataset.rows # << >>
    /\ phase' = "saving" /\ latest' = Torn
    /\ UNCHANGED <<record, files, config, manager, dataset, touched, raised,
                   todo, starts, faults, history>>

FinishSave ==
    /\ phase = "saving"
    /\ phase' = "record" /\ latest' = dataset
    /\ UNCHANGED <<record, files, config, manager, dataset, touched, raised,
                   todo, starts, faults, history>>

SkipSave ==
    /\ phase = "save" /\ dataset.rows = << >>
    /\ phase' = "record"
    /\ UNCHANGED <<disk, files, config, manager, dataset, touched, raised,
                   todo, starts, faults, history>>

OpenRecord ==
    /\ phase = "record"
    /\ phase' = "recording" /\ record' = Torn
    /\ UNCHANGED <<latest, files, config, manager, dataset, touched, raised,
                   todo, starts, faults, history>>

WriteRecord ==
    /\ phase = "recording"
    /\ record' = opRecord
    /\ phase' = IF raised THEN "failed" ELSE "export"
    /\ broken' = (misled \/ (dataset.rows = << >> /\ latest # None))
    /\ UNCHANGED <<latest, files, config, manager, dataset, touched, raised,
                   todo, starts, faults, misled, lost>>

---------------------------------------------------------------------------
(* Exporter._export_impl: one file, or shards that a pool of processes     *)
(* writes and whose results nobody asks for.                               *)
Sharded == shardRows > 0
ShardCount(n) == LET m == n \div shardRows + 1 IN IF m <= n THEN m ELSE n
FileCount(n) == IF Sharded THEN ShardCount(n) ELSE 1
FileName(i, n) == IF Sharded THEN <<i, n>> ELSE <<0, 0>>
(* Mutant: the remainder is left to nobody.                                *)
ShareRounded(rows, i, n) ==
    LET q == Len(rows) \div n IN SubSeq(rows, q * i + 1, q * (i + 1))

Share(rows, i, n) ==
    LET q == Len(rows) \div n  m == Len(rows) % n
        Cut(j) == q * j + (IF j <= m THEN j ELSE m)
    IN  SubSeq(rows, Cut(i) + 1, Cut(i + 1))
Written(i) ==
    LET n == FileCount(Len(dataset.rows))
    IN  [f \in {FileName(i, n)} |-> Share(dataset.rows, i, n)]
CutFiles(S) == [f \in {FileName(i, FileCount(Len(dataset.rows))) : i \in S} |-> << >>]

Over(new, old) ==
    [f \in DOMAIN new \cup DOMAIN old |-> IF f \in DOMAIN new THEN new[f] ELSE old[f]]

StartExport ==
    /\ phase = "export"
    /\ phase' = "exporting" /\ todo' = 0..(FileCount(Len(dataset.rows)) - 1)
    /\ UNCHANGED <<disk, files, config, manager, dataset, touched, raised,
                   starts, faults, history>>

WriteFile(i) ==
    /\ phase = "exporting" /\ i \in todo
    /\ files' = Over(Written(i), files) /\ todo' = todo \ {i}
    /\ UNCHANGED <<disk, phase, config, manager, dataset, touched, raised,
                   starts, faults, history>>

(* Writing one file raises: in a process of the pool, unnoticed.           *)
FailFile(i) ==
    /\ phase = "exporting" /\ i \in todo /\ faults < MaxFaults
    /\ faults' = faults + 1
    /\ files' = Over(CutFiles({i}), files)
    /\ todo' = todo \ {i} /\ lost' = Sharded
    /\ phase' = IF Sharded THEN "exporting" ELSE "failed"
    /\ UNCHANGED <<disk, config, manager, dataset, touched, raised,
                   starts, broken, misled>>

Complete ==
    /\ phase = "exporting" /\ todo = {}
    /\ phase' = "done"
    /\ UNCHANGED <<disk, files, config, manager, dataset, touched, raised,
                   todo, starts, faults, history>>

(* The process is killed, or a write to the checkpoint fails.              *)
Kill ==
    /\ phase \notin Down /\ faults < MaxFaults
    /\ faults' = faults + 1 /\ phase' = "down" /\ todo' = {}
    /\ broken' = (broken \/ phase \in Saving)
    /\ \E S \in SUBSET todo : files' = Over(CutFiles(S), files)
    /\ UNCHANGED <<disk, config, manager, dataset, touched, raised, starts,
                   misled, lost>>

Finished == phase \in Down /\ starts = MaxStarts /\ UNCHANGED vars

Next ==
    \/ \E r \in Recipes : Start(r) \/ StartFusing(r) \/ StartRaises(r)
    \/ Load \/ LoadRaises
    \/ RunOp \/ Raise \/ Processed
    \/ BeginSave \/ FinishSave \/ SkipSave \/ OpenRecord \/ WriteRecord
    \/ StartExport \/ (\E i \in todo : WriteFile(i) \/ FailFile(i)) \/ Complete
    \/ Kill \/ Finished

Spec == Init /\ [][Next]_vars

---------------------------------------------------------------------------
(* What a reader of the export path finds under the names of this export.  *)
Exported(n) == FlattenSeq([i \in 1..FileCount(n) |-> files[FileName(i - 1, FileCount(n))]])

(* A run that ends well has exported what its recipe makes of the input,   *)
(* however its operators were fused and reordered, and whatever earlier    *)
(* runs of other recipes left in the checkpoint and among the files,       *)
(* unless it loaded a checkpoint whose save was cut short or left out, or  *)
(* a shard was lost unnoticed (_run_impl, fuse_operators, _export_impl).   *)
OutputCorrect ==
    phase = "done" /\ ~misled /\ ~lost =>
        Exported(Len(Outcome(recipe).rows)) = Outcome(recipe).rows

(* Between saves, a checkpoint that can be read is what the operators of   *)
(* its record make of the input, unless the last save was cut short        *)
(* between its two files, or skipped the dataset because it was empty.     *)
CheckpointSound ==
    (phase \notin Saving /\ latest \notin {None, Torn} /\ record \notin {None, Torn}) =>
        (broken \/ latest = Outcome(record))

(* When an operator raises, all operators that ended before it are in the  *)
(* checkpoint by the time the run fails.                                   *)
ProgressKept ==
    phase = "failed" /\ touched /\ raised /\ ~fusing =>
        /\ record = opRecord
        /\ dataset.rows # << >> => latest = dataset
=============================================================================
