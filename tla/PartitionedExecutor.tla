------------------------ MODULE PartitionedExecutor ------------------------
(***************************************************************************)
(* The ray_partitioned executor (PartitionedRayExecutor) as one job of one *)
(* job_id sees it: a sequence of runs (processes) that share a work        *)
(* directory on disk.  A run resolves whether it resumes, fixes the number *)
(* of partitions, cuts the input, validates or clears what an earlier run  *)
(* left, lets a pool of threads push every partition through the recipe    *)
(* while saving checkpoints, merges, exports, and logs job_complete.  Any  *)
(* step may be the last one before the process is killed.                  *)
(*                                                                         *)
(* A row is a model value; a row in flight remembers the operators that    *)
(* were applied to it, in order.  Operators that drop or rewrite rows are  *)
(* not told apart: the properties are about which operators ran on which   *)
(* rows.  The content hash of a partition is its rows.                     *)
(***************************************************************************)
EXTENDS Integers, Sequences, FiniteSets

CONSTANTS
    Rows,             \* the rows an input may hold
    Inputs,           \* the versions of the input dataset: sequences of rows
    Ops,              \* operators
    GlobalOps,        \* the operators that need the merged dataset
    Commands,         \* [name, text, cli]: recipe file, its text, the CLI overrides
    Names,            \* names of recipe files
    Plan,             \* the operators a command runs, in order
    PartitionCounts,  \* the counts a run may configure or compute
    SizeTarget,       \* partition.size, or 0 when it is not configured
    MaxPartitions,    \* bound: no run has more partitions
    MaxOps,           \* bound: no recipe has more operators
    Strategy,         \* the checkpoint strategy of a command
    EveryN,           \* n_ops of the every_n_ops strategy
    ManualOps,        \* op_names of the manual strategy
    MaxWorkers,       \* max_concurrent_partitions
    Gpu,              \* the recipe has a GPU operator and no dataset-level one
                      \* before its first global operator
    GroupSize,        \* partitions per execution group
    Modes,            \* the ways a run with a command may be started
    Faults,           \* the faults the environment may inject
    MaxRuns,          \* bound: runs of the job
    None,             \* no such file, no such value
    Corrupt           \* a file that exists and cannot be read

(* "crash": the process is killed.  "op": an operator or a write raises.    *)
(* "torn": a write cut short leaves part of the checkpoint directory.       *)
(* "load": reading a checkpoint raises.  "clear": the kill may hit while    *)
(* the checkpoint directory is being removed.  "export": the kill may hit   *)
(* between the export and the job_complete event.                           *)
AllFaults == {"crash", "op", "torn", "load", "clear", "export"}

(* "new": no --job_id; "job_id": --job_id J; "resume": --resume J.          *)
AllModes == {"new", "job_id", "resume"}

(* _partition_count_from_size: the nearest count, ties up, at least one.   *)
CountFromSize(total, size) ==
    LET q == total \div size
        up == IF 2 * (total % size) >= size THEN 1 ELSE 0
    IN  IF q + up < 1 THEN 1 ELSE q + up

ASSUME CommandsAssumption ==
    /\ Commands \subseteq [name : Names, text : STRING, cli : STRING]
    /\ Plan \in [Commands -> Seq(Ops)]
    /\ \A c \in Commands : Len(Plan[c]) <= MaxOps
ASSUME InputsAssumption == Inputs \subseteq Seq(Rows)
ASSUME BoundsAssumption ==
    /\ MaxPartitions \in Nat \ {0} /\ MaxOps \in Nat \ {0}
    /\ MaxWorkers \in Nat \ {0} /\ MaxRuns \in Nat /\ EveryN \in Nat \ {0}
    /\ GroupSize \in Nat \ {0} /\ Gpu \in BOOLEAN
    /\ SizeTarget \in Nat /\ PartitionCounts \subseteq 1..MaxPartitions
    /\ SizeTarget # 0 =>
          \A rows \in Inputs : CountFromSize(Len(rows), SizeTarget) <= MaxPartitions
ASSUME KindsAssumption ==
    /\ Strategy \in [Commands -> {"every_op", "every_n_ops", "manual", "disabled"}]
    /\ \A c, d \in Commands : Strategy[c] = "disabled" <=> Strategy[d] = "disabled"
    /\ Modes \in [Commands -> SUBSET AllModes] /\ Faults \subseteq AllFaults
    /\ GlobalOps \subseteq Ops /\ ManualOps \subseteq Ops

VARIABLES
    \* ---- the work directory, which outlives a run
    info,       \* partitioning_info.json
    ckpt,       \* checkpoint_op_<i>_partition_<p>.parquet
    backup,     \* the recipe files copied into the work directory
    savedCli,   \* cli.yaml
    events,     \* what the latest events file says of the job
    exported,   \* the datasets written to export_path, in order
    runs,       \* runs started so far
    \* ---- the current run
    phase, mode, cmd, inp,
    same,       \* cfg._same_yaml_config
    resuming,   \* self._is_resuming
    num,        \* self.num_partitions
    parts,      \* the partitions of this run
    merged,     \* the final dataset
    \* ---- its partition threads
    status, pos, latest, data, ran,
    \* ---- history
    origin,     \* the command of the run that created the job
    tried       \* the CLI overrides of the runs before this one

disk    == <<info, ckpt>>
workdir == <<backup, savedCli>>
setup   == <<mode, cmd, inp, same, runs, tried>>
threads == <<status, pos, latest, data, ran>>
vars    == <<info, ckpt, backup, savedCli, events, exported, runs, phase, mode,
             cmd, inp, same, resuming, num, parts, merged, status, pos, latest,
             data, ran, origin, tried>>

Parts == 0..(MaxPartitions - 1)
OpIdx == 0..(MaxOps - 1)

-----------------------------------------------------------------------------
(* Datasets.                                                               *)

Item    == [row : Rows, ops : Seq(Ops)]
Dataset == Seq(Item)

(* The rows of an input after the operators s.                             *)
Applied(rows, s) == [k \in 1..Len(rows) |-> [row |-> rows[k], ops |-> s]]

(* RayDataset.process: run the operators s on every row of d.              *)
Process(d, s) ==
    [k \in 1..Len(d) |-> [row |-> d[k].row, ops |-> d[k].ops \o s]]

(* What partitioning_info.json records: the number of partitions and, as   *)
(* row ranges, counts and hashes, the rows each of them held.  The content *)
(* hash is computed only when checkpointing is enabled.                    *)
InfoFile == [n : 1..MaxPartitions, rows : Seq(Rows), hashed : BOOLEAN]

(* No value and no content of a file is taken for a missing or unreadable one. *)
ASSUME FilesAssumption ==
    /\ None # Corrupt /\ None \notin Commands \cup STRING
    /\ None \notin AllModes \cup {"incomplete", "complete"}
    /\ \A file \in {None, Corrupt} : file \notin Dataset /\ file \notin InfoFile

(* PartitioningInfo.load returns None for a missing or unparsable file.    *)
Readable(i) == i # None /\ i # Corrupt

-----------------------------------------------------------------------------
(* Cutting the input.                                                      *)

MinOf(a, b) == IF a <= b THEN a ELSE b

(* Mutant: every boundary takes the whole remainder.                       *)
BoundaryUnclamped(total, n, p) == p * (total \div n) + (total % n)

(* Row boundary before partition p when `total` rows are spread over n     *)
(* partitions; the first total % n partitions take one row more.           *)
Boundary(total, n, p) == p * (total \div n) + MinOf(p, total % n)

(* split_at_indices: partition p of `rows` for the boundaries of `total`   *)
(* rows over n partitions; the last partition takes all that is left.      *)
CutAt(rows, total, n) ==
    [p \in 0..(n - 1) |->
        SubSeq(rows,
               Boundary(total, n, p) + 1,
               IF p = n - 1 THEN Len(rows)
               ELSE MinOf(Boundary(total, n, p + 1), Len(rows)))]

Balanced(rows, n) == CutAt(rows, Len(rows), n)

Counts ==
    IF SizeTarget = 0 THEN PartitionCounts
    ELSE {CountFromSize(Len(inp), SizeTarget)}

(* Mutant: row counts alone.                                               *)
MatchesCounts(cut, n, saved) ==
    /\ n = saved.n
    /\ \A p \in 0..(n - 1) : Len(cut[p]) = Len(Balanced(saved.rows, saved.n)[p])

(* _validate_partitions against the saved metadata.                        *)
Matches(cut, n, saved) ==
    LET old == Balanced(saved.rows, saved.n)
    IN  /\ n = saved.n
        /\ \A p \in 0..(n - 1) :
              IF saved.hashed THEN cut[p] = old[p]
              ELSE /\ Len(cut[p]) = Len(old[p])
                   /\ cut[p] # << >> => cut[p][1] = old[p][1]

-----------------------------------------------------------------------------
(* Recipe, checkpoints and operator groups.                                *)

(* All runs of a job have it enabled, or none.                             *)
CheckpointEnabled == \A c \in Commands : Strategy[c] # "disabled"

ShouldCheckpoint(i) ==
    \/ Strategy[cmd] = "every_op"
    \/ Strategy[cmd] = "every_n_ops" /\ (i + 1) % EveryN = 0
    \/ Strategy[cmd] = "manual" /\ Plan[cmd][i + 1] \in ManualOps

(* The operators ops[i:j] of the recipe.                                   *)
Slice(i, j) == SubSeq(Plan[cmd], i + 1, j)

(* k operators run on partitions: those before the first global operator.  *)
PreLen(c) ==
    Cardinality({k \in 1..Len(Plan[c]) : \A i \in 1..k : Plan[c][i] \notin GlobalOps})

Last == PreLen(cmd)

(* post_convergence_ops: from the first global operator on.                *)
Rest == Slice(Last, Len(Plan[cmd]))

(* The operator group that starts at index k ends before the index in this *)
(* set, which is empty when no operator is left.                           *)
GroupEnd(k) ==
    {e \in (k + 1)..Last : /\ e = Last \/ ShouldCheckpoint(e - 1)
                          /\ \A j \in k..(e - 2) : ~ShouldCheckpoint(j)}

(* find_latest_checkpoint; the checkpointing path alone looks for one.     *)
IsLatest(p, l) ==
    IF CheckpointEnabled
    THEN /\ \A i \in OpIdx : ckpt[p][i] # None => i <= l
         /\ l # -1 => ckpt[p][l] # None
    ELSE l = -1

(* What save_checkpoint leaves when it completes: write_parquet adds its   *)
(* files to those already in the directory.                                *)
Saved(old, d) ==
    IF old = None THEN d
    ELSE IF old = Corrupt THEN Corrupt ELSE old \o d

(* What it may leave when it is cut short.                                 *)
CutShort(old, d) ==
    {old} \cup
    IF "torn" \notin Faults THEN {}
    ELSE {Corrupt} \cup
         IF old = Corrupt THEN {}
         ELSE {Saved(old, SubSeq(d, 1, k)) : k \in 1..(Len(d) - 1)}

(* What load_checkpoint returns for a directory with content d.            *)
LoadResults(d) ==
    (IF d = Corrupt THEN {} ELSE {d})
    \cup (IF d = Corrupt \/ "load" \in Faults THEN {None} ELSE {})

-----------------------------------------------------------------------------
(* Starting a run.                                                         *)

Ended  == {"idle", "completed", "refused", "failed", "crashed", "done"}
Active == {"init", "load", "split", "clear", "record", "recording",
           "process", "export", "exported"}

Init ==
    /\ info = None
    /\ ckpt = [p \in Parts |-> [i \in OpIdx |-> None]]
    /\ backup = [f \in Names |-> None]
    /\ savedCli = None /\ events = None
    /\ exported = << >> /\ runs = 0
    /\ phase = "idle" /\ mode = None /\ cmd = None /\ inp = << >>
    /\ same = FALSE /\ resuming = FALSE /\ num = 0
    /\ parts = << >> /\ merged = << >>
    /\ status = [p \in Parts |-> "idle"] /\ pos = [p \in Parts |-> 0]
    /\ latest = [p \in Parts |-> -1] /\ data = [p \in Parts |-> << >>]
    /\ ran = [p \in Parts |-> {}]
    /\ origin = None /\ tried = {}

(* Mutant: the recipe of the latest run replaces the backup.               *)
BackedUpAgain(c) == [backup EXCEPT ![c.name] = c.text]

(* config_backup keeps the recipe file that is already there.              *)
BackedUp(c) ==
    IF backup[c.name] = None THEN [backup EXCEPT ![c.name] = c.text] ELSE backup

(* Mutant: the overrides are not compared.                                 *)
SameRecipe(c, f) == backup[f] = c.text

(* validate_config_for_resumption, when f is the recipe file it finds.     *)
SameConfig(c, f) == backup[f] = c.text /\ savedCli = c.cli

(* init_configs: compare with what the work directory holds (any of the    *)
(* recipe files there may be the one found), then back the command up.     *)
(* An auto-generated job_id names a work directory that does not exist.    *)
Start(c, m, i) ==
    /\ phase \in Ended /\ runs < MaxRuns
    /\ m = "new" => runs = 0
    /\ \/ runs = 0 /\ same' = TRUE
       \/ runs > 0 /\ \E f \in Names : backup[f] # None /\ same' = SameConfig(c, f)
    /\ backup' = BackedUp(c) /\ savedCli' = c.cli
    /\ tried' = IF runs = 0 THEN {} ELSE tried \cup {cmd.cli}
    /\ runs' = runs + 1
    /\ phase' = "init" /\ mode' = m /\ cmd' = c /\ inp' = i
    /\ resuming' = FALSE /\ num' = 0 /\ parts' = << >> /\ merged' = << >>
    /\ status' = [p \in Parts |-> "idle"] /\ pos' = [p \in Parts |-> 0]
    /\ latest' = [p \in Parts |-> -1] /\ data' = [p \in Parts |-> << >>]
    /\ ran' = [p \in Parts |-> {}]
    /\ UNCHANGED <<disk, events, exported, origin>>

(* _resume_job.                                                            *)
ResumeResult ==
    IF events = None \/ ~same THEN "failed"
    ELSE IF events = "complete" THEN "completed" ELSE "resuming"

(* The job is already completed: nothing to do.                            *)
AlreadyComplete ==
    /\ phase = "init" /\ mode # "new" /\ ResumeResult = "completed"
    /\ phase' = "completed"
    /\ UNCHANGED <<disk, workdir, events, exported, setup, resuming, num, parts,
                   merged, threads, origin>>

(* --resume of a job that cannot be resumed raises.                        *)
RefuseResume ==
    /\ phase = "init" /\ mode = "resume" /\ ResumeResult = "failed"
    /\ phase' = "refused"
    /\ UNCHANGED <<disk, workdir, events, exported, setup, resuming, num, parts,
                   merged, threads, origin>>

(* Go on, resuming or fresh, and log the job start in a new events file.   *)
Enter ==
    /\ phase = "init"
    /\ \/ mode = "new" /\ resuming' = FALSE
       \/ mode # "new" /\ ResumeResult = "resuming" /\ resuming' = TRUE
       \/ mode = "job_id" /\ ResumeResult = "failed" /\ resuming' = FALSE
    /\ events' = "incomplete"
    /\ origin' = IF resuming' THEN origin ELSE cmd
    /\ phase' = "load"
    /\ UNCHANGED <<disk, workdir, exported, setup, num, parts, merged, threads>>

-----------------------------------------------------------------------------
(* Partitioning.                                                           *)

StartThreads(n) ==
    /\ status' = [p \in Parts |-> IF p < n THEN "queued" ELSE "idle"]
    /\ UNCHANGED <<pos, latest, data, ran>>

(* Stop in phase ph having changed nothing else.                           *)
StopAs(ph) ==
    /\ phase' = ph
    /\ UNCHANGED <<disk, workdir, events, exported, setup, resuming, num, parts,
                   merged, threads, origin>>

(* --resume takes the saved partition count; a configured partition size   *)
(* has it computed again from the input.  Any other run takes the count    *)
(* its configuration or the cluster gives.                                 *)
FixCount ==
    /\ phase = "load"
    /\ IF mode = "resume"
       THEN /\ Readable(info)
            /\ num' \in IF SizeTarget = 0 THEN {info.n} ELSE Counts
       ELSE num' \in Counts
    /\ phase' = "split"
    /\ UNCHANGED <<disk, workdir, events, exported, setup, resuming, parts, merged,
                   threads, origin>>

RefuseNoInfo ==
    /\ phase = "load" /\ mode = "resume" /\ ~Readable(info)
    /\ StopAs("refused")

Partitioned == Last > 0 \/ Plan[cmd] = << >>

(* A recipe that begins with a global operator runs on the whole input.    *)
RunUnpartitioned ==
    /\ phase = "split" /\ ~Partitioned
    /\ parts' = [p \in {0} |-> inp]
    /\ merged' = [p \in {0} |-> Process(Applied(inp, << >>), Plan[cmd])]
    /\ phase' = "export"
    /\ UNCHANGED <<disk, workdir, events, exported, setup, resuming, num, threads,
                   origin>>

(* The partitions of this input at the boundaries the first run saved.     *)
SavedCut == CutAt(inp, Len(info.rows), info.n)

(* Mutant: the input is not validated.                                     *)
MayResumeUnvalidated == info.hashed /\ num = info.n

MayResume == info.hashed /\ num = info.n /\ Matches(SavedCut, num, info)

ResumeSplit ==
    /\ phase = "split" /\ Partitioned /\ mode = "resume" /\ MayResume
    /\ parts' = SavedCut
    /\ StartThreads(num)
    /\ phase' = "process"
    /\ UNCHANGED <<disk, workdir, events, exported, setup, resuming, num, merged,
                   origin>>

(* Mutant: the checkpoints that do not match are cleared.                  *)
RefuseSplitClearing ==
    /\ phase = "split" /\ Partitioned /\ mode = "resume" /\ ~MayResume
    /\ StopAs("clear")

RefuseSplit ==
    /\ phase = "split" /\ Partitioned /\ mode = "resume" /\ ~MayResume
    /\ StopAs("refused")

(* More partitions than rows is an error; an empty input is one partition. *)
FreshCount == IF inp = << >> THEN 1 ELSE num

FailSplit ==
    /\ phase = "split" /\ Partitioned /\ mode # "resume" /\ inp # << >>
    /\ num > Len(inp)
    /\ StopAs("failed")

FreshSplit ==
    /\ phase = "split" /\ Partitioned /\ mode # "resume"
    /\ inp = << >> \/ num <= Len(inp)
    /\ num' = FreshCount
    /\ parts' = Balanced(inp, FreshCount)
    /\ IF ~Readable(info) THEN phase' = "record" /\ UNCHANGED threads
       ELSE IF Matches(parts', num', info)
       THEN phase' = "process" /\ StartThreads(num')
       ELSE phase' = "clear" /\ UNCHANGED threads
    /\ UNCHANGED <<disk, workdir, events, exported, setup, resuming, merged, origin>>

Empty == info = None /\ \A p \in Parts : \A i \in OpIdx : ckpt[p][i] = None

(* _clear_invalid_checkpoints: rmtree removes the entries one by one.      *)
ClearInfo ==
    /\ phase = "clear" /\ info # None
    /\ info' = None
    /\ UNCHANGED <<ckpt, workdir, events, exported, setup, phase, resuming, num,
                   parts, merged, threads, origin>>

ClearCheckpoint(p, i) ==
    /\ phase = "clear" /\ ckpt[p][i] # None
    /\ ckpt' = [ckpt EXCEPT ![p][i] = None]
    /\ UNCHANGED <<info, workdir, events, exported, setup, phase, resuming, num,
                   parts, merged, threads, origin>>

Cleared ==
    /\ phase = "clear" /\ Empty
    /\ StopAs("record")

(* Saving the partitioning info: opening the file for writing truncates    *)
(* it, and the content follows.                                            *)
OpenInfo ==
    /\ phase = "record"
    /\ info' = Corrupt /\ phase' = "recording"
    /\ UNCHANGED <<ckpt, workdir, events, exported, setup, resuming, num, parts,
                   merged, threads, origin>>

WriteInfo ==
    /\ phase = "recording"
    /\ info' = [n |-> num, rows |-> inp, hashed |-> CheckpointEnabled]
    /\ StartThreads(num)
    /\ phase' = "process"
    /\ UNCHANGED <<ckpt, workdir, events, exported, setup, resuming, num, parts,
                   merged, origin>>

-----------------------------------------------------------------------------
(* One partition thread.                                                   *)

Working == {p \in Parts : status[p] \in {"running", "saving"}}

(* What a thread never touches.                                            *)
JobUnchanged == UNCHANGED <<info, workdir, events, exported, setup, phase, resuming,
                            num, parts, merged, origin>>

(* _should_use_execution_groups: GPU partitions share actor pools, except  *)
(* in a run that resumes.                                                  *)
Grouped == Gpu /\ ~resuming

(* The pool takes queued partitions in order.                              *)
Begin(p) ==
    /\ phase = "process" /\ ~Grouped /\ status[p] = "queued"
    /\ Cardinality(Working) < MaxWorkers
    /\ \A q \in Parts : q < p => status[q] # "queued"
    /\ status' = [status EXCEPT ![p] = "running"]
    /\ \E l \in -1..(MaxOps - 1) : IsLatest(p, l) /\ latest' = [latest EXCEPT ![p] = l]
    /\ data' = [data EXCEPT ![p] = Applied(parts[p], << >>)]
    /\ UNCHANGED <<ckpt, pos, ran>> /\ JobUnchanged

(* Run operators i to e - 1 on d, the group then ending before e.          *)
Execute(p, d, i, e) ==
    /\ data' = [data EXCEPT ![p] = Process(d, Slice(i, e))]
    /\ ran' = [ran EXCEPT ![p] = @ \cup i..(e - 1)]
    /\ pos' = [pos EXCEPT ![p] = e]
    /\ status' = [status EXCEPT ![p] = IF ShouldCheckpoint(e - 1) THEN "saving"
                                       ELSE "running"]
    /\ UNCHANGED <<ckpt, latest>>

AtGroup(p) == phase = "process" /\ ~Grouped /\ status[p] = "running"

(* A checkpoint from beyond the group: the group is skipped.               *)
SkipGroup(p) ==
    /\ AtGroup(p)
    /\ \E e \in GroupEnd(pos[p]) :
          /\ latest[p] >= e
          /\ pos' = [pos EXCEPT ![p] = e]
    /\ UNCHANGED <<ckpt, status, latest, data, ran>> /\ JobUnchanged

(* No checkpoint within the group or beyond it.                            *)
RunGroup(p) ==
    /\ AtGroup(p)
    /\ \E e \in GroupEnd(pos[p]) :
          /\ latest[p] < pos[p]
          /\ Execute(p, data[p], pos[p], e)
    /\ JobUnchanged

(* Mutant: the operator of the checkpoint runs again.                      *)
ResumeFromLatest(p) == latest[p]

(* The operators left of the group: ops[latest_checkpoint[0] + 1 : end_idx].*)
ResumeFrom(p) == latest[p] + 1

(* A checkpoint within the group: load it and run what is left of it.      *)
ResumeGroup(p) ==
    /\ AtGroup(p)
    /\ \E e \in GroupEnd(pos[p]) :
          /\ latest[p] \in pos[p]..(e - 1)
          /\ \E d \in LoadResults(ckpt[p][latest[p]]) \ {None} :
                IF ResumeFrom(p) < e THEN Execute(p, d, ResumeFrom(p), e)
                ELSE /\ data' = [data EXCEPT ![p] = d]
                     /\ pos' = [pos EXCEPT ![p] = e]
                     /\ UNCHANGED <<ckpt, status, latest, ran>>
    /\ JobUnchanged

(* That checkpoint cannot be loaded: take the original partition and run   *)
(* this group on it.                                                       *)
RestartGroup(p) ==
    /\ AtGroup(p)
    /\ \E e \in GroupEnd(pos[p]) :
          /\ latest[p] \in pos[p]..(e - 1)
          /\ None \in LoadResults(ckpt[p][latest[p]])
          /\ Execute(p, Applied(parts[p], << >>), pos[p], e)
    /\ JobUnchanged

(* Mutant: the checkpoint is named after the operator to run next.         *)
NextOpIdx(p) == pos[p]

(* The operator a checkpoint is named after: last_op_idx = end_idx - 1.    *)
LastOpIdx(p) == pos[p] - 1

(* The partition whose checkpoint is being written; the partitions of an   *)
(* execution group are saved one after the other.                          *)
Writing(p) ==
    /\ phase = "process" /\ status[p] = "saving"
    /\ Grouped => \A q \in Parts : q < p => status[q] # "saving"

(* The checkpoint after the group's last operator is on disk.              *)
FinishSave(p) ==
    /\ Writing(p)
    /\ ckpt' = [ckpt EXCEPT ![p][LastOpIdx(p)] = Saved(@, data[p])]
    /\ status' = [status EXCEPT ![p] = "running"]
    /\ UNCHANGED <<pos, latest, data, ran>> /\ JobUnchanged

FinishPartition(p) ==
    /\ AtGroup(p) /\ pos[p] = Last
    /\ status' = [status EXCEPT ![p] = "done"]
    /\ UNCHANGED <<ckpt, pos, latest, data, ran>> /\ JobUnchanged

(* An operator raises, or the write of a checkpoint does.                  *)
FailPartition(p) ==
    /\ "op" \in Faults
    /\ \/ AtGroup(p) /\ pos[p] < Last /\ UNCHANGED ckpt
       \/ /\ ~Grouped /\ Writing(p)
          /\ \E left \in CutShort(ckpt[p][LastOpIdx(p)], data[p]) :
                ckpt' = [ckpt EXCEPT ![p][LastOpIdx(p)] = left]
    /\ status' = [status EXCEPT ![p] = "failed"]
    /\ UNCHANGED <<pos, latest, data, ran>> /\ JobUnchanged

PartitionStep(p) ==
    \/ Begin(p) \/ SkipGroup(p) \/ RunGroup(p) \/ ResumeGroup(p) \/ RestartGroup(p)
    \/ FinishSave(p) \/ FinishPartition(p) \/ FailPartition(p)

-----------------------------------------------------------------------------
(* Execution groups: GroupSize consecutive partitions go through the       *)
(* recipe as one tagged dataset.  No checkpoint is looked for.             *)

Group(g) == {p \in Parts : p < num /\ p \div GroupSize = g}

InGroup(g, st) ==
    /\ phase = "process" /\ Grouped
    /\ Group(g) # {} /\ \A p \in Group(g) : status[p] = st

BeginExecutionGroup(g) ==
    /\ InGroup(g, "queued")
    /\ \A q \in Parts : q < g * GroupSize => status[q] = "done"
    /\ status' = [p \in Parts |-> IF p \in Group(g) THEN "running" ELSE status[p]]
    /\ data' = [p \in Parts |-> IF p \in Group(g) THEN Applied(parts[p], << >>)
                                ELSE data[p]]
    /\ UNCHANGED <<ckpt, pos, latest, ran>> /\ JobUnchanged

ExecuteTogether(g, e) ==
    /\ data' = [p \in Parts |-> IF p \in Group(g) THEN Process(data[p], Slice(pos[p], e))
                                ELSE data[p]]
    /\ ran' = [p \in Parts |-> IF p \in Group(g) THEN ran[p] \cup pos[p]..(e - 1)
                               ELSE ran[p]]
    /\ pos' = [p \in Parts |-> IF p \in Group(g) THEN e ELSE pos[p]]
    /\ status' = [p \in Parts |-> IF p \notin Group(g) THEN status[p]
                                  ELSE IF ShouldCheckpoint(e - 1) THEN "saving"
                                  ELSE "running"]
    /\ UNCHANGED <<ckpt, latest>>

RunExecutionGroup(g) ==
    /\ InGroup(g, "running")
    /\ \E q \in Group(g) : \E e \in GroupEnd(pos[q]) : ExecuteTogether(g, e)
    /\ JobUnchanged

FinishExecutionGroup(g) ==
    /\ InGroup(g, "running") /\ \A p \in Group(g) : pos[p] = Last
    /\ status' = [p \in Parts |-> IF p \in Group(g) THEN "done" ELSE status[p]]
    /\ UNCHANGED <<ckpt, pos, latest, data, ran>> /\ JobUnchanged

(* An operator or the write of one checkpoint fails the whole group.       *)
FailExecutionGroup(g) ==
    /\ "op" \in Faults
    /\ \/ /\ InGroup(g, "running") /\ UNCHANGED ckpt
          /\ \E p \in Group(g) : pos[p] < Last
       \/ \E p \in Group(g) :
             /\ Grouped /\ Writing(p)
             /\ \E left \in CutShort(ckpt[p][LastOpIdx(p)], data[p]) :
                   ckpt' = [ckpt EXCEPT ![p][LastOpIdx(p)] = left]
    /\ status' = [p \in Parts |-> IF p \in Group(g) THEN "failed" ELSE status[p]]
    /\ UNCHANGED <<pos, latest, data, ran>> /\ JobUnchanged

GroupStep(g) ==
    \/ BeginExecutionGroup(g) \/ RunExecutionGroup(g)
    \/ FinishExecutionGroup(g) \/ FailExecutionGroup(g)

-----------------------------------------------------------------------------
(* The driver, once the threads run.                                       *)

(* The first failure it sees makes it cancel the partitions still queued;  *)
(* it cannot stop the running ones.                                        *)
CancelQueued ==
    /\ phase = "process"
    /\ \E p \in Parts : status[p] = "failed"
    /\ \E p \in Parts : status[p] = "queued"
    /\ status' = [p \in Parts |-> IF status[p] = "queued" THEN "cancelled"
                                   ELSE status[p]]
    /\ UNCHANGED <<ckpt, pos, latest, data, ran>> /\ JobUnchanged

(* Mutant: the failure surfaces only when every partition has failed.      *)
FailJobWaiting ==
    /\ phase = "process"
    /\ \A p \in Parts : p < num => status[p] = "failed"
    /\ StopAs("failed")

FailJob ==
    /\ phase = "process"
    /\ \E p \in Parts : status[p] = "failed"
    /\ \A p \in Parts : status[p] \notin {"queued", "running", "saving"}
    /\ StopAs("failed")

AllDone == \A p \in Parts : p < num => status[p] = "done"

(* Union in partition order, then the operators from the first global one. *)
Merge ==
    /\ phase = "process" /\ AllDone
    /\ merged' = [p \in 0..(num - 1) |->
                     Process(data[p], Rest)]
    /\ phase' = "export"
    /\ UNCHANGED <<disk, workdir, events, exported, setup, resuming, num, parts,
                   threads, origin>>

FailMerge ==
    /\ "op" \in Faults
    /\ \/ phase = "split" /\ ~Partitioned
       \/ phase = "process" /\ AllDone /\ Last < Len(Plan[cmd])
    /\ StopAs("failed")

Export ==
    /\ phase = "export"
    /\ exported' = Append(exported, merged)
    /\ phase' = "exported"
    /\ UNCHANGED <<disk, workdir, events, setup, resuming, num, parts, merged,
                   threads, origin>>

Complete ==
    /\ phase = "exported"
    /\ events' = "complete" /\ phase' = "done"
    /\ UNCHANGED <<disk, workdir, exported, setup, resuming, num, parts, merged,
                   threads, origin>>

-----------------------------------------------------------------------------
(* The kill.  A checkpoint being written stays as it is cut short.         *)
Crash ==
    /\ "crash" \in Faults /\ phase \in Active
    /\ phase = "clear" => "clear" \in Faults
    /\ phase = "exported" => "export" \in Faults
    /\ LET Saving == {p \in Parts : Writing(p)}
           Left(p) == CutShort(ckpt[p][LastOpIdx(p)], data[p])
       IN  \E left \in [Saving -> UNION {Left(p) : p \in Saving}] :
             /\ \A p \in Saving : left[p] \in Left(p)
             /\ ckpt' = [p \in Parts |->
                           IF p \in Saving
                           THEN [ckpt[p] EXCEPT ![LastOpIdx(p)] = left[p]]
                           ELSE ckpt[p]]
    /\ phase' = "crashed"
    /\ UNCHANGED <<info, workdir, events, exported, setup, resuming, num, parts,
                   merged, threads, origin>>

Driver ==
    \/ AlreadyComplete \/ RefuseResume \/ Enter
    \/ FixCount \/ RefuseNoInfo
    \/ RunUnpartitioned \/ ResumeSplit \/ RefuseSplit \/ FailSplit \/ FreshSplit
    \/ ClearInfo \/ (\E p \in Parts, i \in OpIdx : ClearCheckpoint(p, i)) \/ Cleared
    \/ OpenInfo \/ WriteInfo
    \/ (\E g \in Parts : GroupStep(g))
    \/ CancelQueued \/ FailJob \/ Merge \/ FailMerge \/ Export \/ Complete

Next ==
    \/ \E c \in Commands, i \in Inputs : \E m \in Modes[c] : Start(c, m, i)
    \/ Driver
    \/ \E p \in Parts : PartitionStep(p)
    \/ Crash

Spec == Init /\ [][Next]_vars

(* The driver and every thread keep running until the process ends; no one *)
(* promises to start another run.                                          *)
FairSpec ==
    /\ Spec
    /\ WF_vars(Driver)
    /\ \A p \in Parts : WF_vars(PartitionStep(p))

-----------------------------------------------------------------------------
(* Properties.                                                             *)

(* Every variable holds the kind of value the code keeps in it: what is on *)
(* disk, what the run decided, what each thread of _process_partition has. *)
DiskType ==
    /\ info \in {None, Corrupt} \cup InfoFile
    /\ ckpt \in [Parts -> [OpIdx -> {None, Corrupt} \cup Dataset]]
    /\ backup \in [Names -> STRING \cup {None}]
    /\ savedCli \in STRING \cup {None}
    /\ events \in {None, "incomplete", "complete"}
    /\ \A k \in 1..Len(exported) :
          \E n \in Parts : exported[k] \in [0..n -> Dataset]
    /\ origin \in Commands \cup {None} /\ tried \subseteq STRING

RunType ==
    /\ runs \in 0..MaxRuns
    /\ phase \in Ended \cup Active
    /\ mode \in AllModes \cup {None} /\ cmd \in Commands \cup {None}
    /\ inp \in Inputs \cup {<< >>}
    /\ same \in BOOLEAN /\ resuming \in BOOLEAN
    /\ num \in 0..MaxPartitions

ThreadType ==
    /\ status \in [Parts -> {"idle", "queued", "running", "saving", "done",
                             "failed", "cancelled"}]
    /\ pos \in [Parts -> 0..MaxOps]
    /\ latest \in [Parts -> -1..(MaxOps - 1)]
    /\ data \in [Parts -> Dataset]
    /\ ran \in [Parts -> SUBSET OpIdx]

TypeOK == DiskType /\ RunType /\ ThreadType

(* docs/PartitionAndCheckpoint.md promises partitions that cover the input *)
(* in order and hold the same number of rows give or take one: the threads *)
(* of this run start from such partitions whether the boundaries are fresh *)
(* (_split_into_row_balanced_partitions) or an earlier run's.              *)
Concat(f, n) ==
    LET upTo[k \in 0..n] == IF k = 0 THEN << >> ELSE upTo[k - 1] \o f[k - 1]
    IN  upTo[n]

PartsCoverInput ==
    phase = "process" =>
        /\ Concat(parts, num) = inp
        /\ \A p, q \in 0..(num - 1) :
              /\ Len(parts[p]) - Len(parts[q]) \in -1..1
              /\ inp # << >> => parts[p] # << >>

(* What a run exports is each partition of its own input with each         *)
(* operator of its own recipe applied once and in order, whatever runs,    *)
(* kills and failures came before it and whichever checkpoints it reused   *)
(* (_process_with_checkpointing, _process_with_convergence).               *)
OutputCorrect ==
    phase \in {"exported", "done"} =>
        exported[Len(exported)] =
            [p \in DOMAIN parts |-> Applied(parts[p], Plan[cmd])]

(* A checkpoint on disk is the state of a partition described by the       *)
(* partitioning_info.json beside it, after a prefix of the recipe the job  *)
(* was created with; only _clear_invalid_checkpoints breaks the pair, and  *)
(* only while it runs.                                                     *)
CheckpointsSound ==
    phase # "clear" =>
        \A p \in Parts, i \in OpIdx : ckpt[p][i] # None =>
            /\ Readable(info) /\ p < info.n
            /\ i < PreLen(origin)
            /\ ckpt[p][i] = Applied(Balanced(info.rows, info.n)[p],
                                   SubSeq(Plan[origin], 1, i + 1))

(* A run that resumes has the recipe of the run that created the job, and  *)
(* no CLI overrides that none before it had: of the attempts that bring    *)
(* others than the job was created with, the first is turned away, but the *)
(* next one is not, since cli.yaml then holds theirs                       *)
(* (validate_config_for_resumption, config_backup, save_cli_arguments).    *)
ResumeSameRecipe ==
    resuming => cmd.text = origin.text /\ cmd.cli \in tried

(* docs/PartitionAndCheckpoint.md, strict resume, step 6: a partition      *)
(* thread runs the operators after its latest checkpoint and no others.    *)
OnlyUnfinishedWork ==
    \A p \in Parts : status[p] = "done" => ran[p] = (latest[p] + 1)..(Last - 1)

(* docs/PartitionAndCheckpoint.md: an explicit resume that is refused      *)
(* leaves the existing checkpoints unchanged: until its threads run, a     *)
(* --resume run writes nothing into the checkpoint directory.              *)
ResumeReadOnly ==
    [][mode = "resume" /\ phase # "process" => UNCHANGED disk]_vars

(* Every run ends: no thread, and not the driver waiting for the threads   *)
(* after a failure, waits forever.                                         *)
RunEnds == phase \in Active ~> phase \in Ended
=============================================================================
