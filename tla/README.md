# TLA+ models of Data-Juicer

Data-Juicer runs a *recipe*, a list of operators, over a dataset.  Most of its
Python is operators: functions on samples that keep no state and meet nobody.
What is hard is around them: jobs that survive being killed, hosts that share a
job through a file system and nothing else, actors that find out by running out
of memory how much fits, duplicates found by actors that each know a part, an
executor that reorders the recipe it was given.  This directory models those
parts in TLA+, checks them with TLC on small instances, and proves with TLAPS
that what matters most holds for instances of any size.

Contents: [the system](#the-system), [the modules](#the-modules),
[the runs](#the-runs), [the proofs](#the-proofs),
[disagreements found](#disagreements-between-code-and-documents),
[not modelled](#not-modelled), [limits](#limits), [plan](#plan).

To check a run, `tlc -config MCShardClaims_claims.cfg MCShardClaims`; to check
the proofs of a module, `tlapm ShardClaimsProofs.tla`.  `PROJECT.json` lists the
runs, the source lines behind every definition, the hazards, and for every
property a mutant: a plausible bug (the definitions marked `Mutant:` in the
modules) under which TLC finds the property violated.

## The system

Paths are relative to `src/`; `core` is `data_juicer/core`, `ops` is
`data_juicer/ops`.

| Component | State | Operations | Talks to | What is hard | Modelled by |
| --- | --- | --- | --- | --- | --- |
| Partitioned executor, `core/executor/ray_executor_partitioned.py`, `data_juicer/utils/ckpt_utils.py` (`RayCheckpointManager`), and of `data_juicer/config/config.py` the recipe backup | the work directory: `partitioning_info.json`, a parquet directory per partition and checkpointed operator, backed-up recipe, `cli.yaml`, events; in a run, partitions and threads | start, resume, cut the input, validate or clear checkpoints, run partitions in threads or execution groups, checkpoint, merge, export, log completion | Ray Data (datasets, `write_parquet`), the event log, the recipe | kills between any two file operations, partitions at different operators when it happens, checkpoints of another input, partition count or recipe | `PartitionedExecutor`, `ResumableJob`, `PartitionedRefinement` |
| GPU preflight, `core/executor/gpu_memory_probe.py` | `gpu_probe_results.json`; in a run, workers and rows under way | choose targets, plan parallel probes, drive them, replay the recipe in order, compute shares, save, reuse | Ray (workers with a GPU each), the partitioned executor, which asks Ray for the shares | rows that must be the recipe's own however an operator is probed; shares that Ray packs by; probes that end near their deadline | `GpuProbe` |
| Default executor and its `CheckpointManager`, `core/executor/default_executor.py`, `core/data/dj_dataset.py`, `data_juicer/utils/ckpt_utils.py`, `core/exporter.py` | a dataset directory and `ckpt_op.json`, exported files | load or skip a checkpoint, operator loop, save when an operator raises, export whole or in shards | the dataset library | two files that must agree, a recipe edited between runs, shards that fail silently | `LocalExecutor` |
| Operator fusion, `ops/op_fusion.py`, `ops/fused_sequential_batch_op.py`, `ops/fused_batch_executor.py` | none | group and reorder filters, fuse those that share intermediate variables, fuse GPU mappers, run a fused operator by batch | the executors | an order that must not be seen in the result | `OpFusion` |
| Elastic sharding, workers, `demos/elastic_sharding/shard_job.py` | the job directory: claim files, `state/done`, `state/failed`, attempt directories | claim, take over an expired claim, run, publish, fail, release, poll, `retry` | other workers, by files only | interleavings of hosts, slow workers that come back, kills, a retry command beside workers | `ShardClaims` |
| Elastic sharding, preparation, `prepare_job` in the same file | stage directory, job directory with manifest and shards | scan, cut by bytes, check, publish by rename | workers, by the job directory | the input edited between passes, two hosts preparing, sizes that resist balancing | `ShardPreparation` |
| Elastic sharding, one entry point, `demos/elastic_sharding/dlc_job.py` | the coordination directory: locks and results of the phases | elect, prepare, work, wait, abort, verify and merge | `shard_job.py` as subprocess, other instances by files | election without a server, results of an earlier submission, deadlines, partial failure | `DlcCoordination` |
| Adaptive batch size, `core/elasticjuicer/batch_controller.py`, `adaptive_mapper.py`, `ray_adaptive_mapper.py` | per actor: bounds, counters, hints; proofs of capacity per context | process an outer batch in slices, observe success or OOM, probe, wait, seed | Ray (outer batches), GPU memory shared with neighbours, the profile store | contradictory evidence, retry budgets, memory that comes and goes | `AdaptiveBatch` |
| Stage profiles, `core/elasticjuicer/stage_profile.py`, the store's callers in `ray_adaptive_mapper.py` | evidence per stage and context, with expiry, in one Ray actor | read, publish, expire, truncate, evict, audit | the actors above, by Ray calls with deadlines | late calls, evidence of dropped batches, old evidence kept alive by new | `StageProfiles` |
| Distributed MinHash deduplicator, `ops/deduplicator/ray_bts_minhash_deduplicator.py` | per actor: buffers of pairs, a forest, edge buffers | hand out uids, add bands, union, exchange edges, rebalance, squeeze, filter | actors among each other, driver by rounds | orders of edges, what an actor forgets after a round, map tasks that run twice | `BtsUnionFind` |
| Plain Ray executor, exporters | none | one pass over the input | Ray Data | - | no |
| Execution DAG, `core/executor/dag_execution_mixin.py`, `pipeline_dag.py` | node states, `dag_execution_plan.json` | mark started, completed, failed | executor, event log | states that disagree with what ran | no; nothing reads them to decide what to run |
| Event log, `core/executor/event_logging_mixin.py`, `data_juicer/utils/job/` | JSONL per run | append, read, summarise, stop a job | all executors | several runs of one job | no; `events` of `PartitionedExecutor` keeps whether `job_complete` was logged last |
| Operator pool, loading, formats, analysis, tracing, tools, services | - | - | - | - | no: functions of samples, I/O and reports that decide nothing about a job's rows |

What makes each of them correct, and thus what is stated:

* *Partitioned executor.*  The export is the input with each operator applied
  once, in order, whatever happened before (`OutputCorrect`).  A checkpoint is
  what the file beside it says (`CheckpointsSound`).  Resuming needs the same
  recipe (`ResumeSameRecipe`), repeats nothing (`OnlyUnfinishedWork`) and, when
  refused, touches nothing (`ResumeReadOnly`).  Partitions cover the input evenly
  (`PartsCoverInput`).  A run ends (`RunEnds`).
* *GPU preflight.*  An operator is measured on a batch of the rows the recipe
  feeds it (`LineageMeasured`), whatever Ray packs on a GPU fits (`DeviceFits`),
  and a probe that has ended is not taken for an overdue one (`TimeoutHonest`).
* *Default executor and fusion.*  The export is what the recipe makes of the
  input, fused and reordered or not, resumed or not (`LocalExecutor`'s
  `OutputCorrect`); checkpoint and record agree (`CheckpointSound`); what ended
  before an operator raised is kept (`ProgressKept`).
* *Shards.*  One worker per shard while claims are honoured (`OneOwner`); once
  they are not, one publication, by the owner (`PublishedByOwner`); records and
  verdicts that mean what they say (`DoneRecorded`, `FailureJustified`); a job
  that settles (`JobSettles`, `WorkersReturn`).
* *Preparation.*  Exactly the shards asked for, of one version of the input
  (`JobWellCut`), balanced (`JobBalanced`), never changed (`JobStable`), refused
  only with reason (`NoInternalError`, `ExitHonest`).
* *DLC.*  One coordinator per phase (`ElectedOnce`), no work on the manifest of an
  earlier submission (`PreparedFirst`), verification of finished jobs only
  (`FinalizeWhenDone`), a code 0 that is true (`HonestSuccess`), every node used
  in strict mode (`StrictSpread`), nobody stuck (`InstancesReturn`).
* *Adaptive batches.*  No row lost by retries, and giving up only at one row
  (`Lossless`), retries that shrink (`RetriesShrink`), bounds and budgets that
  agree (`BoundsConsistent`), evidence that is real (`ProofReal`), probing that
  stops (`OomsStop`), yet overcomes wrong bounds (`SeedOvercome`).
* *Stage profiles.*  A new actor is told exactly what delivered batches have
  shown in its context within the TTL (`PriorExact`), and nothing of a batch that
  was dropped is recorded (`OnlyDelivered`).
* *Deduplicator.*  One row of each group of connected rows is kept
  (`OnePerGroup`), the first (`FirstSurvives`), and the rounds end (`MergeEnds`).

`PROJECT.json` ("hazards") gives the line where each of these can go wrong.

## The modules

    ResumableJob            what a job that survives its runs promises
        ^ implemented by (PartitionedRefinement)
    PartitionedExecutor     runs, partitions and checkpoints of one job_id
        + PartitionedExecutorProofs          proofs, and the refinement
    GpuProbe                the preflight of such a run: measured shares of a GPU
        + GpuProbeProofs                     proofs
    OpFusion                what a recipe becomes with op_fusion, and how it runs
        ^ EXTENDS
    LocalExecutor           runs of one job in one process
        + LocalExecutorProofs                proofs, also about OpFusion
    ShardPreparation        input -> job directory
        + ShardPreparationProofs             proofs
    ShardClaims             job directory -> verdict of every shard
        + ShardClaimsProofs                  proofs
    DlcCoordination         one submission after another: ShardPreparation as one
        + DlcCoordinationProofs  proofs      step, ShardClaims as a few per shard
    AdaptiveBatch           one GPU mapper actor
    StageProfiles           many of them and their store
        + ElasticJuicerProofs                proofs about both
    BtsUnionFind            the distributed deduplicator
        + BtsUnionFindProofs                 proofs

An `MC` module gives a component its constants, a `.cfg` file its bounds.

### PartitionedExecutor

One job id, its work directory, and a sequence of processes on it.  A run goes
through `phase`: `init` (`_resume_job`), `load` (partition count), `split`
(`_split_dataset_deterministic`), perhaps `clear` (`_clear_invalid_checkpoints`),
`record` and `recording` (`PartitioningInfo.save`, which truncates before it
writes), `process` (`_process_with_checkpointing` or `_process_with_convergence`),
`export`, `exported`, `done`.  In `process`, each partition is a thread of
`_process_partition_with_checkpointing` with its own position, latest checkpoint
and data; on a GPU, consecutive partitions go through the recipe together
(`GroupStep`).  `Start` is `init_configs` with `config_backup`: comparing with the
recipe in the work directory, keeping that recipe, replacing `cli.yaml`.  `Modes`
says by which of a plain start, `--job_id` and `--resume` a command may be given.

A row is a model value, and a row in flight carries the list of the operators
applied to it.  A filter and a mapper do not differ: the properties are about
which operators ran on which rows, and a partition that becomes empty takes the
same path.  Equal content hashes mean equal rows.  A checkpoint file is the data
in it, `None`, or `Corrupt`.

External: `write_parquet` adds files to a directory that exists (`Saved`), and
cut short it leaves nothing, part of its rows or an unreadable directory
(`CutShort`); Ray returns rows in the order they went in.

`ResumableJob` is what a user is promised: the job is fixed once, progress only
grows, its result is published once.  Kills, refusals and repeated work are
stuttering steps of it.  The mapping reads the job off `partitioning_info.json`
and the original recipe, progress off the latest checkpoints, output off what
was exported.

### GpuProbe

`GPUMemoryProbe.resolve`, called by `_configure_pre_partition_resources` before
partitions are sized, in one start after another on one work directory.  `Start`
is everything up to the first wait: choosing the candidates, loading the report,
comparing records with operators and hardware, refusing pipelines, planning and
the first submissions; nothing of it interleaves with anything.  A parallel probe
is a worker that ends in one step (`WorkerEnds`) or never, and a bit says whether
its deadline has passed.  The driver's loop is cut where workers may end in
between: `Look` is the first `ray.wait` and the time taken after it, `Drain` the
second one with everything received and submitted because of it, `TimeOut` or
`Continue` the comparison with the time of `Look`.  `Collect` makes records of the
results, `Stage` is one operator of the ordered replay with its second run on all
rows, `Save` the atomic replacement of the report.  What a failed or killed start
has measured is in nobody's memory, since records are only saved together.

A row is its id and, per column, the set of operators its content has gone
through, directly or by the columns it was made of; a filter drops ids, other ones
from a column that has been written than from a raw one; a deduplicator keeps the
first of the rows it takes for equal.  With that, a row that skipped a dependency,
a row lost to an earlier batch and a padded one are all visible.  Columns that
overlap by path or pattern are one column.  A peak belongs to an operator; a share
is counted in 1/(100 `MaxWorkers`), so that percents and slots are both whole.

### OpFusion and LocalExecutor

`OpFusion` has the algorithm of `fuse_operators`: filters next to one another form
a group (`FuseFilters`), in which those that share an intermediate variable become
one stage and stages are ordered by their speed (`FuseFilterGroup`; times are an
arbitrary measurement, all equal for the greedy strategy), and GPU mappers next to
one another become one stage if their columns and VRAM allow (`FuseMappers`).
`RunStage` runs a stage the way the code does: a `FusedFilter` computes all
statistics and then drops, a fused sequence takes each batch through all members,
a `general_fused_op` likewise.  The reference is `Sequential`, the recipe's
operators one after the other (`Meaning` of each).  Rows are numbers, filters drop
some, mappers renumber, so that an order that matters is seen.  What a loop of the
code accumulates is a recursive function of how far it got, whose step has a name
(`ScanFilter`, `ScanMapper`), since the proofs go by induction on it.

`LocalExecutor` runs such a list: `DefaultExecutor.run` with
`check_ckpt`, `NestedDataset.process` operator by operator, its `except` clause
that saves when an operator raises, `save_ckpt` in its two steps (dataset, then
record), and `Exporter.export`, a file or a shard at a time.  `op_fusion` turns
`use_checkpoint` off, as the configuration does.  The history variables `broken`,
`misled` and `lost` mark what the code itself cannot notice: a save cut short
between its files or left out because the dataset was empty, a run that loaded
such a checkpoint, a shard whose writer failed in the pool.  The properties except
these and nothing else; see the disagreements.

### ShardClaims

One action per file operation of a worker between two points at which another
worker can see a difference: looking at verdicts, opening the claim, `flock`,
marking the attempt stale, removing the claim, looking again, counting failures,
`O_EXCL`, writing `attempt.json`, and so on to the release.  `pc` names the next
one, and the actions' order is the code's.  Two reads that the code does one
after the other are one step where what may happen in between makes no
difference to what is decided: the verdict files in `Look` and `Recheck`, the
attempts in `Failures`, the shards in `Poll`.  An attempt's number stands for its
uuid.  The age of a claim is one bit; a claim of a live attempt can come of age
only with the fault `"slow"`.

The retry command validates its targets and then moves the verdict and the
attempts of each (`Requeue`, `ArchiveVerdict`, `ArchiveAttempts`); the README of
the demo asks for the workers to be stopped first, and `"early"` lifts that.

`blamed` is no file: it remembers which attempts were ever recorded as failed or
stale, because one that outlived its claim may write over that record.

### ShardPreparation

Each process scans the input, writes it record by record with the cut rule of
`_write_shards`, checks and renames.  Editing the input is a nondeterministic
choice of the version that each pass, and each later comparison with a published
manifest, reads.  A record has a size; its content is a model value.

### DlcCoordination

Files of the coordination directory are read and written one per step, in the
order of the code.  `shard_job.py` is coarse here: `prepare` succeeds or fails in
one step, a worker's attempt is claimed and ends in one step each, a code that
the worker process itself fails with is arbitrary.  An instance is its hostname.
The race that gives a shard both verdicts (below) is not repeated here.
Arguments the code rejects at once are assumptions: strict mode has at least as
many shards as nodes and a cap that cannot leave a node idle.

### AdaptiveBatch

The operators from `EffectiveMaximum` to `ObserveOom` are the methods of
`AdaptiveBatchController`, each statement group a named operator on its record
`ctl`; `Deliver`, `Shrink`, `WaitAtFloor`, `GiveUp` are one turn of the loop in
`OOMSafeAdaptiveMapper.__call__`; `Call`, `Return`, `Skip`, `Break` the actor
around it, with the proof it remembers per context.  The memory of the device is
a set of sizes any of which may be the largest that fits just now: a singleton
when nobody else uses it.  Time is a choice: a hint or a proof may be found
expired at any look.

The wait before a probe (`Wait`) is a number of successes that `DoubledEvery` failed
probe doubles; `since` is counted up to it and no further, since it is only compared
with it.

The minimum batch size is 1 and `recovery_requires_hint` off, as
`RayAdaptiveMapperActor` leaves them, and `hard_limit` stays at the maximum since
nothing under `data_juicer` calls `set_hard_limit`.  `growth_step` is 1 and
covered by rounding up.  The caps of 32 observed sizes and of 64 contexts are
left out.

### StageProfiles

Where `AdaptiveBatch` has one actor and any prior, this has several actors, whose
outer batches show anything, and the store they share.  A call is in flight until
the store handles it; an actor that has waited out its deadline (`TimeOut`) goes on
without the store for good, and its call may still be handled.  `Publish` merges,
truncates to `MaxSizes` and evicts the least recently used record beyond
`MaxEntries`; the order of an `OrderedDict` is the relation `order` on its keys,
a pair `<<k, l>>` for each `l` that was used after `k`.  Every item of evidence
has its own age, and `Tick` lets all of them age.  `DeliverBatch` and `Drop` are the
two ends of an outer batch, `Restart` Ray's replacement of an actor that died,
`Finish` the audit that is saved when the run ends.  Contexts are values here;
how they are computed is left out.

### BtsUnionFind

Map tasks claim uids (`Claim`) and send pairs of band and uid to actors
(`AddPairs`), which fill blocks, unite the uids of a key in a full block, and unite
at once those of a key that had more than `union_threshold` of them in a block;
`UnionNext` unites one such list.  Then come the driver's phases, each a barrier over
all actors: `StartMerge` with the lists of what is left, `Redistribute`, which sends
every edge to the owners of its two uids, rounds of `Fetch` and `Balance`, and of
`Communicate` as long as a forest has changed, then `Squeeze` and, block by block,
`Filter`.  Inside a phase actors run in any order, and an edge buffer can be read by
others while its owner goes on (`HandOut`).  A map task whose worker dies is run again
(`Rerun`): with generated uids it claims new ones, and those of the first attempt
stay with the actors.  A band's bytes are a key, so that which rows are similar
is an input.

## The runs

All runs pass with 2 workers, most in under a minute and `dlc` in about two.
`claims`, `prepare` and `profiles` use symmetry, which is sound since they check
no liveness and no definition tells the permuted values apart.

| Run | Instance | Shows | States |
| --- | --- | --- | --- |
| `resume` | 3 rows, 4 operators of which the last is global, counts from `partition.size`, 2 threads, 3 commands: the recipe, an edited text of it, and the recipe with an override of the checkpoint strategy, after every operator or after one; 2 inputs, 4 runs; kills and failing operators | a job continued with `--resume` exports its own result once, repeats nothing, also when the strategy changes on the way, resumes with its own recipe text, and implements `ResumableJob` | 105 k |
| `rerun` | inputs of 0, 1 and 3 rows, 2 or 3 partitions, 2 recipes of which one begins with a global operator, the manual strategy, GPU execution groups, `--job_id` and `--resume`, kills, also around the export, failing operators, unreadable checkpoints, 2 runs | what is stale is cleared before it is used; groups and threads leave the same checkpoints; partitions cover the input evenly; a refused `--resume` writes nothing; a run ends | 70 k |
| `reload` | as `resume`, with unreadable checkpoints | the first disagreement below | - |
| `probe` | 12 recipes of up to 6 operators, 3 rows, 4 GPUs, 2 starts, 2 probes at a time, every fault | what is measured is the recipe's, what is packed fits, what has ended is not overdue | 659 k |
| `local` | 4 rows, 8 recipes over 9 operators, exports whole or in shards of 2, 3 runs, 2 faults | results, checkpoints and records agree, fused or not | 1.7 M |
| `claims` | 2 workers, 2 shards, `--max-shards 1`, 1 retry, claims that expire while their owner lives, 1 kill, 2 relaunches, 1 requeue | publication by the owner only, records that agree, justified failure | 830 k |
| `settles` | 2 workers, 1 shard, 1 retry, attempts within the timeout, 1 kill, 1 relaunch, a requeue beside running workers | one owner; the shard settles and workers return | 124 k |
| `prepare` | 2 processes, 1 to 4 shards, 6 inputs of up to 4 records in 3 sizes | every published job is well cut, balanced and final | 628 k |
| `dlc` | strict mode, 2 instances, 2 shards, cap 1, 2 submissions, every fault | all safety of the entry point, and that every instance returns | 864 k |
| `batches` | batches of up to 4 rows, one context and inputs without one, 4 kinds of memory, every prior | all properties of an adaptive actor | 81 k |
| `profiles` | 2 actors, 2 contexts, sizes up to 3, 3 outer batches of 5 kinds, records of 2 sizes, 1 record in the store, a TTL of 2 ticks, 1 replaced actor | priors are exact, evidence is of delivered batches | 930 k |
| `dedup` | 5 rows in 2 tasks, 3 actors, 7 inputs: chains across actors, a star, pairs; 1 lost worker | one row, the first, of each group; the rounds end | 124 k |

Why these bounds are enough for the interesting cases:

* Three runs of a job are a first one, one that resumes, and one that resumes
  what resuming left.  The fourth of `resume` makes room for a refused attempt
  among them: its overrides are then in `cli.yaml`, the next attempt that brings
  them resumes, and its checkpoint strategy is not the one that wrote the
  checkpoints.  Two partitions are enough to be at different operators
  when a kill hits; three rows do not divide by two, and three partitions of the
  manual strategy meet a remainder and a group of two and one.
* The recipes of `probe` have targets that are padded, cut and exactly filled,
  after mappers only, after filters, after another GPU operator, an undeclared
  one, another environment, a deduplicator and a filter that leaves nothing; one
  has three parallel targets, so that with two at a time one is submitted while
  another runs.  Two starts on four GPUs reuse a record on the same GPU, on one
  16 MiB apart, and not on others.  Three actors of 400 MiB on 1000 are the
  smallest crowd that a hint of a fifth of a GPU would admit.
* `local`: recipes that are prefixes, extensions and permutations of one another,
  one that leaves no rows, four whose operators fuse in each of the ways.
* Two workers and an expired attempt of a third incarnation (relaunches) meet on
  one shard; two shards let `--max-shards` end a worker while work is left and a
  requeue stop between shards.  `MaxAttempts`, 5 and 9, is reached by no behaviour
  of either run, so that neither depends on it.
* Two shards on two nodes make the cap of one tight; two submissions meet the
  manifest of the first.  Elastic mode, which only drops the cap and the check of
  owners, and retries of a shard are in the proofs, not in the run.
* Batches of four halve twice, grow by one, and leave room for a bound between
  two sizes; thresholds of two let every counter wrap.  `since` and `probes` of
  the controller count up to the bound they are compared with.
* Two contexts and a store of one record meet eviction, three sizes and records
  of two meet truncation, two ticks meet evidence of every age.
* A chain of five rows with each link on another actor needs the most rounds five
  rows can need; a band of four rows exceeds the threshold of two while its
  pairs still come.

`CHECK_DEADLOCK FALSE` except for `local` and `dedup`, whose specifications
stutter when they are done: jobs end, and nobody starts another one.

Fairness.  `RunEnds` assumes that the driver and each partition thread, which are
threads of one process, keep running; not that anyone starts another run.
`JobSettles` and `WorkersReturn` assume that worker processes keep running, that
clocks tick so that claims of the dead expire, and that a started retry command
goes on; not that workers are started.  `InstancesReturn` assumes the same of
instances, and strong fairness of a deadline: it is compared with the clock in
every turn of the polling loop, so that it is enabled again and again rather
than all the time.  `MergeEnds` assumes that some step is taken while one can be:
Ray runs its tasks, and the driver waits for all of them.  `OomsStop` and
`SeedOvercome` assume nothing: stopping satisfies the first, and the second says
itself which work keeps coming.  Nothing is claimed to end in `GpuProbe`: a probe
has no deadline unless `gpu_probe_timeout_seconds` is set, and the stages of the
ordered replay and the reading of the hardware have none at all.

## The proofs

Every theorem is checked by TLAPS, for every value of the constants that
satisfies the named assumptions of the module (`CountsAssumption` and the like,
which TLC evaluates in the runs) and the hypotheses, if any, that the theorem
states.  `PROJECT.json` ("theorems") says for each which property of which run it
states.

| Module | Theorems | Argument |
| --- | --- | --- |
| `PartitionedExecutorProofs` | `TypeCorrect` | `TypeOK` is not inductive: `Crash` and `Merge` apply functions whose domains depend on the phase.  `Shape` says which variables a run has set in which phase, that only partitions have threads, and that one that saves has passed an operator. |
| `PartitionedExecutorProofs` | `PartitionsCoverInput`, `ResumeChangesNothing` | `SetupInv`: the partitions at hand are the balanced cut of the input, and while threads run `partitioning_info.json` is readable and describes them. |
| | `FinishedWorkSkipped` | `ThreadInv`: what a thread has run are the operators between its latest checkpoint and its position, and the threads of an execution group are in step. |
| | `ResumesItsRecipe` | `RecipeInv`: the backup is the recipe of the run that created the job, from the moment an event of it exists; `cli.yaml` has the overrides of the latest attempt, so that those of a run that resumes were brought before it. |
| | `CheckpointsAlwaysSound`, `ResumedOutputCorrect` | `CheckpointInv`: a checkpoint is a partition of the recorded cut after the prefix of the recipe that its name says, and there is none while that record is rewritten.  `WorkInv`: the data of a thread is its partition after as many operators as its position.  `OutInv`: merged are the partitions after all of them. |
| | `ImplementsResumableJob` | `PublishInv`: what is exported is complete only once, and that of the job on record.  Then each action maps to `Fix`, `Advance` or `Publish` of `ResumableJob` or to a stuttering step. |
| `GpuProbeProofs` | `TimeoutsHonest` | `TimeoutInv`: what is overdue at a look was running then, and once everything that had ended is received, it had not ended. |
| | `SharesFit` | `ShareInv`: a record, also one of an earlier start, holds a share that is enough for its operator on any GPU within the tolerance of its own (`DemandSuffices`).  The sums over a mix of actors are compared by `TotalsCompare`. |
| | `LineageAlwaysMeasured` | `LineageInv`: parallel probes run the sample, and the replay holds what the operators so far have made of it.  A probe that runs only the ancestors of its target keeps, operator by operator, every column whose writers so far are all ancestors; the columns an ancestor or the target touches are always among them (`AncestorsClosed`, `AncestorsAgree`).  Before a target without filters there are only mappers, which do to the first rows what they do to all (`OpeningKept`), so that one batch of source rows is enough. |
| `ShardClaimsProofs` | `TypeCorrect`, `PublicationByOwner` | A worker that is about to link or remove checked its claim a step earlier.  `Tokens`: attempts belong to one worker each; `Flocks`: a worker in a critical section holds the flock, and since removing a claim takes the flock, the claim is still the one it checked. |
| | `ShardsExclusive` | One owner, when no live attempt is slow.  `Owner`: the claim of the shard names the attempt being run; `Young`: a claim that is old has no live attempt, so that no take-over removes an owner's claim. |
| | `VerdictsRecorded`, `FailuresJustified` | `Recorded`: an attempt that says done is the one in `state/done`, one that says failed or stale has been blamed; `Local`: what a worker counted of a shard's failures is not more than were blamed, and only a retry archives attempts. |
| `ShardPreparationProofs` | `PublishedWellCut`, `UnchangedInputAccepted`, `PublishedStable`, `ExitsHonest` | The forced split is enough: `Feasible` says that while a process writes, the records left are at least the shards left, or it is at the last shard, which has a record.  With equal passes that gives the number of shards and their non-emptiness. |
| | `PublishedBalanced` | `Going`: the shards closed so far have filled their share of the bytes, or every record left needs a shard of its own; the open one has not filled its share.  A shard that closes is then `Fair`: within its share but for its last record, or a single record. |
| `DlcCoordinationProofs` | `TypeCorrect`, `OnceElected` | `Elections`: whoever is chosen for a phase holds its lock, and there is one. |
| | `PreparationFirst` | `Preparation`: until the prepare command has run nobody is past it, and whoever waits with a manifest there saw it before the election; who saw one is past it only with the result 0. |
| | `FinalizedWhenDone`, `SuccessHonest` | `Verification`: a held shard is not done, so finished jobs stay finished; only a verification produces the code 0. |
| | `StrictlySpread` | `Spread`: an instance owns at most as many shards as it has handled, and handles at most `MaxShards`.  Fewer than `Nodes` owners could not own all shards: a pigeonhole over sets of any size (`GroupsBound`). |
| `ElasticJuicerProofs` | `TypeCorrect`, `BoundsAlwaysConsistent`, `RetriesAlwaysShrink`, `ProofAlwaysReal` | `Sound`: what the bounds, the flags and the re-probe counters of a controller may be at once; every method keeps it. |
| | `OutputAlwaysInOrder`, `NothingLost` | What is out is the outer batch up to `offset`.  `RetryBudget`: what a slice has above one row, halved as often as retries are left, is nothing; a proof taken instead of a half costs one retry and can be taken once. |
| | `RecordsOnlyDelivered`, `PriorAlwaysExact` | `StoreIsReceipts`: what the store holds of a key, item by item, is what its receipts say less what expired, was truncated or evicted; `SentDelivered`: calls in flight carry delivered evidence only. |
| `LocalExecutorProofs` | `BatchesAgree` | Operators work row by row, so that they distribute over the pieces of an input, and a batch that has become empty stays so (`PiecesCover` puts the pieces together again). |
| | `StagesAgree` | Filters one after the other drop what any of them drops, in whatever order; a `FusedFilter` drops that at once. |
| | `FusionAgrees` | Scanning filters, what has been put out and then the open group do what the list scanned so far does.  Within a group, every filter is in just one stage (`BySpeedValues`: the ranks of a stable sort are all taken, once each, by counting), so that the group drops the same rows.  Scanning mappers only groups and keeps the order (`FuseMappersKeep`). |
| | `CheckpointsSound`, `ProgressAlwaysKept` | `LInv`: from opening a checkpoint to saving the next, a run without fusion holds what the operators of its record make of the input, and while the record is written the dataset is already there. |
| | `ExportsCorrect` | `PlanInv`: the stages left make of what the run holds what the recipe makes of the input.  It holds at the start by `FusionAgrees`, with a checkpoint by its being a prefix of the recipe, and each stage keeps it by `StagesAgree`.  `ExportInv`: a file that an export no longer has to write has its share; the shares make up the rows (`SharesCover`). |

| `BtsUnionFindProofs` | `SharedHolds` | `Shared`: types; the uids of finished tasks are those of their rows; pairs are with the actor of their key; parents are the smaller uids; paths are compressed but right after rebalancing; how far an actor is in a phase (`ShapeInv`). |
| | `FirstAlwaysSurvives` | `SoundInv`: every group of rows is `Whole`, a set of uids that no parent, edge, list or pair of one key, wherever it is, has just one end in.  Hence parents are smaller uids of the same group, and so is what `squeeze` drops for (`DupsInv`). |
| | `OneRowPerGroup` | See below. |

The driver of the deduplicator stops when no actor's forest differs from the one
it had before the last round.  That says of each actor that it learnt nothing, and
`OneRowPerGroup` that then all is known, without a bound on rounds, actors or
rows.  The inductive invariant for it, in the order of its parts:

* `SentInv`, `JoinedInv`: nothing is lost.  Whatever set of uids is `Whole` now has
  both or none of the uids of two rows with a common band; a map task that has called
  an actor is represented there.  The set stands for any answer that the forests, the
  edges under way and the lists can still lead to.
* `HeadInv`, `RootInv`: what an actor told in the last round is in the owners' forests
  or on its way to them.  An edge of another actor between uids of one owner, and one
  at whose end is a root, unites in the owner's forest.
* `OwnInv`: every tree of an actor has a uid of its own, since edges are sent to the
  owners of their ends.
* `AnswerInv`, `ReplyInv`: an actor with a uid whose root belongs to another one has
  that other actor's answer: from `Communicate`, which leaves uids of its own only, to
  the next `Balance`, an edge between the two trees, or one to a still smaller uid, is
  on its way back.
* `AgainInv`: without a change the new forest of each actor is its old one.  Then
  all of the above speaks of the same forests, and `RootsAgree` concludes: a uid has
  the same root with every actor that knows it.  A root is never larger than its uid,
  and what owners know of each other bounds the root of each from both sides.
* With `JoinedInv`, for the set of uids below one root, a group then has one root
  (`OneRootPerGroup`), which is the only one of its uids without a parent at its
  owner.  `FixInv` carries that through `Squeeze`, `KeptInv` through `Filter`, and
  `FirstSurvives` says which uid it is.

Several of these parts are inductive with `Shared` alone.  `AnswerInv` and
`ReplyInv` need each other, a round handing the one over to the other, and the
first also `HeadInv` and `RootInv`; `JoinedInv` starts from `SentInv` and needs
`HeadInv`; `FixInv` starts from all of them.

Most actions are covered by one lemma per group of them: that they leave the
variables of a conjunct alone.  The type invariants, `FinalizeWhenDone`,
`ExitHonest` and `InOrder` are proved and need no run.

Theorems with a hypothesis, and why it is there:

* `FinishedWorkSkipped`, `CheckpointsAlwaysSound`, `ResumedOutputCorrect`: no torn
  writes and no failing reads.  With them the properties are false, as the next
  section says.
* The last two: the job is `Strict`, created once by one recipe file and continued
  with `--resume` only, or of `OneRecipe`, with any mixture of `--job_id` and
  `--resume` but the same operators in all runs, without GPU groups, which add to
  checkpoints that exist, and without a kill inside `_clear_invalid_checkpoints`.
  Commands that mix recipes under `--job_id` violate them (next section).  The
  instance of `resume` satisfies `Strict`; that of `rerun`, with two recipes, groups
  and failing reads, satisfies neither and shows what the theorem leaves out:
  `OutputCorrect` where one of the recipes uses no checkpoints and there are too few
  runs for a failed read to be saved over.
* `ResumesItsRecipe`: `Strict` only.  Attempts may bring different overrides, and a
  run that resumes need not have those of the run that created the job (next
  section).  `Strict` says that commands of one recipe text have the same operators:
  their overrides may change how checkpoints are taken, or anything else that is not
  the recipe.  The theorems about results need that; the proof of `ResumesItsRecipe` does not use it.
* `ImplementsResumableJob`: `Promising`, that is `Strict`, no torn writes, no
  failing reads, no kill between the export and its event, which would export
  twice, and no recipe that begins with an operator for all partitions at once: its
  runs cut nothing and write no `partitioning_info.json`, so that no job is on
  record.
* `SharesFit`: GPUs of 160 MiB or more.  A record is reused on a GPU that differs by
  up to 16 MiB; the margin of a tenth covers that from 160 MiB on.
* `ShardsExclusive`: no attempt outlives the lock timeout.  `VerdictsRecorded`,
  `FailuresJustified`: no `retry` beside running workers.  Both are false otherwise.
* `BatchesAgree`, `StagesAgree`, `FusionAgrees` have no hypothesis but the types of
  what they quantify over; the three of the executor and `LineageAlwaysMeasured` have
  none at all.  What `OutputCorrect` excepts it says itself, by `misled` and `lost`.
* `NothingLost`: `RetriesSuffice`, a retry for every halving of the outer batch.  The
  default of 16 is one for 65536 rows.
* The theorems about `BtsUnionFind` have none.  Its assumptions say that rows are
  distinct and that there are finitely many keys, each with a number; `HasGhost`,
  which `OnePerGroup` excepts, is the last disagreement below.

Induction without a rule of induction.  The library's induction rules take a predicate as a
parameter and cannot be used here.  What is needed of finite sets, intervals and
sums is proved by a smallest counterexample: strict inclusion is well-founded on
finite subsets (`FS_StrictSubsetOrderingWellFounded`), hence a set of subsets that
are counterexamples has a minimal one (`WFMin`).  That gives maxima
(`LargestSize`, `OrderedHasTop`), the pigeonhole, the existence and uniqueness of
running sums (`TotalsExist`, `TotalsAgree`, `BytesUpToExist`) and with them the
values of the folds and of the recursive function `Bytes` that the models sum by.  `LocalExecutorProofs` has it as a lemma about sets,
`UpFromZero`: a subset of `0..n` with 0 in it and with each successor is all of `0..n`.
The set stands for the predicate, and the recursive functions of `OpFusion`
are unfolded by `ChainsExist`; `GpuProbeProofs` does the same for the rows of a
recipe (`RunAllThrough`) and the closure of its dependencies.

Model-checked only:

* Liveness (`RunEnds`, `JobSettles`, `WorkersReturn`, `InstancesReturn`, `OomsStop`,
  `SeedOvercome`, `MergeEnds`), which the prover does not reach under fairness,
  ENABLED being opaque to it.  So that the rounds of the deduplicator stop is
  checked on the instance of `dedup`; that they stop with the right answer is proved.

Every invariant and every action property that a run checks is the subject of a
theorem.

## Disagreements between code and documents

One is a run that TLC refutes, `reload`: when a checkpoint cannot be loaded, the
executor says "starting from beginning", takes the original partition, and goes on
with the *current* operator group; the operators of earlier groups, skipped because
of that checkpoint, never run.

The others are outside the assumptions of the passing runs.  Each shows when a
constant of a configuration is changed, or a definition of a module is checked
that no run lists.

*Partitioned executor*

* `docs/PartitionAndCheckpoint.md`, line 275, has a strict resume "verify that the
  current configuration matches the original run", and
  `validate_config_for_resumption` says it compares with what was "saved during job
  creation".  But `cli.yaml` is replaced by every attempt, a refused `--resume`
  included: the first attempt with other overrides is turned away, the second is
  accepted, and then the original command is turned away once.  In `resume` itself,
  `resuming => cmd.cli = origin.cli` is violated, by a start, a refused attempt and
  the same attempt again; `ResumeSameRecipe` is what is left of it.  As long as the
  overrides do not change operators, results are right all the same.  If they do,
  `resume` with `Commands <- TwoOverrides` violates `CheckpointsSound`,
  `ImplementsJob` and `OutputCorrect`: one part of a dataset is what one set of
  operators makes of it, and another part what another does.
* A refused `--resume` of a job that has not begun backs up its recipe, and is
  accepted the next time, with the same result where `--job_id` and `--resume` are
  mixed.
* A `--job_id` whose recipe was edited logs "Job resumption failed - starting
  fresh", but `_split_dataset_deterministic` validates checkpoints against the
  partitions only and logs "Partitions validated successfully - resuming with
  existing checkpoints": partitions of the new recipe start from checkpoints of
  the old one.  `rerun` with `Commands <- TwoTexts` and `Gpu = FALSE` violates
  `OutputCorrect`.
* After a checkpoint failed to load, its group is run again and saved over the
  directory that exists, to which `write_parquet` adds: its rows are there twice
  for the next run.  `rerun` with `MaxRuns = 3` violates `OutputCorrect`.
* The existence of a checkpoint directory is its only completion mark: `resume`
  with the fault `"torn"` violates `CheckpointsSound`.  A kill during
  `_clear_invalid_checkpoints` may leave checkpoints without the file that
  describes them: `rerun` with `"clear"` in place of `"load"`, and `MaxRuns = 3`,
  violates `OutputCorrect`.
* A kill after the export and before `job_complete` exports twice, into the same
  directory: `resume` with `"export"` violates `ImplementsJob`.

*GPU preflight*

* A record is reused when its operator, its place in the recipe and the GPU are
  the same, as `docs/PartitionAndCheckpoint.md` says; the operators before it and
  the dataset are not compared.  A recipe edited upstream is then planned from
  rows it does not produce, which a comment on `_sample_is_reproducible` gives as
  the reason to ignore a report.  `LineageMeasured` is about what a start measures.
* Parallel probes that ended before another one failed are measured again by the
  next start; the report is written when everything is measured.

*Default executor*

* A kill between the dataset and `ckpt_op.json`, or a save of an empty dataset,
  which writes the record only, leaves a record beside another dataset: the next
  run repeats or skips operators.  `local` without `~misled` in `OutputCorrect`.
* A kill while `ckpt_op.json` is written makes every later start of the job raise
  until the directory is removed by hand.
* Shards are exported by a pool whose results are not read: a shard that could not
  be written fails nothing.  Shards of an earlier export with another count stay
  beside the new ones.

*Elastic sharding*

* `_create_claim` publishes `state/failed` without holding the claim, from a count
  that another worker's claim may have outdated, although a failure is to be
  published "only while still owning the current lock" (`shard_job.py`, line 809):
  a shard ends with both verdicts, and `dlc_job.py` aborts a job that is done.
  `OneVerdict` of `ShardClaims`, with 3 workers, 1 shard, no retry, no faults and 1
  kill.
* `retry` beside running workers can archive the attempt of a worker that claims
  the shard meanwhile: `claims` with `"early"` violates `DoneRecorded` and
  `FailureJustified`.  The demo's README asks for stopped workers.
* A peer that saw no manifest takes the one that appears for success
  (`_wait_for_phase`), before it looks at `prepare-result.json`.  But the prepare
  process may fail or be killed after its `os.rename` (`shard_job.py`, line 657):
  its code is then published beside a manifest that is new, and the peer works,
  although a test says "worker must not run after preparation fails"
  (`tests/demos/test_elastic_sharding.py`, line 780).
  `pc[i] = "work" => results["prepare"] \in {0, None}` is violated in `dlc`; with a
  manifest that was there before it holds, which is the second half of
  `PreparedFirst`.
* `max_retries` does not bound attempts: one that is killed before it writes
  `attempt.json`, or that overwrites its `stale` mark, is not counted.
* Instances of one submission may exit with different codes: the worker's error
  in one, a failed verification in another.

*Adaptive batch size*

* After its probes are used up the controller freezes the bound at one above the
  best success.  That size need not have failed, so that a later probe of it that
  fits renews the recovery budget, which the text says a previously failing size
  does.

*Deduplicator*

* A map task that runs again with generated uids leaves the uids of its first
  attempt with the actors.  When such a uid is the first of a group, every row of
  the group is a duplicate of it and all are dropped: `OnePerGroup` demands a
  survivor only of groups without such a uid.

## Not modelled

* *Execution DAG.*  Off by default in the default executor, and read by nobody to
  decide what runs.  Met while reading: partitions enumerate their operators from 0
  in each group, so that nodes of later groups stay pending; a repeated operator
  name takes a completed node back to running; failures mark no node;
  `resume_dag_execution` is not called.
* *Event log and its tools.*  Append-only, beside the work.  Of it,
  `PartitionedExecutor` keeps whether the last event is `job_complete`.
* *Deduplicators but one.*  `ray_basic_deduplicator` asks an actor or a Redis
  whether a hash is new, so that a task that runs again drops the row it had kept;
  `ray_bts_minhash_cpp_deduplicator` hands the same algorithm to C++ and relies on
  masks in the order of uids; the local ones are one pass over hashes.  The
  temporary parquet files of the distributed one are never removed.
* *Sharding's `verify_job`, `merge_job`, `status_job`.*  They read finished output,
  and merge replaces its result atomically.
* *Of the preflight:* what CUDA measures and how, throughput and the actor counts
  computed from it, the sampling policies.  *Of fusion:* environments, and a fused
  filter whose intermediate containers stay open when a member raises.
* *Partition sizes and actor counts,* heuristics over measurements that enter
  `PartitionedExecutor` as any count.
* *The operator pool, loading, formats, downloading, analysis, tracing, tools,
  services, demos but elastic sharding,* which is most of the lines of the
  repository: functions of samples, thin layers over libraries, and reports.  They
  have no state that outlives a call and no interleaving to explore; a model of
  one would be its text again.

## Limits

* Three parts of the system are abstracted that the properties could in
  principle depend on: which rows an operator drops in the partitioned executor (a
  partition may become empty midway), actor pools and resource shortage in Ray,
  and the file system, whose renames, links and exclusive creations are atomic and
  visible at once to everyone, as the demo's README requires of it.
* Mappers are taken to keep rows and order, and operators to touch only the
  columns they declare.  Declarations are what the preflight's planner relies on;
  an operator that breaks its own is outside every property.
* Either every command of a job in `PartitionedExecutor` uses checkpoints, by any
  strategy, or none does.
* An input is the same in all runs of `LocalExecutor`, and a Ctrl-C, which is not
  an `Exception`, is left out there.
* The bounds of the configurations are bounds of the models: runs, attempts,
  kills, launches, requeues, submissions, starts and calls are counted and stop.
  The safety proofs hold for all their values.
* Liveness of sharding is checked with one shard; the shards of a job meet only
  in the loop over them, which `claims` covers for safety.
* Values and formats are not modelled: JSON, parquet, hashes, log lines.

## Plan

Done: the modules, runs and proofs above.  What could come next, in this order:

1. `ray_basic_deduplicator` and the C++ variant of the distributed deduplicator,
   with the abstract promise of `BtsUnionFind`, one row of every group, as a module
   of its own that all of them implement.
2. Elastic mode and retries of a shard in a run of `DlcCoordination`.
3. The execution DAG, once something reads it to decide what runs.
