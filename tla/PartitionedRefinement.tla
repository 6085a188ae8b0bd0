----------------------- MODULE PartitionedRefinement -----------------------
(* The partitioned executor implements ResumableJob: the job is what       *)
(* partitioning_info.json and the backed-up recipe say, the progress of a  *)
(* partition is its latest checkpoint, the output what was exported.       *)
EXTENDS PartitionedExecutor

AbstractJob ==
    IF Readable(info) THEN [rows |-> info.rows, n |-> info.n, cmd |-> origin]
    ELSE None

Saves(p) == {i \in OpIdx : ckpt[p][i] # None}

AbstractProgress ==
    [p \in Parts |->
        IF Saves(p) = {} THEN 0
        ELSE 1 + CHOOSE i \in Saves(p) : \A j \in Saves(p) : j <= i]

JobKinds == [rows : Inputs, n : 1..MaxPartitions, cmd : Commands]

(* No job is taken for the absence of one.                                 *)
ASSUME NoJobAssumption == None \notin JobKinds

JobResult(j) ==
    [p \in 0..(j.n - 1) |-> Applied(Balanced(j.rows, j.n)[p], Plan[j.cmd])]

Job == INSTANCE ResumableJob
       WITH Jobs <- JobKinds, Result <- JobResult, NoJob <- None,
            job <- AbstractJob, progress <- AbstractProgress, output <- exported

(* Whatever runs come and go, be they killed, failed, refused or resumed   *)
(* by another recipe or on another input, the checkpoint directory of a    *)
(* job started once and resumed with --resume (_split_dataset_deterministic*)
(* and _process_with_checkpointing) fixes one job, never loses progress    *)
(* and publishes that job's result once.                                   *)
ImplementsJob == Job!Spec
=============================================================================
