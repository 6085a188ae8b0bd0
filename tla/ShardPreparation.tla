-------------------------- MODULE ShardPreparation --------------------------
(***************************************************************************)
(* prepare of elastic sharding (demos/elastic_sharding/shard_job.py,       *)
(* prepare_job): one pass over the input counts and hashes its records, a  *)
(* second one writes them into a stage directory, cutting a shard whenever *)
(* its share of the bytes is reached, and a rename publishes the stage     *)
(* directory as the job directory.  Several hosts may prepare one job      *)
(* directory, and the input may be edited at any time, so that every pass  *)
(* reads any version of it.                                                *)
(*                                                                         *)
(* A record is a model value with a size; equal digests mean equal records.*)
(* The request (recipe, dataset path, Ray address) is the shard count.     *)
(***************************************************************************)
EXTENDS Integers, Sequences

CONSTANTS
    Preparers,     \* prepare processes
    Records,       \* normalized records
    Size,          \* their sizes in bytes
    Inputs,        \* the versions of the input
    ShardCounts,   \* what --num-shards may be
    NoJob

ASSUME RecordsAssumption ==
    /\ Size \in [Records -> Nat \ {0}] /\ Inputs \subseteq Seq(Records)
ASSUME CountsAssumption ==
    /\ ShardCounts \subseteq Nat \ {0}
    /\ NoJob \notin [numShards : Nat, rows : Seq(Records), written : Seq(Records),
                      ends : Seq(Nat)]

VARIABLES
    job,      \* the job directory: the manifest's shard count and record of the
              \* input, the records in the shard files, and where the files end
    pc,       \* what a process is about to do
    count,    \* its --num-shards
    scan,     \* the records that its first pass found
    feed,     \* the records that its second pass has still to read
    wrote,    \* the records it has written
    ends      \* how many of them each closed shard ends at

vars == <<job, pc, count, scan, feed, wrote, ends>>

Places == {"start", "scan", "write", "check", "publish",
           "exit0", "refused", "changed", "internal", "dead"}
Job == [numShards : Nat, rows : Seq(Records), written : Seq(Records), ends : Seq(Nat)]

Init ==
    /\ job = NoJob
    /\ pc = [p \in Preparers |-> "start"]
    /\ count \in [Preparers -> ShardCounts]
    /\ scan = [p \in Preparers |-> << >>] /\ feed = [p \in Preparers |-> << >>]
    /\ wrote = [p \in Preparers |-> << >>] /\ ends = [p \in Preparers |-> << >>]

Goto(p, place) == pc' = [pc EXCEPT ![p] = place]

-----------------------------------------------------------------------------

(* _existing_job_matches: the request and the input as it is now.          *)
Matches(p, rows) == job.numShards = count[p] /\ job.rows = rows

Start(p) ==
    /\ pc[p] = "start"
    /\ IF job = NoJob THEN Goto(p, "scan")
       ELSE \E rows \in Inputs : Goto(p, IF Matches(p, rows) THEN "exit0" ELSE "refused")
    /\ UNCHANGED <<job, count, scan, feed, wrote, ends>>

(* _scan_dataset, and the version that the second pass is going to see.    *)
Scan(p) ==
    /\ pc[p] = "scan"
    /\ \E rows, reread \in Inputs :
          IF count[p] > Len(rows)
          THEN Goto(p, "refused") /\ UNCHANGED <<scan, feed>>
          ELSE /\ scan' = [scan EXCEPT ![p] = rows]
               /\ feed' = [feed EXCEPT ![p] = reread]
               /\ Goto(p, "write")
    /\ UNCHANGED <<job, count, wrote, ends>>

Bytes(rows) ==
    LET upTo[k \in 0..Len(rows)] == IF k = 0 THEN 0 ELSE upTo[k - 1] + Size[rows[k]]
    IN  upTo[Len(rows)]

(* The records written fill the shards closed so far and this one.         *)
CrossedTarget(p, rows) ==
    Bytes(rows) * count[p] >= Bytes(scan[p]) * (Len(ends[p]) + 1)

(* Every record that is left is needed for a shard of its own.             *)
MustSplit(p, rows) == Len(scan[p]) - Len(rows) = count[p] - Len(ends[p]) - 1

IsLast(p) == Len(ends[p]) >= count[p] - 1

(* Mutant: shards are closed by size only.                                 *)
WriteBySize(p) ==
    /\ pc[p] = "write" /\ feed[p] # << >>
    /\ LET rows == Append(wrote[p], Head(feed[p]))
       IN  /\ wrote' = [wrote EXCEPT ![p] = rows]
           /\ IF ~IsLast(p) /\ CrossedTarget(p, rows)
              THEN ends' = [ends EXCEPT ![p] = Append(@, Len(rows))]
              ELSE UNCHANGED ends
    /\ feed' = [feed EXCEPT ![p] = Tail(@)]
    /\ UNCHANGED <<job, pc, count, scan>>

(* Mutant: the first shard takes everything that can be spared.            *)
WriteLate(p) ==
    /\ pc[p] = "write" /\ feed[p] # << >>
    /\ LET rows == Append(wrote[p], Head(feed[p]))
       IN  /\ wrote' = [wrote EXCEPT ![p] = rows]
           /\ IF ~IsLast(p) /\ MustSplit(p, rows)
              THEN ends' = [ends EXCEPT ![p] = Append(@, Len(rows))]
              ELSE UNCHANGED ends
    /\ feed' = [feed EXCEPT ![p] = Tail(@)]
    /\ UNCHANGED <<job, pc, count, scan>>

(* One record of _write_shards.                                            *)
Write(p) ==
    /\ pc[p] = "write" /\ feed[p] # << >>
    /\ LET rows == Append(wrote[p], Head(feed[p]))
       IN  /\ wrote' = [wrote EXCEPT ![p] = rows]
           /\ IF ~IsLast(p) /\ (CrossedTarget(p, rows) \/ MustSplit(p, rows))
              THEN ends' = [ends EXCEPT ![p] = Append(@, Len(rows))]
              ELSE UNCHANGED ends
    /\ feed' = [feed EXCEPT ![p] = Tail(@)]
    /\ UNCHANGED <<job, pc, count, scan>>

Close(p) ==
    /\ pc[p] = "write" /\ feed[p] = << >>
    /\ ends' = [ends EXCEPT ![p] = Append(@, Len(wrote[p]))]
    /\ Goto(p, "check")
    /\ UNCHANGED <<job, count, scan, feed, wrote>>

(* num shards, none of them empty.                                         *)
WellCut(e, n) ==
    /\ Len(e) = n
    /\ \A k \in 1..Len(e) : IF k = 1 THEN e[k] > 0 ELSE e[k] > e[k - 1]

(* Mutant: only the number of records is compared.                         *)
CheckCounts(p) ==
    /\ pc[p] = "check"
    /\ Goto(p, IF ~WellCut(ends[p], count[p]) THEN "internal"
               ELSE IF Len(wrote[p]) # Len(scan[p]) THEN "changed" ELSE "publish")
    /\ UNCHANGED <<job, count, scan, feed, wrote, ends>>

Check(p) ==
    /\ pc[p] = "check"
    /\ Goto(p, IF ~WellCut(ends[p], count[p]) THEN "internal"
               ELSE IF wrote[p] # scan[p] THEN "changed" ELSE "publish")
    /\ UNCHANGED <<job, count, scan, feed, wrote, ends>>

(* What the stage directory holds.                                         *)
Staged(p) == [numShards |-> count[p], rows |-> scan[p], written |-> wrote[p],
              ends |-> ends[p]]

(* Mutant: the stage directory replaces what is there.                     *)
PublishOver(p) ==
    /\ pc[p] = "publish"
    /\ job' = Staged(p) /\ Goto(p, "exit0")
    /\ UNCHANGED <<count, scan, feed, wrote, ends>>

(* os.rename: a job directory that has come into being meanwhile is not    *)
(* empty, and the rename fails.                                            *)
Publish(p) ==
    /\ pc[p] = "publish"
    /\ IF job = NoJob THEN job' = Staged(p) /\ Goto(p, "exit0")
       ELSE Goto(p, "refused") /\ UNCHANGED job
    /\ UNCHANGED <<count, scan, feed, wrote, ends>>

(* A killed process leaves its stage directory, which has a name of its    *)
(* own, and nothing else.                                                  *)
Kill(p) ==
    /\ pc[p] \in {"start", "scan", "write", "check", "publish"}
    /\ Goto(p, "dead")
    /\ UNCHANGED <<job, count, scan, feed, wrote, ends>>

Prepare(p) ==
    Start(p) \/ Scan(p) \/ Write(p) \/ Close(p) \/ Check(p) \/ Publish(p)

Next == \E p \in Preparers : Prepare(p) \/ Kill(p)

Spec == Init /\ [][Next]_vars

-----------------------------------------------------------------------------
(* Properties.                                                             *)

(* The job directory and what every prepare process has counted.           *)
TypeOK ==
    /\ job \in Job \cup {NoJob}
    /\ pc \in [Preparers -> Places]
    /\ count \in [Preparers -> ShardCounts]
    /\ scan \in [Preparers -> Seq(Records)] /\ feed \in [Preparers -> Seq(Records)]
    /\ wrote \in [Preparers -> Seq(Records)] /\ ends \in [Preparers -> Seq(Nat)]

(* README: an exact number of non-empty shards, contiguous and in input    *)
(* order: the shard files of a published job hold one version of the input,*)
(* the one in the manifest, each ending after the one before (prepare_job).*)
JobWellCut ==
    job # NoJob =>
        /\ job.written = job.rows /\ job.rows \in Inputs
        /\ Len(job.ends) = job.numShards
        /\ job.ends[1] > 0 /\ job.ends[job.numShards] = Len(job.written)
        /\ \A k \in 1..(job.numShards - 1) : job.ends[k] < job.ends[k + 1]

(* README: shards approximately balanced by bytes.  A shard of more than   *)
(* one record is within its share of the bytes but for its last record     *)
(* (_write_shards, crossed_target).                                        *)
JobBalanced ==
    job # NoJob =>
        \A k \in 1..job.numShards :
            LET from == IF k = 1 THEN 0 ELSE job.ends[k - 1]
            IN  \/ job.ends[k] = from + 1
                \/ Bytes(SubSeq(job.rows, from + 1, job.ends[k] - 1)) * job.numShards
                      < Bytes(job.rows)

(* "Internal partitioning error" is never raised for an input that both    *)
(* passes found the same: forcing a split when every record left is needed *)
(* is enough for any records and any number of shards (_write_shards).     *)
NoInternalError ==
    \A p \in Preparers : pc[p] = "internal" => wrote[p] # scan[p]

(* README: repeating a request is a no-op and another request needs another*)
(* directory: a published job never changes, whoever prepares beside it or *)
(* after it (prepare_job, os.rename).                                      *)
JobStable == [][job # NoJob => UNCHANGED job]_vars

(* Who exits with 0 has the job it asked for (_existing_job_matches).      *)
ExitHonest ==
    \A p \in Preparers : pc[p] = "exit0" => job # NoJob /\ job.numShards = count[p]
=============================================================================
