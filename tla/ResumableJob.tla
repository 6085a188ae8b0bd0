---------------------------- MODULE ResumableJob ----------------------------
(***************************************************************************)
(* What a job that survives its runs promises: it is fixed once what the   *)
(* job computes; every partition's durable progress through the recipe     *)
(* only grows; and the result of exactly that job is published, once.      *)
(* Kills, refused runs and repeated work within a run are invisible here.  *)
(***************************************************************************)
EXTENDS Naturals, Sequences

CONSTANTS
    Jobs,        \* what a job may be: input, partitioning and recipe
    Result(_),   \* the dataset that job j is to publish
    Parts,       \* partitions
    MaxOps,      \* operators of the longest recipe
    NoJob

VARIABLES
    job,         \* what the job computes, once it is fixed
    progress,    \* operators of each partition that need not run again
    output       \* what was published

jobVars == <<job, progress, output>>

Init ==
    /\ job = NoJob
    /\ progress = [p \in Parts |-> 0]
    /\ output = << >>

Fix(j) ==
    /\ job = NoJob /\ job' = j
    /\ UNCHANGED <<progress, output>>

Advance(p, k) ==
    /\ job # NoJob /\ k > progress[p]
    /\ progress' = [progress EXCEPT ![p] = k]
    /\ UNCHANGED <<job, output>>

Publish ==
    /\ job # NoJob /\ output = << >>
    /\ output' = <<Result(job)>>
    /\ UNCHANGED <<job, progress>>

Next ==
    \/ \E j \in Jobs : Fix(j)
    \/ \E p \in Parts, k \in 1..MaxOps : Advance(p, k)
    \/ Publish

Spec == Init /\ [][Next]_jobVars
=============================================================================
