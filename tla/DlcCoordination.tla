-------------------------- MODULE DlcCoordination ---------------------------
(***************************************************************************)
(* The dlc entry point of elastic sharding (demos/elastic_sharding/        *)
(* dlc_job.py): every instance of a submission runs the same command, and  *)
(* files in a coordination directory of the submission elect the instance  *)
(* that prepares and the one that verifies and merges, spread the failure  *)
(* of one worker and tell every instance the code to exit with.            *)
(*                                                                         *)
(* An instance runs shard_job.py worker.  ShardClaims models its claims    *)
(* file by file; here an attempt ends in one step, in which its shard is   *)
(* completed, freed or failed for good.                                    *)
(* A result file is the code in it, and instances have distinct hostnames. *)
(***************************************************************************)
EXTENDS Integers, FiniteSets

CONSTANTS
    Instances,
    NumShards,
    Nodes,            \* --nodes
    Strict,           \* --require-all-nodes
    MaxRetries,
    MaxSubmissions,   \* bound: submissions of the job
    Faults,           \* what may go wrong in a run of the model
    None              \* no file, no instance, no shard

AllFaults == {"prepare",  \* preparation fails
              "attempt",  \* a shard fails
              "slow",     \* an attempt outlives its lock
              "error",    \* a worker process fails by itself
              "merge",    \* verification fails
              "timeout",  \* --wait-timeout-secs runs out
              "kill"}     \* an instance is killed

Shards == 1..NumShards

(* --max-shards, the cap of a strict worker: ceil(num_shards / nodes).     *)
MaxShards == (NumShards + Nodes - 1) \div Nodes

ASSUME CountsAssumption ==
    /\ NumShards \in Nat \ {0} /\ Nodes \in Nat \ {0} /\ MaxRetries \in Nat
    /\ MaxSubmissions \in Nat \ {0}
    /\ Strict \in BOOLEAN
    /\ Strict => NumShards >= Nodes /\ (Nodes - 1) * MaxShards < NumShards
ASSUME FaultsAssumption == Faults \subseteq AllFaults
ASSUME NoneAssumption == None \notin Int /\ None \notin Instances

VARIABLES
    manifest,    \* preparation has published the job directory
    owner,       \* of each completed shard, the instance that completed it
    failed,      \* shards that failed for good
    failures,    \* failed attempts of each shard
    holder,      \* the instance whose lock a shard has
    locks,       \* the elections of this submission that someone has won
    results,     \* its result files
    elected,     \* the instances that ran the command of a phase in it
    submissions, \* submissions so far
    pc,          \* what an instance is about to do
    code,        \* the code it is going to publish or to exit with
    preexisted,  \* whether it saw a manifest before its prepare election
    cur,         \* the shard its worker processes
    handled,     \* the claims its worker has processed
    bad          \* and how many of those failed

job == <<manifest, owner, failed, failures, holder>>
coordination == <<locks, results, elected>>
local == <<preexisted, cur, handled, bad>>
vars == <<job, coordination, submissions, pc, code, local>>

Phases == {"prepare", "abort", "finalize"}
Codes == {-9, 0, 1, 2}
Gone == {"exit", "dead"}
Places == {"start", "glance", "elect", "prepare", "report", "awaitPrepare",
           "checkFinal", "checkAbort", "work", "busy", "decide",
           "wait", "count", "signal", "writeAbort", "awaitAbort",
           "final", "electFinal", "verify", "reportFinal", "awaitFinal"} \cup Gone

(* A coordination directory that no instance has written to.               *)
NoResults == [ph \in Phases |-> None]
NoElections == [ph \in {"prepare", "finalize"} |-> {}]

Init ==
    /\ manifest = FALSE
    /\ owner = [s \in Shards |-> None] /\ holder = [s \in Shards |-> None]
    /\ failed = {} /\ failures = [s \in Shards |-> 0]
    /\ submissions = 1
    /\ locks = {} /\ results = NoResults /\ elected = NoElections
    /\ pc = [i \in Instances |-> "start"]
    /\ code = [i \in Instances |-> 0]
    /\ preexisted = [i \in Instances |-> FALSE]
    /\ cur = [i \in Instances |-> None]
    /\ handled = [i \in Instances |-> 0] /\ bad = [i \in Instances |-> 0]

AllDone == \A s \in Shards : owner[s] # None
AllTerminal == \A s \in Shards : owner[s] # None \/ s \in failed
Owners == {owner[s] : s \in Shards} \ {None}

Goto(i, place) == pc' = [pc EXCEPT ![i] = place]
ExitWith(i, c) == Goto(i, "exit") /\ code' = [code EXCEPT ![i] = c]

-----------------------------------------------------------------------------
(* Waiting for a result file, and the elections.                           *)

(* An instance that finds a result takes its code; 0 lets it go on.        *)
Adopt(i, phase, next) ==
    IF results[phase] = 0 /\ next # "exit" THEN Goto(i, next) /\ UNCHANGED code
    ELSE ExitWith(i, results[phase])

Publish(i, phase) == results' = [results EXCEPT ![phase] = code[i]]

(* Mutant: the lock is looked for and then created.                        *)
TryAcquireTwoSteps(i, phase, won, lost) ==
    /\ \/ locks' = locks \cup {phase}
       \/ UNCHANGED locks
    /\ Goto(i, IF phase \in locks THEN lost ELSE won)

(* _try_acquire_phase: O_CREAT and O_EXCL.                                 *)
TryAcquire(i, phase, won, lost) ==
    /\ locks' = locks \cup {phase}
    /\ Goto(i, IF phase \in locks THEN lost ELSE won)

TimeOut(i) == "timeout" \in Faults /\ ExitWith(i, 2)

-----------------------------------------------------------------------------
(* _coordinated_prepare.                                                   *)

Start(i) ==
    /\ pc[i] = "start"
    /\ IF results["prepare"] # None THEN Adopt(i, "prepare", "checkFinal")
       ELSE Goto(i, "glance") /\ UNCHANGED code
    /\ UNCHANGED <<job, coordination, submissions, local>>

Glance(i) ==
    /\ pc[i] = "glance"
    /\ preexisted' = [preexisted EXCEPT ![i] = manifest]
    /\ Goto(i, "elect")
    /\ UNCHANGED <<job, coordination, submissions, code, cur, handled, bad>>

Elect(i) ==
    /\ pc[i] = "elect"
    /\ TryAcquire(i, "prepare", "prepare", "awaitPrepare")
    /\ UNCHANGED <<job, results, elected, submissions, code, local>>

(* The process shard_job.py prepare publishes the job, accepts the one that*)
(* is there, or fails; it may fail, or be killed, after the rename too.    *)
Prepare(i) ==
    /\ pc[i] = "prepare"
    /\ \/ manifest' = TRUE /\ code' = [code EXCEPT ![i] = 0]
       \/ /\ "prepare" \in Faults
          /\ manifest' \in {manifest, TRUE}
          /\ \E c \in Codes \ {0} : code' = [code EXCEPT ![i] = c]
    /\ elected' = [elected EXCEPT !["prepare"] = @ \cup {i}]
    /\ Goto(i, "report")
    /\ UNCHANGED <<owner, failed, failures, holder, locks, results, submissions, local>>

ReportPrepare(i) ==
    /\ pc[i] = "report"
    /\ Publish(i, "prepare")
    /\ Goto(i, IF code[i] = 0 THEN "checkFinal" ELSE "exit")
    /\ UNCHANGED <<job, locks, elected, submissions, code, local>>

(* Mutant: a manifest is a success whoever wrote it.                       *)
AwaitManifest(i) ==
    /\ pc[i] = "awaitPrepare"
    /\ \/ manifest /\ Goto(i, "checkFinal") /\ UNCHANGED code
       \/ ~manifest /\ results["prepare"] # None /\ Adopt(i, "prepare", "checkFinal")
       \/ ~manifest /\ results["prepare"] = None /\ TimeOut(i)
    /\ UNCHANGED <<job, coordination, submissions, local>>

(* Mutant: preparation is waited for without a deadline.                   *)
AwaitPrepareForever(i) ==
    /\ pc[i] = "awaitPrepare"
    /\ LET success == manifest /\ ~preexisted[i]
       IN  \/ success /\ Goto(i, "checkFinal") /\ UNCHANGED code
           \/ ~success /\ results["prepare"] # None /\ Adopt(i, "prepare", "checkFinal")
    /\ UNCHANGED <<job, coordination, submissions, local>>

(* The manifest is as good as a result, unless it is of another submission.*)
AwaitPrepare(i) ==
    /\ pc[i] = "awaitPrepare"
    /\ LET success == manifest /\ ~preexisted[i]
       IN  \/ success /\ Goto(i, "checkFinal") /\ UNCHANGED code
           \/ ~success /\ results["prepare"] # None /\ Adopt(i, "prepare", "checkFinal")
           \/ ~success /\ results["prepare"] = None /\ TimeOut(i)
    /\ UNCHANGED <<job, coordination, submissions, local>>

(* dlc, for an instance that comes late.                                   *)
CheckFinal(i) ==
    /\ pc[i] = "checkFinal"
    /\ IF results["finalize"] # None THEN Adopt(i, "finalize", "exit")
       ELSE Goto(i, "checkAbort") /\ UNCHANGED code
    /\ UNCHANGED <<job, coordination, submissions, local>>

CheckAbort(i) ==
    /\ pc[i] = "checkAbort"
    /\ IF results["abort"] # None THEN Adopt(i, "abort", "exit")
       ELSE Goto(i, "work") /\ UNCHANGED code
    /\ UNCHANGED <<job, coordination, submissions, local>>

-----------------------------------------------------------------------------
(* shard_job.py worker.                                                    *)

Claimable(s) == owner[s] = None /\ s \notin failed /\ holder[s] = None
(* Mutant: the cap is off by one.                                          *)
CapPassed(i) == Strict /\ handled[i] > MaxShards

CapReached(i) == Strict /\ handled[i] >= MaxShards

Claim(i) ==
    /\ pc[i] = "work" /\ ~CapReached(i)
    /\ \E s \in Shards :
          /\ Claimable(s)
          /\ holder' = [holder EXCEPT ![s] = i]
          /\ cur' = [cur EXCEPT ![i] = s]
    /\ Goto(i, "busy")
    /\ UNCHANGED <<manifest, owner, failed, failures, coordination, submissions, code,
                   preexisted, handled, bad>>

(* A shard's attempt failed: it is free again, or failed for good.         *)
Fail(s) ==
    /\ failures' = [failures EXCEPT ![s] = @ + 1]
    /\ failed' = IF failures[s] < MaxRetries THEN failed ELSE failed \cup {s}
    /\ holder' = [holder EXCEPT ![s] = None]

Processed(i) ==
    /\ handled' = [handled EXCEPT ![i] = @ + 1]
    /\ cur' = [cur EXCEPT ![i] = None]
    /\ Goto(i, "work")

(* _process_claim: done, failed, or superseded when the lock has expired.  *)
Complete(i) ==
    /\ pc[i] = "busy" /\ holder[cur[i]] = i
    /\ owner' = [owner EXCEPT ![cur[i]] = i]
    /\ holder' = [holder EXCEPT ![cur[i]] = None]
    /\ Processed(i)
    /\ UNCHANGED <<manifest, failed, failures, coordination, submissions, code,
                   preexisted, bad>>

FailAttempt(i) ==
    /\ "attempt" \in Faults
    /\ pc[i] = "busy" /\ holder[cur[i]] = i
    /\ Fail(cur[i])
    /\ Processed(i)
    /\ bad' = [bad EXCEPT ![i] = @ + 1]
    /\ UNCHANGED <<manifest, owner, coordination, submissions, code, preexisted>>

Superseded(i) ==
    /\ pc[i] = "busy" /\ holder[cur[i]] # i
    /\ Processed(i)
    /\ UNCHANGED <<job, coordination, submissions, code, preexisted, bad>>

(* The lock of an attempt expires: the next worker that wants the shard    *)
(* counts a failure.                                                       *)
Expire(s) ==
    /\ holder[s] # None
    /\ \E i \in Instances : pc[i] = "work" /\ ~CapReached(i)
    /\ "slow" \in Faults \/ pc[holder[s]] # "busy" \/ cur[holder[s]] # s
    /\ Fail(s)
    /\ UNCHANGED <<manifest, owner, coordination, submissions, pc, code, local>>

WorkerReturns(i, c) == Goto(i, "decide") /\ code' = [code EXCEPT ![i] = c]

(* worker_job returns at its cap, or when every shard is terminal.         *)
Return(i) ==
    /\ pc[i] = "work"
    /\ \/ CapReached(i) /\ WorkerReturns(i, IF bad[i] > 0 THEN 2 ELSE 0)
       \/ ~CapReached(i) /\ AllDone /\ WorkerReturns(i, 0)
       \/ ~CapReached(i) /\ AllTerminal /\ ~AllDone /\ WorkerReturns(i, 2)
    /\ UNCHANGED <<job, coordination, submissions, local>>

(* The worker process fails by itself, with or without a claim: it refuses *)
(* the recipe or the code version, raises, or is killed.                   *)
WorkerFails(i) ==
    /\ "error" \in Faults
    /\ pc[i] \in {"work", "busy"}
    /\ \E c \in Codes \ {0} : WorkerReturns(i, c)
    /\ UNCHANGED <<job, coordination, submissions, local>>

Decide(i) ==
    /\ pc[i] = "decide"
    /\ Goto(i, IF code[i] = 0 THEN "wait" ELSE "signal")
    /\ UNCHANGED <<job, coordination, submissions, code, local>>

-----------------------------------------------------------------------------
(* _wait_for_terminal_state and _publish_abort.                            *)

Wait(i) ==
    /\ pc[i] = "wait"
    /\ IF results["abort"] # None THEN Adopt(i, "abort", "exit")
       ELSE Goto(i, "count") /\ UNCHANGED code
    /\ UNCHANGED <<job, coordination, submissions, local>>

Signal(i, c) == Goto(i, "signal") /\ code' = [code EXCEPT ![i] = c]

Count(i) ==
    /\ pc[i] = "count"
    /\ \/ failed # {} /\ Signal(i, 2)
       \/ failed = {} /\ AllDone /\ Goto(i, "final") /\ UNCHANGED code
       \/ failed = {} /\ ~AllDone /\ Goto(i, "wait") /\ UNCHANGED code
    /\ UNCHANGED <<job, coordination, submissions, local>>

Deadline(i) ==
    /\ "timeout" \in Faults
    /\ pc[i] = "count" /\ failed = {} /\ ~AllDone
    /\ Signal(i, 2)
    /\ UNCHANGED <<job, coordination, submissions, local>>

(* abort.json is only there when its lock is.                              *)
PublishAbort(i) ==
    /\ pc[i] = "signal"
    /\ TryAcquire(i, "abort", "writeAbort", "awaitAbort")
    /\ UNCHANGED <<job, results, elected, submissions, code, local>>

WriteAbort(i) ==
    /\ pc[i] = "writeAbort"
    /\ Publish(i, "abort")
    /\ Goto(i, "awaitAbort")
    /\ UNCHANGED <<job, locks, elected, submissions, code, local>>

AwaitAbort(i) ==
    /\ pc[i] = "awaitAbort"
    /\ \/ results["abort"] # None /\ Adopt(i, "abort", "exit")
       \/ results["abort"] = None /\ TimeOut(i)
    /\ UNCHANGED <<job, coordination, submissions, local>>

-----------------------------------------------------------------------------
(* _coordinated_finalize.                                                  *)

Finalize(i) ==
    /\ pc[i] = "final"
    /\ IF results["finalize"] # None THEN Adopt(i, "finalize", "exit")
       ELSE Goto(i, "electFinal") /\ UNCHANGED code
    /\ UNCHANGED <<job, coordination, submissions, local>>

ElectFinal(i) ==
    /\ pc[i] = "electFinal"
    /\ TryAcquire(i, "finalize", "verify", "awaitFinal")
    /\ UNCHANGED <<job, results, elected, submissions, code, local>>

(* Mutant: --expect-nodes is not passed on.                                *)
AnyOwners ==
    IF ~AllDone THEN {IF failed # {} THEN 2 ELSE 1}
    ELSE {0} \cup (IF "merge" \in Faults THEN {2} ELSE {})

(* verify: the status of the job, its owners, and the merge.               *)
Verdicts ==
    IF ~AllDone THEN {IF failed # {} THEN 2 ELSE 1}
    ELSE IF Cardinality(Owners) < (IF Strict THEN Nodes ELSE 1) THEN {2}
    ELSE {0} \cup (IF "merge" \in Faults THEN {2} ELSE {})

Verify(i) ==
    /\ pc[i] = "verify"
    /\ \E c \in Verdicts : code' = [code EXCEPT ![i] = c]
    /\ elected' = [elected EXCEPT !["finalize"] = @ \cup {i}]
    /\ Goto(i, "reportFinal")
    /\ UNCHANGED <<job, locks, results, submissions, local>>

ReportFinal(i) ==
    /\ pc[i] = "reportFinal"
    /\ Publish(i, "finalize")
    /\ Goto(i, "exit")
    /\ UNCHANGED <<job, locks, elected, submissions, code, local>>

AwaitFinal(i) ==
    /\ pc[i] = "awaitFinal"
    /\ \/ results["finalize"] # None /\ Adopt(i, "finalize", "exit")
       \/ results["finalize"] = None /\ TimeOut(i)
    /\ UNCHANGED <<job, coordination, submissions, local>>

-----------------------------------------------------------------------------
Kill(i) ==
    /\ "kill" \in Faults
    /\ pc[i] \notin Gone
    /\ Goto(i, "dead")
    /\ UNCHANGED <<job, coordination, submissions, code, local>>

Over == \A i \in Instances : pc[i] \in Gone

(* shard_job.py retry --all-failed, between two submissions.               *)
Requeue ==
    /\ Over /\ failed # {}
    /\ failed' = {}
    /\ failures' = [s \in Shards |-> IF s \in failed THEN 0 ELSE failures[s]]
    /\ UNCHANGED <<manifest, owner, holder, coordination, submissions, pc, code, local>>

(* A new submission has a coordination directory of its own.               *)
Submit ==
    /\ Over /\ submissions < MaxSubmissions
    /\ submissions' = submissions + 1
    /\ locks' = {} /\ results' = NoResults /\ elected' = NoElections
    /\ pc' = [i \in Instances |-> "start"]
    /\ code' = [i \in Instances |-> 0]
    /\ preexisted' = [i \in Instances |-> FALSE]
    /\ cur' = [i \in Instances |-> None]
    /\ handled' = [i \in Instances |-> 0] /\ bad' = [i \in Instances |-> 0]
    /\ UNCHANGED job

Progress(i) ==
    \/ Start(i) \/ Glance(i) \/ Elect(i) \/ Prepare(i) \/ ReportPrepare(i)
    \/ AwaitPrepare(i) \/ CheckFinal(i) \/ CheckAbort(i)
    \/ Claim(i) \/ Complete(i) \/ FailAttempt(i) \/ Superseded(i)
    \/ Return(i) \/ WorkerFails(i) \/ Decide(i)
    \/ Wait(i) \/ Count(i) \/ Deadline(i) \/ PublishAbort(i) \/ WriteAbort(i) \/ AwaitAbort(i)
    \/ Finalize(i) \/ ElectFinal(i) \/ Verify(i) \/ ReportFinal(i) \/ AwaitFinal(i)

Next ==
    \/ \E i \in Instances : Progress(i) \/ Kill(i)
    \/ \E s \in Shards : Expire(s)
    \/ Requeue
    \/ Submit

Spec == Init /\ [][Next]_vars

(* Instances keep running and polling, and a deadline that is polled again *)
(* and again passes.  Nobody promises a submission or a requeue.           *)
FairSpec ==
    /\ Spec
    /\ \A i \in Instances : WF_vars(Progress(i)) /\ SF_vars(Deadline(i))
    /\ \A s \in Shards : WF_vars(Expire(s))

-----------------------------------------------------------------------------
(* Properties.                                                             *)

(* Every file and every instance holds the kind of value it should.        *)
TypeOK ==
    /\ manifest \in BOOLEAN
    /\ owner \in [Shards -> Instances \cup {None}]
    /\ failed \subseteq Shards /\ failures \in [Shards -> Nat]
    /\ holder \in [Shards -> Instances \cup {None}]
    /\ locks \subseteq Phases /\ results \in [Phases -> Codes \cup {None}]
    /\ elected \in [{"prepare", "finalize"} -> SUBSET Instances]
    /\ submissions \in 1..MaxSubmissions
    /\ pc \in [Instances -> Places] /\ code \in [Instances -> Codes]
    /\ preexisted \in [Instances -> BOOLEAN]
    /\ cur \in [Instances -> Shards \cup {None}]
    /\ handled \in [Instances -> Nat] /\ bad \in [Instances -> Nat]

(* README: pre-split exactly once, and one finalize coordinator.  The      *)
(* command of a phase runs in one instance of a submission, and what the   *)
(* others find is its code (_try_acquire_phase).                           *)
ElectedOnce ==
    \A ph \in {"prepare", "finalize"} :
        /\ \A i, j \in elected[ph] : i = j
        /\ results[ph] # None => elected[ph] # {}

(* Nobody works before there is a job and the prepare command of this      *)
(* submission has run: the manifest of an earlier one lets no instance     *)
(* past, and who saw it before the election works only after preparation   *)
(* has succeeded (_coordinated_prepare, manifest_preexisted).              *)
PreparedFirst ==
    \A i \in Instances : pc[i] \in {"work", "busy"} =>
        /\ manifest /\ elected["prepare"] # {}
        /\ preexisted[i] => results["prepare"] = 0

(* Verification starts when every shard is done, never on shards that      *)
(* failed or are still running (_wait_for_terminal_state).                 *)
FinalizeWhenDone ==
    \A i \in Instances : pc[i] \in {"final", "electFinal", "verify"} => AllDone

(* README: strict mode verifies at least --nodes distinct hostnames.  Who  *)
(* exits with 0 has been told so by the verification of a finished job     *)
(* (dlc, _coordinated_finalize, verify).                                   *)
HonestSuccess ==
    \A i \in Instances :
        pc[i] = "exit" /\ code[i] = 0 =>
            /\ results["finalize"] = 0 /\ AllDone
            /\ Strict => Cardinality(Owners) >= Nodes

(* The claim cap guarantees that every DLC Worker participates: a job      *)
(* finished by one submission has --nodes owners (dlc, max_shards).        *)
StrictSpread ==
    Strict /\ submissions = 1 /\ AllDone => Cardinality(Owners) >= Nodes

(* Every instance that is not killed returns, whoever else is killed, slow *)
(* or missing: each wait has a deadline (_wait_for_phase).                 *)
InstancesReturn == \A i \in Instances : <>(pc[i] \in Gone)
=============================================================================
