---------------------------- MODULE ShardClaims ----------------------------
(***************************************************************************)
(* Elastic sharding (demos/elastic_sharding/shard_job.py): worker          *)
(* processes on many hosts share a job directory on a POSIX file system    *)
(* and nothing else.  Per shard it holds a claim (state/locks, created     *)
(* with O_EXCL), a terminal verdict (state/done, state/failed, published   *)
(* by hard link) and one directory per attempt with its attempt.json.      *)
(* Removing a claim, for any reason, happens under an advisory flock on    *)
(* the claim file; creating one does not.                                  *)
(*                                                                         *)
(* An attempt is a number in the order of creation, which stands for its   *)
(* uuid token, and its claim file holds that number.  The age of a claim   *)
(* is one bit, whether it exceeds lock_timeout_secs.                       *)
(***************************************************************************)
EXTENDS Integers, Sequences, FiniteSets

CONSTANTS
    Workers,       \* worker processes
    NumShards,     \* shards of the manifest
    MaxRetries,    \* policy.max_retries
    MaxShards,     \* --max-shards, or 0 for no limit
    Faults,        \* what may go wrong, see below
    MaxAttempts,   \* bound: attempts of the job
    MaxCrashes,    \* bound: kills of workers and of the retry command
    MaxLaunches,   \* bound: workers started again
    MaxRequeues,   \* bound: invocations of the retry command
    None

(* "slow": a live attempt may outlast lock_timeout_secs.  "early": the     *)
(* retry command may run while workers do.                                 *)
AllFaults == {"slow", "early"}

ASSUME CountsAssumption ==
    /\ NumShards \in Nat \ {0} /\ MaxRetries \in Nat /\ MaxShards \in Nat
    /\ MaxAttempts \in Nat /\ MaxCrashes \in Nat /\ MaxLaunches \in Nat
    /\ MaxRequeues \in Nat
ASSUME WorkersAssumption == None \notin Workers /\ Faults \subseteq AllFaults

Shards == 1..NumShards

VARIABLES
    \* ---- the job directory
    lock,       \* the attempt named by the claim file, 0 without one
    old,        \* the claim file is older than the timeout
    flock,      \* who holds the advisory lock on the claim file
    done,       \* the attempt named by state/done, 0 without one
    failed,     \* state/failed exists
    attempts,   \* the attempts in order: shard, status, still in place
    \* ---- the workers
    pc,         \* what a worker is about to do
    cur,        \* the shard it looks at
    tok,        \* the attempt it runs, 0 for none
    seen,       \* the status it read from attempt.json
    tally,      \* the failures it counted
    verdict,    \* how its attempt ended
    handled, spoiled, \* claims it handled, and whether one failed
    \* ---- the retry command
    moving,     \* the shards it has still to requeue
    archiving,  \* the verdict of the first of them is archived already
    \* ---- spent so far
    crashes, launches, requeues,
    \* ---- history: attempts ever recorded as failed or stale
    blamed

claims  == <<lock, old, flock>>
verdicts == <<done, failed>>
results == <<seen, tally, verdict, handled, spoiled>>
retry   == <<moving, archiving>>
budget  == <<crashes, launches, requeues, blamed>>
vars == <<lock, old, flock, done, failed, attempts, pc, cur, tok, seen, tally,
          verdict, handled, spoiled, moving, archiving, crashes, launches, requeues, blamed>>

(* attempt.json: "none" before it is written.                              *)
Status == {"none", "running", "failed", "stale", "done", "superseded", "lost"}
Attempt == [shard : Shards, status : Status, kept : BOOLEAN]

(* Where a worker may be.  In Processing it runs the attempt it claimed;   *)
(* in Critical it holds the flock.                                         *)
Gone == {"exit0", "exit2", "dead"}
Processing == {"register", "begin", "write", "run", "publish", "link",
               "fail", "count", "giveup", "release"}
Critical == {"mark", "drop", "link", "giveup", "unlink"}
Places == {"look", "lock", "recheck", "check", "claim", "refuse", "finish",
           "return", "status"} \cup Gone \cup Processing \cup Critical

Init ==
    /\ lock = [s \in Shards |-> 0] /\ old = [s \in Shards |-> FALSE]
    /\ flock = [s \in Shards |-> None]
    /\ done = [s \in Shards |-> 0] /\ failed = [s \in Shards |-> FALSE]
    /\ attempts = << >>
    /\ pc = [w \in Workers |-> "look"] /\ cur = [w \in Workers |-> 1]
    /\ tok = [w \in Workers |-> 0]
    /\ seen = [w \in Workers |-> "none"] /\ tally = [w \in Workers |-> 0]
    /\ verdict = [w \in Workers |-> "none"]
    /\ handled = [w \in Workers |-> 0] /\ spoiled = [w \in Workers |-> FALSE]
    /\ moving = {} /\ archiving = FALSE
    /\ crashes = 0 /\ launches = 0 /\ requeues = 0 /\ blamed = {}

-----------------------------------------------------------------------------
(* What a worker can read.                                                 *)

Terminal(s) == done[s] # 0 \/ failed[s]

(* _attempt_failures: attempts in place whose attempt.json says so.        *)
Failures(s) ==
    Cardinality({t \in DOMAIN attempts :
        /\ attempts[t].shard = s /\ attempts[t].kept
        /\ attempts[t].status \in {"failed", "stale"}})

(* _atomic_write_json creates the directory again if it was archived.      *)
SetStatus(t, st) == attempts' = [attempts EXCEPT ![t].status = st, ![t].kept = TRUE]

Goto(w, place) == pc' = [pc EXCEPT ![w] = place]

(* worker_job tries the next shard of the manifest, then looks at the job. *)
NextShard(w) ==
    IF cur[w] < NumShards
    THEN Goto(w, "look") /\ cur' = [cur EXCEPT ![w] = @ + 1]
    ELSE Goto(w, "status") /\ UNCHANGED cur

-----------------------------------------------------------------------------
(* _create_claim.                                                          *)

Look(w) ==
    /\ pc[w] = "look"
    /\ IF Terminal(cur[w]) THEN NextShard(w) ELSE Goto(w, "lock") /\ UNCHANGED cur
    /\ UNCHANGED <<claims, verdicts, attempts, tok, results, retry, budget>>

NoLock(w) ==
    /\ pc[w] = "lock" /\ lock[cur[w]] = 0
    /\ Goto(w, "recheck")
    /\ UNCHANGED <<claims, verdicts, attempts, cur, tok, results, retry, budget>>

(* _reclaim_stale_lock gives up on a claim that is busy or not yet old.    *)
Leave(w) ==
    /\ pc[w] = "lock" /\ lock[cur[w]] # 0
    /\ flock[cur[w]] # None \/ ~old[cur[w]]
    /\ NextShard(w)
    /\ UNCHANGED <<claims, verdicts, attempts, tok, results, retry, budget>>

TakeOver(w) ==
    /\ pc[w] = "lock" /\ lock[cur[w]] # 0
    /\ flock[cur[w]] = None /\ old[cur[w]]
    /\ flock' = [flock EXCEPT ![cur[w]] = w]
    /\ Goto(w, "mark")
    /\ UNCHANGED <<lock, old, verdicts, attempts, cur, tok, results, retry, budget>>

(* _mark_attempt_stale: what the owner writes meanwhile, its attempt being *)
(* a failure too, makes no difference, so one step reads and writes.       *)
Mark(w) ==
    /\ pc[w] = "mark"
    /\ LET t == lock[cur[w]]
       IN  IF attempts[t].status = "running" /\ attempts[t].kept
           THEN SetStatus(t, "stale") /\ blamed' = blamed \cup {t}
           ELSE UNCHANGED <<attempts, blamed>>
    /\ Goto(w, "drop")
    /\ UNCHANGED <<claims, verdicts, cur, tok, results, retry, crashes, launches, requeues>>

(* The claim file goes, and the flock with it.                             *)
Unclaim(s) ==
    /\ lock' = [lock EXCEPT ![s] = 0] /\ old' = [old EXCEPT ![s] = FALSE]
    /\ flock' = [flock EXCEPT ![s] = None]

Drop(w) ==
    /\ pc[w] = "drop"
    /\ Unclaim(cur[w])
    /\ Goto(w, "recheck")
    /\ UNCHANGED <<verdicts, attempts, cur, tok, results, retry, budget>>

Recheck(w) ==
    /\ pc[w] = "recheck"
    /\ IF Terminal(cur[w]) THEN NextShard(w) ELSE Goto(w, "check") /\ UNCHANGED cur
    /\ UNCHANGED <<claims, verdicts, attempts, tok, results, retry, budget>>

(* Mutant: max_retries counts the initial attempt.                         *)
CheckRetriesEarly(w) ==
    /\ pc[w] = "check"
    /\ Goto(w, IF Failures(cur[w]) >= MaxRetries THEN "refuse" ELSE "claim")
    /\ UNCHANGED <<claims, verdicts, attempts, cur, tok, results, retry, budget>>

CheckRetries(w) ==
    /\ pc[w] = "check"
    /\ Goto(w, IF Failures(cur[w]) > MaxRetries THEN "refuse" ELSE "claim")
    /\ UNCHANGED <<claims, verdicts, attempts, cur, tok, results, retry, budget>>

(* "retry limit reached before claim": published without the claim.        *)
Refuse(w) ==
    /\ pc[w] = "refuse"
    /\ failed' = [failed EXCEPT ![cur[w]] = TRUE]
    /\ NextShard(w)
    /\ UNCHANGED <<claims, done, attempts, tok, results, retry, budget>>

(* Mutant: the claim file is created without O_EXCL.                       *)
ClaimOverwriting(w) ==
    /\ pc[w] = "claim" /\ Len(attempts) < MaxAttempts
    /\ attempts' = Append(attempts, [shard |-> cur[w], status |-> "none", kept |-> TRUE])
    /\ lock' = [lock EXCEPT ![cur[w]] = Len(attempts) + 1]
    /\ tok' = [tok EXCEPT ![w] = Len(attempts) + 1]
    /\ Goto(w, "register")
    /\ UNCHANGED <<old, flock, verdicts, cur, results, retry, budget>>

(* The attempt directory and the O_EXCL creation of the claim file, which  *)
(* is read only once it is old, and so after its content is written.       *)
Claim(w) ==
    /\ pc[w] = "claim" /\ lock[cur[w]] = 0 /\ Len(attempts) < MaxAttempts
    /\ attempts' = Append(attempts, [shard |-> cur[w], status |-> "none", kept |-> TRUE])
    /\ lock' = [lock EXCEPT ![cur[w]] = Len(attempts) + 1]
    /\ tok' = [tok EXCEPT ![w] = Len(attempts) + 1]
    /\ Goto(w, "register")
    /\ UNCHANGED <<old, flock, verdicts, cur, results, retry, budget>>

(* Someone else's claim is there: the attempt directory is removed again.  *)
LoseClaim(w) ==
    /\ pc[w] = "claim" /\ lock[cur[w]] # 0
    /\ NextShard(w)
    /\ UNCHANGED <<claims, verdicts, attempts, tok, results, retry, budget>>

Register(w) ==
    /\ pc[w] = "register"
    /\ SetStatus(tok[w], "running")
    /\ Goto(w, "begin")
    /\ UNCHANGED <<claims, verdicts, cur, tok, results, retry, budget>>

-----------------------------------------------------------------------------
(* _process_claim.                                                         *)

(* attempt.json is read to add the command to it ...                       *)
Begin(w) ==
    /\ pc[w] = "begin" /\ attempts[tok[w]].kept
    /\ seen' = [seen EXCEPT ![w] = attempts[tok[w]].status]
    /\ Goto(w, "write")
    /\ UNCHANGED <<claims, verdicts, attempts, cur, tok, tally, verdict, handled,
                   spoiled, retry, budget>>

(* ... and written back, whatever became of it meanwhile.                  *)
WriteBack(w) ==
    /\ pc[w] = "write"
    /\ SetStatus(tok[w], seen[w])
    /\ seen' = [seen EXCEPT ![w] = "none"]
    /\ Goto(w, "run")
    /\ UNCHANGED <<claims, verdicts, cur, tok, tally, verdict, handled, spoiled,
                   retry, budget>>

(* The Data-Juicer process ends, its output is validated, and attempt.json *)
(* is read again.                                                          *)
Run(w) ==
    /\ pc[w] = "run" /\ attempts[tok[w]].kept
    /\ Goto(w, "publish") \/ Goto(w, "fail")
    /\ UNCHANGED <<claims, verdicts, attempts, cur, tok, results, retry, budget>>

(* attempt.json is gone with its directory: the worker exits with code 2.  *)
Vanished(w) ==
    /\ pc[w] \in {"begin", "run"} /\ ~attempts[tok[w]].kept
    /\ Goto(w, "exit2")
    /\ tok' = [tok EXCEPT ![w] = 0]
    /\ UNCHANGED <<claims, verdicts, attempts, cur, results, retry, budget>>

(* The ownership check: the claim is ours, and the flock on it.            *)
Owns(w) == lock[cur[w]] = tok[w]

End(w, v) == verdict' = [verdict EXCEPT ![w] = v]

(* Mutant: the token in the claim file is not compared.                    *)
PublishAnyway(w) ==
    /\ pc[w] = "publish" /\ lock[cur[w]] # 0 /\ flock[cur[w]] = None
    /\ flock' = [flock EXCEPT ![cur[w]] = w]
    /\ Goto(w, "link")
    /\ UNCHANGED <<lock, old, verdicts, attempts, cur, tok, results, retry, budget>>

(* _publish_done_and_release: check the ownership and state/failed ...     *)
Publish(w) ==
    /\ pc[w] = "publish" /\ Owns(w) /\ flock[cur[w]] = None
    /\ flock' = [flock EXCEPT ![cur[w]] = w]
    /\ IF failed[cur[w]] THEN Goto(w, "unlink") /\ End(w, "superseded")
       ELSE Goto(w, "link") /\ UNCHANGED verdict
    /\ UNCHANGED <<lock, old, verdicts, attempts, cur, tok, seen, tally, handled,
                   spoiled, retry, budget>>

(* Mutant: os.replace instead of os.link.                                  *)
LinkReplacing(w) ==
    /\ pc[w] = "link"
    /\ done' = [done EXCEPT ![cur[w]] = tok[w]] /\ End(w, "done")
    /\ Goto(w, "unlink")
    /\ UNCHANGED <<claims, failed, attempts, cur, tok, seen, tally, handled,
                   spoiled, retry, budget>>

(* ... publish by exclusive link ...                                       *)
Link(w) ==
    /\ pc[w] = "link"
    /\ IF done[cur[w]] = 0
       THEN done' = [done EXCEPT ![cur[w]] = tok[w]] /\ End(w, "done")
       ELSE UNCHANGED done /\ End(w, "superseded")
    /\ Goto(w, "unlink")
    /\ UNCHANGED <<claims, failed, attempts, cur, tok, seen, tally, handled,
                   spoiled, retry, budget>>

(* ... and remove the claim.                                               *)
Unlink(w) ==
    /\ pc[w] = "unlink"
    /\ Unclaim(cur[w])
    /\ Goto(w, IF verdict[w] = "failed" THEN "return" ELSE "finish")
    /\ UNCHANGED <<verdicts, attempts, cur, tok, results, retry, budget>>

PublishLost(w) ==
    /\ pc[w] = "publish" /\ ~Owns(w)
    /\ IF attempts[tok[w]].kept THEN Goto(w, "finish") /\ UNCHANGED tok
       ELSE Goto(w, "exit2") /\ tok' = [tok EXCEPT ![w] = 0]
    /\ End(w, "lost")
    /\ UNCHANGED <<claims, verdicts, attempts, cur, seen, tally, handled,
                   spoiled, retry, budget>>

(* The final status; a stale attempt that was lost stays stale.            *)
Finish(w) ==
    /\ pc[w] = "finish"
    /\ SetStatus(tok[w],
                 IF verdict[w] = "lost" /\ attempts[tok[w]].status = "stale"
                 THEN "stale" ELSE verdict[w])
    /\ Goto(w, "return")
    /\ UNCHANGED <<claims, verdicts, cur, tok, results, retry, budget>>

Fail(w) ==
    /\ pc[w] = "fail"
    /\ SetStatus(tok[w], "failed") /\ blamed' = blamed \cup {tok[w]}
    /\ Goto(w, "count")
    /\ UNCHANGED <<claims, verdicts, cur, tok, results, retry, crashes, launches, requeues>>

CountFailures(w) ==
    /\ pc[w] = "count"
    /\ tally' = [tally EXCEPT ![w] = Failures(cur[w])]
    /\ Goto(w, "release")
    /\ UNCHANGED <<claims, verdicts, attempts, cur, tok, seen, verdict, handled,
                   spoiled, retry, budget>>

(* _release_lock, or _publish_failure_and_release when no retry is left:   *)
(* both only while the claim is ours.                                      *)
Release(w) ==
    /\ pc[w] = "release" /\ Owns(w) /\ flock[cur[w]] = None
    /\ flock' = [flock EXCEPT ![cur[w]] = w]
    /\ End(w, "failed")
    /\ Goto(w, IF tally[w] > MaxRetries /\ done[cur[w]] = 0 THEN "giveup" ELSE "unlink")
    /\ tally' = [tally EXCEPT ![w] = 0]
    /\ UNCHANGED <<lock, old, verdicts, attempts, cur, tok, seen, handled, spoiled,
                   retry, budget>>

GiveUp(w) ==
    /\ pc[w] = "giveup"
    /\ failed' = [failed EXCEPT ![cur[w]] = TRUE]
    /\ Goto(w, "unlink")
    /\ UNCHANGED <<claims, done, attempts, cur, tok, results, retry, budget>>

ReleaseLost(w) ==
    /\ pc[w] = "release" /\ ~Owns(w)
    /\ End(w, "lost") /\ Goto(w, "return")
    /\ tally' = [tally EXCEPT ![w] = 0]
    /\ UNCHANGED <<claims, verdicts, attempts, cur, tok, seen, handled, spoiled,
                   retry, budget>>

-----------------------------------------------------------------------------
(* worker_job: on to the next claim, unless --max-shards is reached.       *)
Return(w) ==
    /\ pc[w] = "return"
    /\ LET n == handled[w] + 1
           bad == spoiled[w] \/ verdict[w] = "failed"
       IN  IF MaxShards # 0 /\ n >= MaxShards
           THEN /\ Goto(w, IF bad THEN "exit2" ELSE "exit0")
                /\ UNCHANGED <<cur, handled, spoiled>>
           ELSE /\ Goto(w, "look") /\ cur' = [cur EXCEPT ![w] = 1]
                /\ IF MaxShards = 0 THEN UNCHANGED <<handled, spoiled>>
                   ELSE /\ handled' = [handled EXCEPT ![w] = n]
                        /\ spoiled' = [spoiled EXCEPT ![w] = bad]
    /\ tok' = [tok EXCEPT ![w] = 0] /\ End(w, "none")
    /\ UNCHANGED <<claims, verdicts, attempts, seen, tally, retry, budget>>

AllDone == \A s \in Shards : done[s] # 0
AllTerminal == \A s \in Shards : Terminal(s)

(* Mutant: claimed shards are left to their owners.                        *)
PollNotWaiting(w) ==
    /\ pc[w] = "status"
    /\ IF \A s \in Shards : Terminal(s) \/ lock[s] # 0
       THEN Goto(w, IF AllDone THEN "exit0" ELSE "exit2") /\ UNCHANGED cur
       ELSE Goto(w, "look") /\ cur' = [cur EXCEPT ![w] = 1]
    /\ UNCHANGED <<claims, verdicts, attempts, tok, results, retry, budget>>

(* Mutant: only a complete job is over.                                    *)
PollForDone(w) ==
    /\ pc[w] = "status"
    /\ IF AllDone THEN Goto(w, "exit0") /\ UNCHANGED cur
       ELSE Goto(w, "look") /\ cur' = [cur EXCEPT ![w] = 1]
    /\ UNCHANGED <<claims, verdicts, attempts, tok, results, retry, budget>>

(* Nothing to claim: the job is over, or look again after a while.         *)
Poll(w) ==
    /\ pc[w] = "status"
    /\ IF AllTerminal
       THEN Goto(w, IF AllDone THEN "exit0" ELSE "exit2") /\ UNCHANGED cur
       ELSE Goto(w, "look") /\ cur' = [cur EXCEPT ![w] = 1]
    /\ UNCHANGED <<claims, verdicts, attempts, tok, results, retry, budget>>

WorkerStep(w) ==
    \/ Look(w) \/ NoLock(w) \/ Leave(w) \/ TakeOver(w) \/ Mark(w) \/ Drop(w)
    \/ Recheck(w) \/ CheckRetries(w) \/ Refuse(w) \/ Claim(w) \/ LoseClaim(w)
    \/ Register(w) \/ Begin(w) \/ WriteBack(w) \/ Run(w) \/ Vanished(w)
    \/ Publish(w) \/ Link(w) \/ Unlink(w) \/ PublishLost(w) \/ Finish(w)
    \/ Fail(w) \/ CountFailures(w) \/ Release(w) \/ GiveUp(w) \/ ReleaseLost(w)
    \/ Return(w) \/ Poll(w)

-----------------------------------------------------------------------------
(* The environment.                                                        *)

(* A claim comes of age: its owner is gone, or slower than the timeout.    *)
Expire(s) ==
    /\ lock[s] # 0 /\ ~old[s]
    /\ "slow" \in Faults \/ \A w \in Workers : tok[w] # lock[s]
    /\ old' = [old EXCEPT ![s] = TRUE]
    /\ UNCHANGED <<lock, flock, verdicts, attempts, pc, cur, tok, results, retry, budget>>

(* A worker is killed: its flock, if any, goes with the process.           *)
Crash(w) ==
    /\ pc[w] \notin Gone /\ crashes < MaxCrashes
    /\ crashes' = crashes + 1
    /\ flock' = [s \in Shards |-> IF flock[s] = w THEN None ELSE flock[s]]
    /\ Goto(w, "dead")
    /\ tok' = [tok EXCEPT ![w] = 0] /\ End(w, "none")
    /\ seen' = [seen EXCEPT ![w] = "none"] /\ tally' = [tally EXCEPT ![w] = 0]
    /\ UNCHANGED <<lock, old, verdicts, attempts, cur, handled, spoiled, retry,
                   launches, requeues, blamed>>

Launch(w) ==
    /\ pc[w] \in Gone /\ launches < MaxLaunches
    /\ "early" \in Faults \/ moving = {}
    /\ launches' = launches + 1
    /\ Goto(w, "look") /\ cur' = [cur EXCEPT ![w] = 1]
    /\ handled' = [handled EXCEPT ![w] = 0] /\ spoiled' = [spoiled EXCEPT ![w] = FALSE]
    /\ End(w, "none")
    /\ UNCHANGED <<claims, verdicts, attempts, tok, seen, tally, retry, crashes, requeues,
                   blamed>>

-----------------------------------------------------------------------------
(* retry_job, at most one at a time.                                       *)

(* All targets are validated before any is moved.                          *)
Requeue(S) ==
    /\ moving = {} /\ requeues < MaxRequeues /\ S # {}
    /\ "early" \in Faults \/ \A w \in Workers : pc[w] \in Gone
    /\ \A s \in S : failed[s] /\ lock[s] = 0 /\ done[s] = 0
    /\ moving' = S /\ requeues' = requeues + 1
    /\ UNCHANGED <<claims, verdicts, attempts, pc, cur, tok, results, archiving,
                   crashes, launches, blamed>>

IsNext(s) == s \in moving /\ \A r \in moving : s <= r

ArchiveVerdict(s) ==
    /\ IsNext(s) /\ ~archiving
    /\ failed' = [failed EXCEPT ![s] = FALSE]
    /\ archiving' = TRUE
    /\ UNCHANGED <<claims, done, attempts, pc, cur, tok, results, moving, budget>>

ArchiveAttempts(s) ==
    /\ IsNext(s) /\ archiving
    /\ attempts' = [t \in DOMAIN attempts |->
                      IF attempts[t].shard = s THEN [attempts[t] EXCEPT !.kept = FALSE]
                      ELSE attempts[t]]
    /\ moving' = moving \ {s} /\ archiving' = FALSE
    /\ UNCHANGED <<claims, verdicts, pc, cur, tok, results, budget>>

KillRequeue ==
    /\ moving # {} /\ crashes < MaxCrashes
    /\ moving' = {} /\ archiving' = FALSE /\ crashes' = crashes + 1
    /\ UNCHANGED <<claims, verdicts, attempts, pc, cur, tok, results, launches, requeues,
                   blamed>>

RequeueStep == \E s \in Shards : ArchiveVerdict(s) \/ ArchiveAttempts(s)

Next ==
    \/ \E w \in Workers : WorkerStep(w) \/ Crash(w) \/ Launch(w)
    \/ \E s \in Shards : Expire(s)
    \/ \E S \in SUBSET Shards : Requeue(S)
    \/ RequeueStep \/ KillRequeue

Spec == Init /\ [][Next]_vars

(* Worker processes keep running, clocks keep ticking; no one promises     *)
(* that a worker or the retry command is started.                          *)
FairSpec ==
    /\ Spec
    /\ \A w \in Workers : WF_vars(WorkerStep(w))
    /\ \A s \in Shards : WF_vars(Expire(s))
    /\ WF_vars(RequeueStep)

-----------------------------------------------------------------------------
(* Properties.                                                             *)

(* Every variable holds the kind of value the job directory or a worker    *)
(* process keeps in it.                                                    *)
TypeOK ==
    /\ lock \in [Shards -> 0..MaxAttempts] /\ old \in [Shards -> BOOLEAN]
    /\ flock \in [Shards -> Workers \cup {None}]
    /\ done \in [Shards -> 0..MaxAttempts] /\ failed \in [Shards -> BOOLEAN]
    /\ attempts \in Seq(Attempt) /\ Len(attempts) <= MaxAttempts
    /\ pc \in [Workers -> Places] /\ cur \in [Workers -> Shards]
    /\ tok \in [Workers -> 0..MaxAttempts]
    /\ seen \in [Workers -> Status] /\ tally \in [Workers -> Nat]
    /\ verdict \in [Workers -> {"none", "done", "superseded", "lost", "failed"}]
    /\ handled \in [Workers -> Nat] /\ spoiled \in [Workers -> BOOLEAN]
    /\ moving \subseteq Shards /\ archiving \in BOOLEAN
    /\ crashes \in Nat /\ launches \in Nat /\ requeues \in Nat
    /\ blamed \subseteq 1..MaxAttempts

(* README: O_CREAT|O_EXCL prevents two active workers from normally owning *)
(* the same shard.  As long as attempts end within the timeout, no two     *)
(* workers run attempts of one shard (_create_claim, _reclaim_stale_lock,  *)
(* _release_lock).                                                         *)
OneOwner ==
    \A w, v \in Workers :
        w # v /\ pc[w] \in Processing /\ pc[v] \in Processing => cur[w] # cur[v]

(* An expired attempt cannot publish after a replacement has claimed the   *)
(* shard: state/done comes into being once, naming the attempt that the    *)
(* claim file names at that moment (_publish_done_and_release).            *)
PublishedByOwner ==
    [][\A s \in Shards :
          done'[s] # done[s] => done[s] = 0 /\ done'[s] = lock[s]]_vars

(* attempt.json and state/done agree: an attempt recorded as done is the   *)
(* one whose output merge_job takes, and that output is still in place     *)
(* (_process_claim, retry_job).                                            *)
DoneRecorded ==
    /\ \A t \in DOMAIN attempts :
          attempts[t].status = "done" => done[attempts[t].shard] = t
    /\ \A s \in Shards : done[s] # 0 =>
          attempts[done[s]].shard = s /\ attempts[done[s]].kept

Blamed(s) == {t \in blamed : attempts[t].shard = s /\ attempts[t].kept}

(* README: state failed is a terminal failure after the retry limit: more  *)
(* than max_retries attempts of the shard were recorded as failed or       *)
(* stale, not counting those that retry archived.  A late attempt may have *)
(* written over the record since (_create_claim,                           *)
(* _publish_failure_and_release).                                          *)
FailureJustified ==
    \A s \in Shards : failed[s] => Cardinality(Blamed(s)) > MaxRetries

(* A shard has one verdict: publishing either one checks for the other     *)
(* (_publish_done_and_release, _publish_failure_and_release).              *)
OneVerdict == \A s \in Shards : ~(done[s] # 0 /\ failed[s])

(* Every shard gets a verdict, unless retry takes it back while workers    *)
(* run, and every worker that is not killed returns (worker_job), whatever *)
(* claims the killed ones left behind.                                     *)
JobSettles == <>(AllTerminal \/ requeues > 0)
WorkersReturn == \A w \in Workers : <>(pc[w] \in Gone)
=============================================================================
