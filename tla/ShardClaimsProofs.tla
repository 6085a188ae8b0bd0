------------------------- MODULE ShardClaimsProofs -------------------------
(* Proofs about elastic sharding, for any number of workers, shards,       *)
(* retries, attempts and kills.                                            *)
EXTENDS ShardClaims, SequenceTheorems, FiniteSetTheorems, TLAPS

-----------------------------------------------------------------------------
(* Types.                                                                  *)

(* The constants as numbers, for the provers.                              *)
LEMMA Numbers ==
    /\ NumShards \in Nat \ {0} /\ MaxRetries \in Nat /\ MaxShards \in Nat
    /\ MaxAttempts \in Nat /\ 0 \in 0..MaxAttempts
    /\ 1 \in Shards /\ Shards \subseteq Nat
BY CountsAssumption DEF Shards

(* Writing one attempt.json keeps the attempts what they are.              *)
LEMMA SetStatusType ==
    ASSUME NEW t, NEW st \in Status, attempts \in Seq(Attempt), SetStatus(t, st)
    PROVE  attempts' \in Seq(Attempt) /\ Len(attempts') = Len(attempts)
<1>1. CASE t \in 1..Len(attempts)
  <2>1. attempts[t] \in Attempt
    BY <1>1, ElementOfSeq
  <2>2. [[attempts[t] EXCEPT !.status = st] EXCEPT !.kept = TRUE] \in Attempt
    BY <2>1 DEF Attempt
  <2>3. attempts' = [attempts EXCEPT ![t] = [[attempts[t] EXCEPT !.status = st]
                                                EXCEPT !.kept = TRUE]]
    BY <1>1, LenProperties DEF SetStatus
  <2> QED
    BY <1>1, <2>2, <2>3, ExceptSeq
<1>2. CASE t \notin 1..Len(attempts)
  <2>1. attempts' = attempts
    BY <1>2, LenProperties DEF SetStatus
  <2> QED
    BY <2>1
<1> QED
  BY <1>1, <1>2

LEMMA FailuresType ==
    ASSUME TypeOK, NEW s
    PROVE  Failures(s) \in Nat
<1> DEFINE counted == {t \in DOMAIN attempts :
                         /\ attempts[t].shard = s /\ attempts[t].kept
                         /\ attempts[t].status \in {"failed", "stale"}}
<1>1. IsFiniteSet(DOMAIN attempts)
  BY LenProperties, FS_Interval DEF TypeOK
<1>2. IsFiniteSet(counted)
  BY <1>1, FS_Subset
<1> QED
  BY <1>2, FS_CardinalityType DEF Failures

(* Moving on leaves the worker at a shard of the manifest.                 *)
LEMMA NextShardType ==
    ASSUME TypeOK, NEW w \in Workers, NextShard(w)
    PROVE  cur' \in [Workers -> Shards] /\ pc' \in [Workers -> Places]
<1>1. cur' \in [Workers -> Shards]
  <2>1. cur \in [Workers -> Shards] /\ cur[w] \in 1..NumShards
    BY DEF TypeOK, Shards
  <2>2. CASE cur[w] < NumShards
    <3>1. cur[w] + 1 \in Shards
      BY <2>1, <2>2, Numbers DEF Shards
    <3> QED
      BY <2>1, <2>2, <3>1 DEF NextShard
  <2>3. CASE ~(cur[w] < NumShards)
    BY <2>1, <2>3 DEF NextShard
  <2> QED
    BY <2>2, <2>3
<1>2. pc' \in [Workers -> Places]
  BY DEF NextShard, Goto, TypeOK, Places
<1> QED
  BY <1>1, <1>2

(* A step within the program leads to one of its places.                   *)
LEMMA GotoType ==
    ASSUME TypeOK, NEW w \in Workers, NEW place \in Places, Goto(w, place)
    PROVE  pc' \in [Workers -> Places]
BY DEF TypeOK, Goto

(* The claiming half of a worker's steps.                                  *)
LEMMA TypeClaiming ==
    ASSUME TypeOK, NEW w \in Workers,
           \/ Look(w) \/ NoLock(w) \/ Leave(w) \/ TakeOver(w) \/ Mark(w) \/ Drop(w)
           \/ Recheck(w) \/ CheckRetries(w) \/ Refuse(w) \/ LoseClaim(w)
           \/ Return(w) \/ Poll(w),
           pc[w] = "mark" => lock[cur[w]] # 0
    PROVE  TypeOK'
<1>1. CASE Look(w) \/ Leave(w) \/ Recheck(w) \/ LoseClaim(w)
  <2>1. cur' \in [Workers -> Shards] /\ pc' \in [Workers -> Places]
    <3>1. CASE NextShard(w)
      BY <3>1, NextShardType
    <3>2. CASE ~NextShard(w)
      <4>1. cur' = cur /\ \E place \in Places : Goto(w, place)
        BY <1>1, <3>2 DEF Look, Leave, Recheck, LoseClaim, Places, Processing
      <4> QED
        BY <4>1, GotoType DEF TypeOK
    <3> QED
      BY <3>1, <3>2
  <2> QED
    BY <1>1, <2>1 DEF Look, Leave, Recheck, LoseClaim, TypeOK, claims, verdicts,
       results, retry, budget
<1>2. CASE NoLock(w) \/ TakeOver(w) \/ CheckRetries(w)
  <2>1. pc' \in [Workers -> Places]
    BY <1>2, GotoType DEF NoLock, TakeOver, CheckRetries, Places, Critical
  <2> QED
    BY <1>2, <2>1 DEF NoLock, TakeOver, CheckRetries, TypeOK, claims, verdicts, results,
       retry, budget
<1>3. CASE Mark(w)
  <2>1. attempts' \in Seq(Attempt) /\ Len(attempts') = Len(attempts)
    BY <1>3, SetStatusType DEF Mark, TypeOK, Status
  <2>2. pc' \in [Workers -> Places]
    BY <1>3, GotoType DEF Mark, Places, Critical
  <2>3. blamed' \subseteq 1..MaxAttempts
    <3>1. lock[cur[w]] \in 0..MaxAttempts /\ lock[cur[w]] # 0
      BY <1>3 DEF Mark, TypeOK
    <3>2. lock[cur[w]] \in 1..MaxAttempts
      BY <3>1, Numbers
    <3> QED
      BY <1>3, <3>2 DEF Mark, TypeOK
  <2> QED
    BY <1>3, <2>1, <2>2, <2>3 DEF Mark, TypeOK, claims, verdicts, results, retry, budget
<1>4. CASE Drop(w)
  <2>1. pc' \in [Workers -> Places]
    BY <1>4, GotoType DEF Drop, Places
  <2> QED
    BY <1>4, <2>1, Numbers DEF Drop, Unclaim, TypeOK, verdicts, results, retry, budget
<1>5. CASE Refuse(w)
  BY <1>5, NextShardType DEF Refuse, TypeOK, claims, results, retry, budget
<1>6. CASE Return(w)
  <2> DEFINE n == handled[w] + 1
             bad == spoiled[w] \/ verdict[w] = "failed"
  <2>1. n \in Nat /\ bad \in BOOLEAN
    BY DEF TypeOK
  <2> HIDE DEF n, bad
  <2>2. cur' = cur \/ cur' = [cur EXCEPT ![w] = 1]
    BY <1>6 DEF Return
  <2>3. handled' = handled \/ handled' = [handled EXCEPT ![w] = n]
    BY <1>6 DEF Return, n
  <2>4. spoiled' = spoiled \/ spoiled' = [spoiled EXCEPT ![w] = bad]
    BY <1>6 DEF Return, bad
  <2>5. cur' \in [Workers -> Shards]
    BY <2>2, Numbers DEF TypeOK
  <2>10. handled' \in [Workers -> Nat]
    BY <2>1, <2>3 DEF TypeOK
  <2>6. spoiled' \in [Workers -> BOOLEAN]
    <3>1. spoiled \in [Workers -> BOOLEAN]
      BY DEF TypeOK
    <3>2. [spoiled EXCEPT ![w] = bad] \in [Workers -> BOOLEAN]
      BY <2>1, <3>1, Zenon
    <3> QED
      BY <2>4, <3>1, <3>2
  <2>7. \E place \in Places : Goto(w, place)
    BY <1>6 DEF Return, Places, Gone
  <2>8. pc' \in [Workers -> Places]
    BY <2>7, GotoType
  <2>9. /\ tok' \in [Workers -> 0..MaxAttempts]
        /\ verdict' \in [Workers -> {"none", "done", "superseded", "lost", "failed"}]
    BY <1>6, Numbers DEF Return, End, TypeOK
  <2> QED
    BY <1>6, <2>5, <2>6, <2>8, <2>9, <2>10 DEF Return, TypeOK, claims, verdicts, retry, budget
<1>7. CASE Poll(w)
  <2>1. \E place \in Places : Goto(w, place)
    BY <1>7 DEF Poll, Places, Gone
  <2>2. pc' \in [Workers -> Places]
    BY <2>1, GotoType
  <2>3. cur' \in [Workers -> Shards]
    BY <1>7, Numbers DEF Poll, TypeOK
  <2> QED
    BY <1>7, <2>2, <2>3 DEF Poll, TypeOK, claims, verdicts, results, retry, budget
<1> QED
  BY <1>1, <1>2, <1>3, <1>4, <1>5, <1>6, <1>7

(* The half in which it has an attempt.                                    *)
LEMMA TypeProcessing ==
    ASSUME TypeOK, NEW w \in Workers,
           \/ Claim(w) \/ Register(w) \/ Begin(w) \/ WriteBack(w) \/ Run(w)
           \/ Vanished(w) \/ Publish(w) \/ Link(w) \/ Unlink(w) \/ PublishLost(w)
           \/ Finish(w) \/ Fail(w) \/ CountFailures(w) \/ Release(w) \/ GiveUp(w)
           \/ ReleaseLost(w),
           pc[w] \in Processing => tok[w] \in 1..Len(attempts)
    PROVE  TypeOK'
<1>0. pc' \in [Workers -> Places]
  <2>1. \E place \in Places : Goto(w, place)
    BY DEF Claim, Register, Begin, WriteBack, Run, Vanished, Publish, Link, Unlink,
       PublishLost, Finish, Fail, CountFailures, Release, GiveUp, ReleaseLost,
       Places, Gone, Processing, Critical
  <2> QED
    BY <2>1, GotoType
<1>1. CASE Claim(w)
  <2>1. [shard |-> cur[w], status |-> "none", kept |-> TRUE] \in Attempt
    BY DEF Attempt, Status, TypeOK
  <2>2. attempts' \in Seq(Attempt) /\ Len(attempts') = Len(attempts) + 1
    BY <1>1, <2>1, AppendProperties DEF Claim, TypeOK
  <2>3. Len(attempts) + 1 \in 0..MaxAttempts
    BY <1>1, Numbers, LenProperties DEF Claim, TypeOK
  <2>4. lock' \in [Shards -> 0..MaxAttempts] /\ tok' \in [Workers -> 0..MaxAttempts]
    BY <1>1, <2>3 DEF Claim, TypeOK
  <2> QED
    BY <1>0, <1>1, <2>2, <2>3, <2>4 DEF Claim, TypeOK, verdicts, results, retry, budget
<1>2. CASE Register(w) \/ Fail(w)
  <2>1. attempts' \in Seq(Attempt) /\ Len(attempts') = Len(attempts)
    BY <1>2, SetStatusType DEF Register, Fail, TypeOK, Status
  <2>2. blamed' \subseteq 1..MaxAttempts
    <3>1. tok[w] \in 1..Len(attempts)
      BY <1>2 DEF Register, Fail, Processing
    <3>2. tok[w] \in 1..MaxAttempts
      BY <3>1, Numbers, LenProperties DEF TypeOK
    <3> QED
      BY <1>2, <3>2 DEF Register, Fail, TypeOK, budget
  <2> QED
    BY <1>0, <1>2, <2>1, <2>2 DEF Register, Fail, TypeOK, claims, verdicts, results, retry,
       budget
<1>3. CASE Begin(w)
  <2>1. tok[w] \in 1..Len(attempts)
    BY <1>3 DEF Begin, Processing
  <2>4. attempts[tok[w]] \in Attempt
    BY <2>1, ElementOfSeq DEF TypeOK
  <2>2. attempts[tok[w]].status \in Status
    BY <2>4 DEF Attempt
  <2>3. seen' \in [Workers -> Status]
    BY <1>3, <2>2 DEF Begin, TypeOK
  <2> QED
    BY <1>0, <1>3, <2>3 DEF Begin, TypeOK, claims, verdicts, retry, budget
<1>4. CASE WriteBack(w)
  <2>1. attempts' \in Seq(Attempt) /\ Len(attempts') = Len(attempts)
    BY <1>4, SetStatusType DEF WriteBack, TypeOK
  <2>2. "none" \in Status /\ seen \in [Workers -> Status]
    BY DEF TypeOK, Status
  <2>3. seen' \in [Workers -> Status]
    BY <1>4, <2>2 DEF WriteBack
  <2> QED
    BY <1>0, <1>4, <2>1, <2>3 DEF WriteBack, TypeOK, claims, verdicts, retry, budget
<1>5. CASE Run(w) \/ Vanished(w)
  <2>1. tok' = tok \/ tok' = [tok EXCEPT ![w] = 0]
    BY <1>5 DEF Run, Vanished
  <2>2. tok' \in [Workers -> 0..MaxAttempts]
    BY <2>1, Numbers DEF TypeOK
  <2> QED
    BY <1>0, <1>5, <2>2 DEF Run, Vanished, TypeOK, claims, verdicts, results, retry,
       budget
<1>6. CASE Publish(w) \/ Link(w) \/ Unlink(w)
  <2>1. /\ lock' = lock \/ lock' = [lock EXCEPT ![cur[w]] = 0]
        /\ old' = old \/ old' = [old EXCEPT ![cur[w]] = FALSE]
        /\ \E h \in Workers \cup {None} : flock' = flock \/ flock' = [flock EXCEPT ![cur[w]] = h]
    BY <1>6 DEF Publish, Link, Unlink, Unclaim, claims
  <2>4. lock' \in [Shards -> 0..MaxAttempts]
    BY <2>1, Numbers DEF TypeOK
  <2>5. old' \in [Shards -> BOOLEAN]
    BY <2>1, Zenon DEF TypeOK
  <2>6. flock' \in [Shards -> Workers \cup {None}]
    BY <2>1 DEF TypeOK
  <2>2. done' \in [Shards -> 0..MaxAttempts]
    BY <1>6 DEF Publish, Link, Unlink, TypeOK, verdicts
  <2>3. verdict' \in [Workers -> {"none", "done", "superseded", "lost", "failed"}]
    BY <1>6 DEF Publish, Link, Unlink, End, TypeOK, results
  <2> QED
    BY <1>0, <1>6, <2>2, <2>3, <2>4, <2>5, <2>6 DEF Publish, Link, Unlink, TypeOK, verdicts, results,
       retry, budget
<1>7. CASE PublishLost(w) \/ ReleaseLost(w)
  <2>1. tok' \in [Workers -> 0..MaxAttempts]
    BY <1>7, Numbers DEF PublishLost, ReleaseLost, TypeOK
  <2>2. tally' \in [Workers -> Nat]
    <3>1. tally' = tally \/ tally' = [tally EXCEPT ![w] = 0]
      BY <1>7 DEF PublishLost, ReleaseLost
    <3>2. tally \in [Workers -> Nat] /\ 0 \in Nat
      BY DEF TypeOK
    <3> QED
      BY <3>1, <3>2
  <2>3. verdict' \in [Workers -> {"none", "done", "superseded", "lost", "failed"}]
    BY <1>7 DEF PublishLost, ReleaseLost, End, TypeOK
  <2> QED
    BY <1>0, <1>7, <2>1, <2>2, <2>3 DEF PublishLost, ReleaseLost, TypeOK, claims,
       verdicts, retry, budget
<1>8. CASE Finish(w)
  <2> DEFINE st == IF verdict[w] = "lost" /\ attempts[tok[w]].status = "stale"
                   THEN "stale" ELSE verdict[w]
  <2>1. st \in Status
    BY DEF TypeOK, Status
  <2>2. SetStatus(tok[w], st)
    BY <1>8 DEF Finish
  <2> HIDE DEF st
  <2>3. attempts' \in Seq(Attempt) /\ Len(attempts') = Len(attempts)
    BY <2>1, <2>2, SetStatusType DEF TypeOK
  <2> QED
    BY <1>0, <1>8, <2>3 DEF Finish, TypeOK, claims, verdicts, results, retry, budget
<1>9. CASE CountFailures(w)
  BY <1>0, <1>9, FailuresType DEF CountFailures, TypeOK, claims, verdicts, retry, budget
<1>10. CASE Release(w) \/ GiveUp(w)
  <2>1. flock' \in [Shards -> Workers \cup {None}]
    BY <1>10 DEF Release, GiveUp, TypeOK, claims
  <2>2. failed' \in [Shards -> BOOLEAN]
    BY <1>10 DEF Release, GiveUp, TypeOK, verdicts
  <2>3. tally' \in [Workers -> Nat]
    BY <1>10 DEF Release, GiveUp, TypeOK, results
  <2>4. verdict' \in [Workers -> {"none", "done", "superseded", "lost", "failed"}]
    BY <1>10 DEF Release, GiveUp, End, TypeOK, results
  <2> QED
    BY <1>0, <1>10, <2>1, <2>2, <2>3, <2>4 DEF Release, GiveUp, TypeOK, claims, verdicts,
       results, retry, budget
<1> QED
  BY <1>1, <1>2, <1>3, <1>4, <1>5, <1>6, <1>7, <1>8, <1>9, <1>10

(* What is not a step of a worker's program.                               *)
LEMMA TypeEnvironment ==
    ASSUME TypeOK,
           \/ \E w \in Workers : Crash(w) \/ Launch(w)
           \/ \E s \in Shards : Expire(s) \/ ArchiveVerdict(s) \/ ArchiveAttempts(s)
           \/ \E S \in SUBSET Shards : Requeue(S)
           \/ KillRequeue
    PROVE  TypeOK' /\ Len(attempts') = Len(attempts)
<1>1. ASSUME NEW w \in Workers, Crash(w)
      PROVE  TypeOK' /\ Len(attempts') = Len(attempts)
  <2>1. pc' \in [Workers -> Places]
    BY <1>1, GotoType DEF Crash, Places, Gone
  <2>2. flock' \in [Shards -> Workers \cup {None}]
    BY <1>1 DEF Crash, TypeOK
  <2>3. tok' \in [Workers -> 0..MaxAttempts] /\ tally' \in [Workers -> Nat]
    BY <1>1, Numbers DEF Crash, TypeOK
  <2>4. verdict' \in [Workers -> {"none", "done", "superseded", "lost", "failed"}]
    BY <1>1 DEF Crash, End, TypeOK
  <2>5. seen' \in [Workers -> Status]
    <3>1. "none" \in Status /\ seen \in [Workers -> Status]
      BY DEF TypeOK, Status
    <3> QED
      BY <1>1, <3>1 DEF Crash
  <2>6. /\ UNCHANGED <<lock, old, done, failed, attempts, cur, handled, spoiled, moving,
                        archiving, launches, requeues, blamed>>
        /\ crashes' = crashes + 1
    BY <1>1 DEF Crash, verdicts, retry
  <2>7. crashes' \in Nat
    BY <2>6 DEF TypeOK
  <2>8. attempts' = attempts /\ Len(attempts') = Len(attempts)
    BY <2>6
  <2> QED
    BY <2>1, <2>2, <2>3, <2>4, <2>5, <2>6, <2>7, <2>8, Zenon DEF TypeOK
<1>2. ASSUME NEW w \in Workers, Launch(w)
      PROVE  TypeOK' /\ Len(attempts') = Len(attempts)
  <2>1. pc' \in [Workers -> Places]
    BY <1>2, GotoType DEF Launch, Places
  <2>2. cur' \in [Workers -> Shards] /\ handled' \in [Workers -> Nat]
    BY <1>2, Numbers DEF Launch, TypeOK
  <2>3. spoiled' \in [Workers -> BOOLEAN]
    BY <1>2, Zenon DEF Launch, TypeOK
  <2>4. verdict' \in [Workers -> {"none", "done", "superseded", "lost", "failed"}]
    BY <1>2 DEF Launch, End, TypeOK
  <2>5. /\ UNCHANGED <<lock, old, flock, done, failed, attempts, tok, seen, tally, moving,
                        archiving, crashes, requeues, blamed>>
        /\ launches' = launches + 1
    BY <1>2 DEF Launch, claims, verdicts, retry
  <2>6. launches' \in Nat
    BY <2>5 DEF TypeOK
  <2>7. attempts' = attempts /\ Len(attempts') = Len(attempts)
    BY <2>5
  <2> QED
    BY <2>1, <2>2, <2>3, <2>4, <2>5, <2>6, <2>7, Zenon DEF TypeOK
<1>3. ASSUME NEW s \in Shards, Expire(s)
      PROVE  TypeOK' /\ Len(attempts') = Len(attempts)
  BY <1>3 DEF Expire, TypeOK, verdicts, results, retry, budget
<1>4. ASSUME NEW s \in Shards, ArchiveVerdict(s)
      PROVE  TypeOK' /\ Len(attempts') = Len(attempts)
  BY <1>4 DEF ArchiveVerdict, TypeOK, claims, results, budget
<1>5. ASSUME NEW s \in Shards, ArchiveAttempts(s)
      PROVE  TypeOK' /\ Len(attempts') = Len(attempts)
  <2> DEFINE archived(t) == IF attempts[t].shard = s
                            THEN [attempts[t] EXCEPT !.kept = FALSE] ELSE attempts[t]
  <2>1. Len(attempts) \in Nat /\ DOMAIN attempts = 1..Len(attempts)
    BY LenProperties DEF TypeOK
  <2>2. \A t \in 1..Len(attempts) : attempts[t] \in Attempt
    BY ElementOfSeq DEF TypeOK
  <2>3. \A t \in 1..Len(attempts) : archived(t) \in Attempt
    BY <2>2 DEF Attempt
  <2>4. attempts' = [t \in 1..Len(attempts) |-> archived(t)]
    BY <1>5, <2>1 DEF ArchiveAttempts
  <2>5. attempts' \in [1..Len(attempts) -> Attempt]
    BY <2>3, <2>4
  <2>6. attempts' \in Seq(Attempt) /\ Len(attempts') = Len(attempts)
    BY <2>1, <2>5
  <2>7. moving' \subseteq Shards /\ archiving' \in BOOLEAN
    BY <1>5 DEF ArchiveAttempts, TypeOK
  <2> QED
    BY <1>5, <2>6, <2>7 DEF ArchiveAttempts, TypeOK, claims, verdicts, results, budget
<1>6. ASSUME NEW S \in SUBSET Shards, Requeue(S)
      PROVE  TypeOK' /\ Len(attempts') = Len(attempts)
  BY <1>6 DEF Requeue, TypeOK, claims, verdicts, results
<1>7. CASE KillRequeue
  <2>1. moving' \subseteq Shards /\ archiving' \in BOOLEAN
    BY <1>7 DEF KillRequeue
  <2>2. crashes' \in Nat
    BY <1>7 DEF KillRequeue, TypeOK
  <2> QED
    BY <1>7, <2>1, <2>2 DEF KillRequeue, TypeOK, claims, verdicts, results
<1> QED
  BY <1>1, <1>2, <1>3, <1>4, <1>5, <1>6, <1>7

-----------------------------------------------------------------------------
(* Claims.  A worker has an attempt exactly while it is in Holding, and no *)
(* two workers have the same one; a worker in a critical section holds the *)
(* flock, so that the claim it looked at there is still the same.          *)

Holding == Processing \cup {"unlink", "finish", "return"}

Tokens ==
    /\ \A s \in Shards : lock[s] <= Len(attempts)
    /\ \A w \in Workers : tok[w] <= Len(attempts)
    /\ \A w \in Workers : pc[w] \in Holding <=> tok[w] # 0
    /\ \A w, v \in Workers : tok[w] = tok[v] /\ tok[w] # 0 => w = v

Flocks ==
    /\ \A w \in Workers : pc[w] \in Critical => flock[cur[w]] = w
    /\ \A w \in Workers :
          pc[w] \in {"link", "giveup", "unlink"} => lock[cur[w]] = tok[w]
    /\ \A w \in Workers :
          pc[w] \in {"mark", "drop"} => lock[cur[w]] # 0 /\ old[cur[w]]

IInv == TypeOK /\ Tokens /\ Flocks

LEMMA IInvInit == Init => IInv
<1> SUFFICES ASSUME Init PROVE IInv
  OBVIOUS
<1>1. TypeOK
  <2>1. << >> \in Seq(Attempt) /\ Len(<< >>) = 0
    OBVIOUS
  <2>2. "look" \in Places /\ "none" \in Status
    BY DEF Places, Status
  <2>3. /\ old \in [Shards -> BOOLEAN] /\ failed \in [Shards -> BOOLEAN]
        /\ spoiled \in [Workers -> BOOLEAN]
    BY DEF Init
  <2>4. /\ pc \in [Workers -> Places] /\ cur \in [Workers -> Shards]
        /\ seen \in [Workers -> Status]
        /\ lock \in [Shards -> 0..MaxAttempts] /\ done \in [Shards -> 0..MaxAttempts]
        /\ tok \in [Workers -> 0..MaxAttempts]
    BY <2>2, Numbers DEF Init
  <2>5. /\ flock \in [Shards -> Workers \cup {None}]
        /\ tally \in [Workers -> Nat] /\ handled \in [Workers -> Nat]
    BY DEF Init
  <2>6. verdict \in [Workers -> {"none", "done", "superseded", "lost", "failed"}]
    BY DEF Init
  <2>7. attempts \in Seq(Attempt) /\ Len(attempts) <= MaxAttempts
    BY <2>1, Numbers DEF Init
  <2>8. moving \subseteq Shards /\ archiving \in BOOLEAN
    BY DEF Init
  <2>9. /\ crashes \in Nat /\ launches \in Nat /\ requeues \in Nat
        /\ blamed \subseteq 1..MaxAttempts
    BY DEF Init
  <2> QED
    BY <2>3, <2>4, <2>5, <2>6, <2>7, <2>8, <2>9 DEF TypeOK
<1>2. Tokens /\ Flocks
  BY Numbers DEF Init, Tokens, Flocks, Holding, Processing, Critical
<1> QED
  BY <1>1, <1>2 DEF IInv

(* A step of worker w that neither claims, releases nor locks anything.    *)
LEMMA QuietStep ==
    ASSUME IInv, NEW w \in Workers, NEW place \in Places,
           UNCHANGED <<claims, tok>>, Len(attempts') = Len(attempts),
           pc' = [pc EXCEPT ![w] = place], place \notin Critical,
           place \in Holding <=> pc[w] \in Holding,
           \A v \in Workers : v # w => cur'[v] = cur[v]
    PROVE  Tokens' /\ Flocks'
<1>1. \A v \in Workers : pc'[v] = IF v = w THEN place ELSE pc[v]
  BY DEF IInv, TypeOK
<1>2. Tokens'
  BY <1>1 DEF IInv, Tokens, claims
<1>3. Flocks'
  <2>1. place \notin {"link", "giveup", "unlink", "mark", "drop"}
    BY DEF Critical
  <2> QED
    BY <1>1, <2>1 DEF IInv, Flocks, claims
<1> QED
  BY <1>2, <1>3

(* A step that ends worker w's business with its attempt.                  *)
LEMMA ForgetStep ==
    ASSUME IInv, NEW w \in Workers, NEW place \in Places,
           UNCHANGED <<lock, old>>, Len(attempts') = Len(attempts),
           \A s \in Shards : flock[s] # w => flock'[s] = flock[s],
           tok' = [tok EXCEPT ![w] = 0],
           pc' = [pc EXCEPT ![w] = place], place \notin Critical \cup Holding,
           \A v \in Workers : v # w => cur'[v] = cur[v]
    PROVE  Tokens' /\ Flocks'
<1>1. \A v \in Workers : /\ pc'[v] = IF v = w THEN place ELSE pc[v]
                         /\ tok'[v] = IF v = w THEN 0 ELSE tok[v]
                         /\ cur[v] \in Shards
  BY DEF IInv, TypeOK
<1>2. Len(attempts) \in Nat
  BY LenProperties DEF IInv, TypeOK
<1>3. Tokens'
  BY <1>1, <1>2 DEF IInv, Tokens
<1>4. Flocks'
  <2>1. place \notin {"link", "giveup", "unlink", "mark", "drop"}
    BY DEF Critical
  <2> QED
    BY <1>1, <2>1 DEF IInv, Flocks
<1> QED
  BY <1>3, <1>4

LEMMA IInvQuiet ==
    ASSUME IInv, NEW w \in Workers,
           \/ Look(w) \/ NoLock(w) \/ Leave(w) \/ Recheck(w) \/ CheckRetries(w)
           \/ Refuse(w) \/ LoseClaim(w) \/ Register(w) \/ Begin(w) \/ WriteBack(w)
           \/ Run(w) \/ Finish(w) \/ Fail(w) \/ CountFailures(w) \/ ReleaseLost(w)
           \/ Poll(w) \/ Launch(w)
    PROVE  Tokens' /\ Flocks'
<1>1. UNCHANGED <<claims, tok>>
  BY DEF Look, NoLock, Leave, Recheck, CheckRetries, Refuse, LoseClaim, Register, Begin,
     WriteBack, Run, Finish, Fail, CountFailures, ReleaseLost, Poll, Launch
<1>2. Len(attempts') = Len(attempts)
  <2>1. attempts \in Seq(Attempt) /\ seen[w] \in Status /\ verdict[w] \in Status
    BY DEF IInv, TypeOK, Status
  <2>2. \/ attempts' = attempts
        \/ \E t \in Nat, st \in Status : SetStatus(t, st)
    BY <2>1 DEF Look, NoLock, Leave, Recheck, CheckRetries, Refuse, LoseClaim, Register,
       Begin, WriteBack, Run, Finish, Fail, CountFailures, ReleaseLost, Poll, Launch,
       IInv, TypeOK, Status
  <2> QED
    BY <2>1, <2>2, SetStatusType
<1>3. \A v \in Workers : v # w => cur'[v] = cur[v]
  <2>1. cur' = cur \/ \E s : cur' = [cur EXCEPT ![w] = s]
    BY DEF Look, NoLock, Leave, Recheck, CheckRetries, Refuse, LoseClaim, Register,
       Begin, WriteBack, Run, Finish, Fail, CountFailures, ReleaseLost, Poll, Launch,
       NextShard
  <2> QED
    BY <2>1 DEF IInv, TypeOK
<1>4. PICK place : /\ pc' = [pc EXCEPT ![w] = place]
                   /\ place \in Places \ Critical
                   /\ place \in Holding <=> pc[w] \in Holding
  <2> USE DEF Goto, Places, Critical, Holding, Processing, Gone
  <2>1. CASE Look(w) \/ Leave(w) \/ Recheck(w) \/ LoseClaim(w) \/ Refuse(w)
    BY <2>1 DEF Look, Leave, Recheck, LoseClaim, Refuse, NextShard
  <2>2. CASE NoLock(w) \/ CheckRetries(w) \/ Poll(w) \/ Launch(w)
    BY <2>2 DEF NoLock, CheckRetries, Poll, Launch
  <2>3. CASE Register(w) \/ Begin(w) \/ WriteBack(w) \/ Run(w)
    BY <2>3 DEF Register, Begin, WriteBack, Run
  <2>4. CASE Finish(w) \/ Fail(w) \/ CountFailures(w) \/ ReleaseLost(w)
    BY <2>4 DEF Finish, Fail, CountFailures, ReleaseLost
  <2> QED
    BY <2>1, <2>2, <2>3, <2>4
<1> QED
  BY <1>1, <1>2, <1>3, <1>4, QuietStep

LEMMA IInvForget ==
    ASSUME IInv, NEW w \in Workers,
           Vanished(w) \/ PublishLost(w) \/ Return(w) \/ Crash(w)
    PROVE  Tokens' /\ Flocks'
<1>1. UNCHANGED <<lock, old>> /\ Len(attempts') = Len(attempts)
  BY DEF Vanished, PublishLost, Return, Crash, claims
<1>2. \A s \in Shards : flock[s] # w => flock'[s] = flock[s]
  BY DEF Vanished, PublishLost, Return, Crash, claims
<1>3. \A v \in Workers : v # w => cur'[v] = cur[v]
  BY DEF Vanished, PublishLost, Return, Crash, IInv, TypeOK
<1>4. CASE PublishLost(w) /\ attempts[tok[w]].kept
  <2>1. UNCHANGED <<claims, tok>> /\ pc' = [pc EXCEPT ![w] = "finish"]
    BY <1>4 DEF PublishLost, Goto
  <2>2. /\ "finish" \in Places \ Critical
        /\ "finish" \in Holding <=> pc[w] \in Holding
    BY <1>4 DEF PublishLost, Places, Critical, Holding, Processing
  <2> QED
    BY <1>1, <1>3, <2>1, <2>2, QuietStep
<1>5. CASE ~(PublishLost(w) /\ attempts[tok[w]].kept)
  <2>1. tok' = [tok EXCEPT ![w] = 0]
    BY <1>5 DEF Vanished, PublishLost, Return, Crash
  <2>2. \E place \in Places \ (Critical \cup Holding) : pc' = [pc EXCEPT ![w] = place]
    BY <1>5 DEF Vanished, PublishLost, Return, Crash, Goto, Places, Critical, Holding,
       Processing, Gone
  <2> QED
    BY <1>1, <1>2, <1>3, <2>1, <2>2, ForgetStep
<1> QED
  BY <1>4, <1>5

(* Taking the flock.                                                       *)
LEMMA IInvFlock ==
    ASSUME IInv, NEW w \in Workers, TakeOver(w) \/ Publish(w) \/ Release(w)
    PROVE  Tokens' /\ Flocks'
<1>1. /\ UNCHANGED <<lock, old, tok, cur, attempts>>
      /\ flock[cur[w]] = None /\ flock' = [flock EXCEPT ![cur[w]] = w]
  BY DEF TakeOver, Publish, Release
<1>2. PICK place :
         /\ pc' = [pc EXCEPT ![w] = place] /\ pc[w] \notin Critical
         /\ place \in Holding <=> pc[w] \in Holding
         /\ \/ place \in {"link", "giveup", "unlink"} /\ lock[cur[w]] = tok[w]
            \/ place = "mark" /\ lock[cur[w]] # 0 /\ old[cur[w]]
  BY DEF TakeOver, Publish, Release, Owns, Goto, Critical, Holding, Processing
<1>3. \A v \in Workers : /\ pc'[v] = IF v = w THEN place ELSE pc[v]
                         /\ cur[v] \in Shards
  BY <1>2 DEF IInv, TypeOK
<1>4. \A s \in Shards : flock'[s] = IF s = cur[w] THEN w ELSE flock[s]
  BY <1>1 DEF IInv, TypeOK
<1>5. Tokens'
  BY <1>1, <1>2, <1>3 DEF IInv, Tokens
<1>6. Flocks'
  <2>1. \A v \in Workers : v # w /\ pc[v] \in Critical => cur[v] # cur[w]
    BY <1>1, <1>3, WorkersAssumption DEF IInv, Flocks
  <2> QED
    BY <1>1, <1>2, <1>3, <1>4, <2>1 DEF IInv, Flocks
<1> QED
  BY <1>5, <1>6

(* Going on with it.                                                       *)
LEMMA IInvCritical ==
    ASSUME IInv, NEW w \in Workers, Mark(w) \/ Link(w) \/ GiveUp(w)
    PROVE  Tokens' /\ Flocks'
<1>1. UNCHANGED <<claims, tok, cur>>
  BY DEF Mark, Link, GiveUp
<1>2. Len(attempts') = Len(attempts)
  <2>1. attempts \in Seq(Attempt) /\ "stale" \in Status
    BY DEF IInv, TypeOK, Status
  <2>2. attempts' = attempts \/ \E t : SetStatus(t, "stale")
    BY DEF Mark, Link, GiveUp
  <2> QED
    BY <2>1, <2>2, SetStatusType
<1>3. \/ pc[w] = "mark" /\ pc' = [pc EXCEPT ![w] = "drop"]
      \/ pc[w] \in {"link", "giveup"} /\ pc' = [pc EXCEPT ![w] = "unlink"]
  BY DEF Mark, Link, GiveUp, Goto
<1>4. \A v \in Workers : v # w => pc'[v] = pc[v]
  BY <1>3 DEF IInv, TypeOK
<1>5. \/ pc[w] = "mark" /\ pc'[w] = "drop"
      \/ pc[w] \in {"link", "giveup"} /\ pc'[w] = "unlink"
  BY <1>3 DEF IInv, TypeOK
<1>6. Tokens'
  BY <1>1, <1>2, <1>4, <1>5 DEF IInv, Tokens, claims, Holding, Processing
<1>7. Flocks'
  BY <1>1, <1>4, <1>5 DEF IInv, Flocks, claims, Critical
<1> QED
  BY <1>6, <1>7

(* The claim goes, and with it the flock, which no one else can hold.      *)
LEMMA IInvUnclaim ==
    ASSUME IInv, NEW w \in Workers, Drop(w) \/ Unlink(w)
    PROVE  Tokens' /\ Flocks'
<1>1. /\ Unclaim(cur[w]) /\ UNCHANGED <<tok, cur, attempts>>
      /\ pc[w] \in {"drop", "unlink"}
  BY DEF Drop, Unlink
<1>2. \E place \in Places \ Critical :
         /\ pc' = [pc EXCEPT ![w] = place]
         /\ place \in Holding <=> pc[w] \in Holding
  BY DEF Drop, Unlink, Goto, Places, Critical, Holding, Processing, Gone
<1>3. PICK place \in Places \ Critical :
         /\ pc' = [pc EXCEPT ![w] = place]
         /\ place \in Holding <=> pc[w] \in Holding
  BY <1>2
<1>4. \A v \in Workers : /\ pc'[v] = IF v = w THEN place ELSE pc[v]
                         /\ cur[v] \in Shards
  BY <1>3 DEF IInv, TypeOK
<1>5. \A s \in Shards : /\ lock'[s] = IF s = cur[w] THEN 0 ELSE lock[s]
                        /\ s # cur[w] => flock'[s] = flock[s] /\ old'[s] = old[s]
  BY <1>1 DEF Unclaim, IInv, TypeOK
<1>6. Len(attempts) \in Nat
  BY LenProperties DEF IInv, TypeOK
<1>7. Tokens'
  BY <1>1, <1>3, <1>4, <1>5, <1>6 DEF IInv, Tokens
<1>8. Flocks'
  <2>1. place \notin {"link", "giveup", "unlink", "mark", "drop"}
    BY DEF Critical
  <2>2. \A v \in Workers : v # w /\ pc[v] \in Critical => cur[v] # cur[w]
    BY <1>1 DEF IInv, Flocks, Critical
  <2>3. {"link", "giveup", "unlink", "mark", "drop"} \subseteq Critical
    BY DEF Critical
  <2> QED
    BY <1>1, <1>3, <1>4, <1>5, <2>1, <2>2, <2>3 DEF IInv, Flocks
<1> QED
  BY <1>7, <1>8

(* The token of a new attempt is new.                                      *)
LEMMA IInvClaim ==
    ASSUME IInv, NEW w \in Workers, Claim(w)
    PROVE  Tokens' /\ Flocks'
<1> DEFINE n == Len(attempts) + 1
<1>1. n \in Nat /\ n > 0 /\ Len(attempts) = n - 1
  BY LenProperties DEF IInv, TypeOK
<1>2. Len(attempts') = n
  <2>1. [shard |-> cur[w], status |-> "none", kept |-> TRUE] \in Attempt
    BY DEF IInv, TypeOK, Attempt, Status
  <2> QED
    BY <2>1, AppendProperties DEF Claim, IInv, TypeOK
<1> HIDE DEF n
<1>3. \A v \in Workers : /\ pc'[v] = IF v = w THEN "register" ELSE pc[v]
                         /\ tok'[v] = IF v = w THEN n ELSE tok[v]
                         /\ cur[v] \in Shards /\ tok[v] \in Nat
  BY Numbers DEF Claim, Goto, IInv, TypeOK, n
<1>4. \A s \in Shards : /\ lock'[s] = IF s = cur[w] THEN n ELSE lock[s]
                        /\ lock[s] \in Nat
  BY Numbers DEF Claim, IInv, TypeOK, n
<1>5. Tokens'
  <2>1. "register" \in Holding
    BY DEF Holding, Processing
  <2> QED
    BY <1>1, <1>2, <1>3, <1>4, <2>1 DEF IInv, Tokens
<1>6. Flocks'
  <2>1. \A v \in Workers : pc[v] \in {"link", "giveup", "unlink"} =>
                             lock[cur[v]] # 0
    BY DEF IInv, Flocks, Tokens, Holding, Processing
  <2>2. "register" \notin Critical \cup {"link", "giveup", "unlink", "mark", "drop"}
    BY DEF Critical
  <2>3. UNCHANGED <<flock, old, cur>> /\ lock[cur[w]] = 0
    BY DEF Claim
  <2> QED
    BY <1>3, <1>4, <2>1, <2>2, <2>3 DEF IInv, Flocks
<1> QED
  BY <1>5, <1>6

(* Clocks and the retry command do not touch claims.                       *)
LEMMA IInvEnvironment ==
    ASSUME IInv, TypeOK', Len(attempts') = Len(attempts),
           \/ \E s \in Shards : Expire(s) \/ ArchiveVerdict(s) \/ ArchiveAttempts(s)
           \/ \E S \in SUBSET Shards : Requeue(S)
           \/ KillRequeue
    PROVE  Tokens' /\ Flocks'
<1>1. UNCHANGED <<lock, flock, pc, cur, tok>>
  BY DEF Expire, ArchiveVerdict, ArchiveAttempts, Requeue, KillRequeue, claims
<1>2. \A s \in Shards : old[s] => old'[s]
  BY DEF Expire, ArchiveVerdict, ArchiveAttempts, Requeue, KillRequeue, claims, IInv,
     TypeOK
<1>3. Tokens'
  BY <1>1 DEF IInv, Tokens
<1>4. Flocks'
  BY <1>1, <1>2 DEF IInv, Flocks, TypeOK
<1> QED
  BY <1>3, <1>4

LEMMA IInvNext == IInv /\ [Next]_vars => IInv'
<1> SUFFICES ASSUME IInv, [Next]_vars PROVE IInv'
  OBVIOUS
<1>1. ASSUME NEW w \in Workers, WorkerStep(w)
      PROVE  IInv'
  <2>1. pc[w] \in Processing => tok[w] \in 1..Len(attempts)
    <3>1. tok[w] \in Nat /\ Len(attempts) \in Nat
      BY Numbers, LenProperties DEF IInv, TypeOK
    <3> QED
      BY <3>1 DEF IInv, Tokens, Holding
  <2>4. pc[w] = "mark" => lock[cur[w]] # 0
    BY DEF IInv, Flocks
  <2>2. TypeOK'
    BY <1>1, <2>1, <2>4, TypeClaiming, TypeProcessing DEF WorkerStep, IInv
  <2>3. Tokens' /\ Flocks'
    BY <1>1, IInvQuiet, IInvForget, IInvFlock, IInvCritical, IInvUnclaim, IInvClaim
       DEF WorkerStep
  <2> QED
    BY <2>2, <2>3 DEF IInv
<1>2. ASSUME NEW w \in Workers, Crash(w) \/ Launch(w)
      PROVE  IInv'
  <2>1. TypeOK'
    BY <1>2, TypeEnvironment DEF IInv
  <2> QED
    BY <1>2, <2>1, IInvQuiet, IInvForget DEF IInv
<1>3. ASSUME \/ \E s \in Shards : Expire(s) \/ ArchiveVerdict(s) \/ ArchiveAttempts(s)
             \/ \E S \in SUBSET Shards : Requeue(S)
             \/ KillRequeue
      PROVE  IInv'
  <2>1. TypeOK' /\ Len(attempts') = Len(attempts)
    BY <1>3, TypeEnvironment DEF IInv
  <2> QED
    BY <1>3, <2>1, IInvEnvironment DEF IInv
<1>4. CASE UNCHANGED vars
  <2>1. TypeOK'
    BY <1>4 DEF vars, IInv, TypeOK
  <2>2. Tokens' /\ Flocks'
    BY <1>4 DEF vars, IInv, Tokens, Flocks
  <2> QED
    BY <2>1, <2>2 DEF IInv
<1> QED
  BY <1>1, <1>2, <1>3, <1>4 DEF Next, RequeueStep

LEMMA Inductive == Spec => []IInv
BY IInvInit, IInvNext, PTL DEF Spec

(* Every variable keeps its type, for any number of workers, shards,       *)
(* retries, attempts and kills.                                            *)
THEOREM TypeCorrect == Spec => []TypeOK
<1>1. IInv => TypeOK
  BY DEF IInv
<1> QED
  BY <1>1, Inductive, PTL

-----------------------------------------------------------------------------
(* Publication.                                                            *)

(* Only Link writes state/done, and Flocks says what the claim file holds  *)
(* then; it needs no assumption on the timeout.                            *)
THEOREM PublicationByOwner == Spec => PublishedByOwner
<1> DEFINE Published == \A s \in Shards :
                          done'[s] # done[s] => done[s] = 0 /\ done'[s] = lock[s]
<1>1. ASSUME IInv, [Next]_vars
      PROVE  [Published]_vars
  <2>1. CASE \E w \in Workers : Link(w)
    <3>1. PICK w \in Workers : Link(w)
      BY <2>1
    <3>2. lock[cur[w]] = tok[w] /\ cur[w] \in Shards
      BY <1>1, <3>1 DEF IInv, Flocks, TypeOK, Link
    <3>3. \/ done' = done
          \/ done[cur[w]] = 0 /\ done' = [done EXCEPT ![cur[w]] = tok[w]]
      BY <3>1 DEF Link
    <3> QED
      BY <1>1, <3>2, <3>3 DEF IInv, TypeOK
  <2>2. CASE ~ \E w \in Workers : Link(w)
    <3>1. ASSUME NEW w \in Workers, WorkerStep(w), ~Link(w)
          PROVE  done' = done
      BY <3>1 DEF WorkerStep, verdicts, Look, NoLock, Leave, TakeOver, Mark, Drop,
         Recheck, CheckRetries, Refuse, Claim, LoseClaim, Register, Begin, WriteBack,
         Run, Vanished, Publish, Unlink, PublishLost, Finish, Fail, CountFailures,
         Release, GiveUp, ReleaseLost, Return, Poll
    <3>2. ASSUME \/ \E w \in Workers : Crash(w) \/ Launch(w)
                 \/ \E s \in Shards : Expire(s)
                 \/ \E S \in SUBSET Shards : Requeue(S)
                 \/ RequeueStep \/ KillRequeue \/ UNCHANGED vars
          PROVE  done' = done
      BY <3>2 DEF vars, verdicts, Crash, Launch, Expire, Requeue, RequeueStep,
         ArchiveVerdict, ArchiveAttempts, KillRequeue
    <3>3. done' = done
      BY <1>1, <2>2, <3>1, <3>2 DEF Next
    <3> QED
      BY <3>3
  <2> QED
    BY <2>1, <2>2
<1> QED
  BY <1>1, Inductive, PTL DEF Spec, PublishedByOwner

-----------------------------------------------------------------------------
(* One owner.  When no live attempt outlasts the timeout, only the claims  *)
(* of attempts that no one runs come of age, so that no worker loses the   *)
(* claim of the attempt it runs.                                           *)

Owner == \A w \in Workers : pc[w] \in Processing => lock[cur[w]] = tok[w]
Young ==
    \A s \in Shards :
        old[s] => lock[s] # 0 /\ \A w \in Workers : tok[w] # lock[s]

LEMMA OwnerInit == Init => Owner /\ Young
BY DEF Init, Owner, Young, Processing

(* Steps that neither create nor remove a claim.                           *)
LEMMA OwnerSame ==
    ASSUME IInv, Owner, Young, UNCHANGED <<lock, old>>,
           \A v \in Workers : tok'[v] \in {tok[v], 0},
           \A v \in Workers : pc'[v] \in Processing =>
               pc[v] \in Processing /\ UNCHANGED <<cur[v], tok[v]>>
    PROVE  Owner' /\ Young'
BY DEF Owner, Young

(* A worker may leave Processing, move on and forget its attempt.          *)
LEMMA OwnerStep ==
    ASSUME IInv, NEW w \in Workers, NEW place,
           pc' = [pc EXCEPT ![w] = place],
           place \in Processing => pc[w] \in Processing /\ UNCHANGED <<tok, cur>>,
           tok' = tok \/ tok' = [tok EXCEPT ![w] = 0],
           cur' = cur \/ \E s : cur' = [cur EXCEPT ![w] = s]
    PROVE  /\ \A v \in Workers : tok'[v] \in {tok[v], 0}
           /\ \A v \in Workers : pc'[v] \in Processing =>
                 pc[v] \in Processing /\ UNCHANGED <<cur[v], tok[v]>>
<1>1. \A v \in Workers : pc'[v] = IF v = w THEN place ELSE pc[v]
  BY DEF IInv, TypeOK
<1>2. \A v \in Workers : tok'[v] \in {tok[v], 0} /\ (v # w => tok'[v] = tok[v])
  BY DEF IInv, TypeOK
<1>3. \A v \in Workers : v # w => cur'[v] = cur[v]
  BY DEF IInv, TypeOK
<1> QED
  BY <1>1, <1>2, <1>3

LEMMA OwnerWorker ==
    ASSUME IInv, Owner, Young, NEW w \in Workers,
           WorkerStep(w) \/ Crash(w) \/ Launch(w),
           ~Claim(w), ~Drop(w), ~Unlink(w)
    PROVE  Owner' /\ Young'
<1>1. UNCHANGED <<lock, old>>
  BY DEF WorkerStep, claims, Look, NoLock, Leave, TakeOver, Mark, Recheck, CheckRetries,
     Refuse, LoseClaim, Register, Begin, WriteBack, Run, Vanished, Publish, Link,
     PublishLost, Finish, Fail, CountFailures, Release, GiveUp, ReleaseLost, Return,
     Poll, Crash, Launch
<1>2. \E place :
         /\ pc' = [pc EXCEPT ![w] = place]
         /\ place \in Processing => pc[w] \in Processing /\ UNCHANGED <<tok, cur>>
         /\ tok' = tok \/ tok' = [tok EXCEPT ![w] = 0]
         /\ cur' = cur \/ \E s : cur' = [cur EXCEPT ![w] = s]
  <2> USE DEF Goto, Processing, Gone
  <2>1. CASE Look(w) \/ Leave(w) \/ Recheck(w) \/ LoseClaim(w) \/ Refuse(w)
    BY <2>1 DEF Look, Leave, Recheck, LoseClaim, Refuse, NextShard
  <2>2. CASE \/ NoLock(w) \/ TakeOver(w) \/ Mark(w) \/ CheckRetries(w)
             \/ Poll(w) \/ Launch(w)
    BY <2>2 DEF NoLock, TakeOver, Mark, CheckRetries, Poll, Launch
  <2>3. CASE Register(w) \/ Begin(w) \/ WriteBack(w) \/ Run(w) \/ Vanished(w)
    BY <2>3 DEF Register, Begin, WriteBack, Run, Vanished
  <2>4. CASE Publish(w) \/ Link(w) \/ PublishLost(w) \/ Finish(w)
    BY <2>4 DEF Publish, Link, PublishLost, Finish
  <2>5. CASE Fail(w) \/ CountFailures(w) \/ Release(w) \/ GiveUp(w) \/ ReleaseLost(w)
    BY <2>5 DEF Fail, CountFailures, Release, GiveUp, ReleaseLost
  <2>6. CASE Return(w) \/ Crash(w)
    BY <2>6 DEF Return, Crash
  <2> QED
    BY <2>1, <2>2, <2>3, <2>4, <2>5, <2>6 DEF WorkerStep
<1> QED
  BY <1>1, <1>2, OwnerStep, OwnerSame

(* The claim is one's own, or that of an attempt that no one runs.         *)
LEMMA OwnerUnclaim ==
    ASSUME IInv, Owner, Young, NEW w \in Workers, Drop(w) \/ Unlink(w)
    PROVE  Owner' /\ Young'
<1>1. /\ Unclaim(cur[w]) /\ UNCHANGED <<tok, cur>>
      /\ pc[w] \in {"drop", "unlink"} /\ cur[w] \in Shards
  BY DEF Drop, Unlink, IInv, TypeOK
<1>2. \A s \in Shards : IF s = cur[w] THEN lock'[s] = 0 /\ ~old'[s]
                        ELSE lock'[s] = lock[s] /\ old'[s] = old[s]
  BY <1>1 DEF Unclaim, IInv, TypeOK
<1>3. \A v \in Workers : v # w => pc'[v] = pc[v]
  BY DEF Drop, Unlink, Goto, IInv, TypeOK
<1>4. pc'[w] \notin Processing
  BY DEF Drop, Unlink, Goto, Processing, IInv, TypeOK
<1>5. \A v \in Workers : v # w /\ pc[v] \in Processing => cur[v] # cur[w]
  <2> SUFFICES ASSUME NEW v \in Workers, v # w, pc[v] \in Processing, cur[v] = cur[w]
               PROVE  FALSE
    OBVIOUS
  <2>1. tok[v] = lock[cur[w]] /\ tok[v] # 0
    BY DEF Owner, IInv, Tokens, Holding
  <2>2. CASE pc[w] = "drop"
    <3>1. old[cur[w]]
      BY <2>2 DEF IInv, Flocks
    <3> QED
      BY <1>1, <2>1, <3>1 DEF Young
  <2>3. CASE pc[w] = "unlink"
    <3>1. lock[cur[w]] = tok[w]
      BY <2>3 DEF IInv, Flocks
    <3> QED
      BY <2>1, <3>1 DEF IInv, Tokens
  <2> QED
    BY <1>1, <2>2, <2>3
<1>6. Owner'
  <2>1. \A v \in Workers : cur[v] \in Shards
    BY DEF IInv, TypeOK
  <2> QED
    BY <1>1, <1>2, <1>3, <1>4, <1>5, <2>1 DEF Owner
<1>7. Young'
  BY <1>1, <1>2 DEF Young
<1> QED
  BY <1>6, <1>7

LEMMA OwnerClaim ==
    ASSUME IInv, Owner, Young, NEW w \in Workers, Claim(w)
    PROVE  Owner' /\ Young'
<1> DEFINE n == Len(attempts) + 1
<1>1. /\ n \in Nat /\ n # 0
      /\ \A s \in Shards : lock[s] \in Nat /\ lock[s] # n
      /\ \A v \in Workers : tok[v] \in Nat /\ tok[v] # n
  BY Numbers, LenProperties DEF IInv, TypeOK, Tokens
<1>2. /\ lock[cur[w]] = 0 /\ lock' = [lock EXCEPT ![cur[w]] = n]
      /\ tok' = [tok EXCEPT ![w] = n] /\ UNCHANGED <<old, cur>>
      /\ pc' = [pc EXCEPT ![w] = "register"] /\ cur[w] \in Shards
  BY DEF Claim, Goto, IInv, TypeOK
<1> HIDE DEF n
<1>3. /\ \A s \in Shards : lock'[s] = IF s = cur[w] THEN n ELSE lock[s]
      /\ \A v \in Workers : /\ tok'[v] = IF v = w THEN n ELSE tok[v]
                            /\ v # w => pc'[v] = pc[v]
                            /\ cur[v] \in Shards
  BY <1>2 DEF IInv, TypeOK
<1>4. \A v \in Workers : v # w /\ pc[v] \in Processing => cur[v] # cur[w]
  BY <1>2 DEF Owner, IInv, Tokens, Holding
<1>5. Owner'
  BY <1>2, <1>3, <1>4 DEF Owner
<1>6. Young'
  BY <1>1, <1>2, <1>3 DEF Young
<1> QED
  BY <1>5, <1>6

LEMMA OwnerNext ==
    ASSUME "slow" \notin Faults, IInv, Owner, Young, [Next]_vars
    PROVE  Owner' /\ Young'
<1>1. ASSUME NEW w \in Workers, WorkerStep(w) \/ Crash(w) \/ Launch(w)
      PROVE  Owner' /\ Young'
  BY <1>1, OwnerWorker, OwnerUnclaim, OwnerClaim
<1>2. ASSUME NEW s \in Shards, Expire(s)
      PROVE  Owner' /\ Young'
  <2>1. /\ UNCHANGED <<lock, pc, cur, tok>>
        /\ \A r \in Shards : r # s => old'[r] = old[r]
        /\ lock[s] # 0 /\ \A w \in Workers : tok[w] # lock[s]
    BY <1>2 DEF Expire, IInv, TypeOK
  <2> QED
    BY <2>1 DEF Owner, Young
<1>3. CASE \/ \E S \in SUBSET Shards : Requeue(S)
           \/ RequeueStep \/ KillRequeue \/ UNCHANGED vars
  <2>1. UNCHANGED <<lock, old, pc, cur, tok>>
    BY <1>3 DEF Requeue, RequeueStep, ArchiveVerdict, ArchiveAttempts, KillRequeue,
       vars, claims
  <2> QED
    BY <2>1 DEF Owner, Young
<1> QED
  BY <1>1, <1>2, <1>3 DEF Next

(* No two workers run attempts of one shard, provided that every attempt   *)
(* ends within lock_timeout_secs.                                          *)
THEOREM ShardsExclusive == "slow" \notin Faults => (Spec => []OneOwner)
<1>1. Init => IInv /\ Owner /\ Young
  BY IInvInit, OwnerInit
<1>2. "slow" \notin Faults =>
        (IInv /\ Owner /\ Young /\ [Next]_vars => (IInv /\ Owner /\ Young)')
  BY IInvNext, OwnerNext
<1>3. IInv /\ Owner => OneOwner
  <2> SUFFICES ASSUME IInv, Owner, NEW w \in Workers, NEW v \in Workers, w # v,
                      pc[w] \in Processing, pc[v] \in Processing, cur[w] = cur[v]
               PROVE  FALSE
    BY DEF OneOwner
  <2>1. tok[w] = tok[v] /\ tok[w] # 0
    BY DEF Owner, IInv, Tokens, Holding
  <2> QED
    BY <2>1 DEF IInv, Tokens
<1>4. CASE "slow" \in Faults
  BY <1>4
<1>5. CASE "slow" \notin Faults
  BY <1>1, <1>2, <1>3, <1>5, PTL DEF Spec
<1> QED
  BY <1>4, <1>5

-----------------------------------------------------------------------------
(* Records.  When the retry command runs only without workers, nothing     *)
(* takes away the attempt a worker runs, and what attempts and verdicts    *)
(* say of each other can be told worker by worker.                         *)

Local(w) ==
    /\ moving # {} => pc[w] \in Gone
    /\ tok[w] # 0 => attempts[tok[w]].shard = cur[w] /\ attempts[tok[w]].kept
    /\ verdict[w] = "done" => pc[w] \in {"unlink", "finish", "return"} /\ done[cur[w]] = tok[w]
    /\ \A s \in Shards : tok[w] # 0 /\ done[s] = tok[w] => verdict[w] = "done"
    /\ verdict[w] = "failed" => pc[w] \in {"giveup", "unlink", "return"}
    /\ seen[w] # "done" /\ (seen[w] # "none" => pc[w] = "write")
    /\ seen[w] \in {"failed", "stale"} => tok[w] \in blamed
    /\ tok[w] # 0 /\ (verdict[w] = "failed" \/ pc[w] \in {"count", "release"}) => tok[w] \in blamed
    /\ pc[w] \in {"refuse", "giveup"} => Cardinality(Blamed(cur[w])) > MaxRetries
    /\ pc[w] = "release" => tally[w] <= Cardinality(Blamed(cur[w]))

Recorded ==
    /\ \A t \in DOMAIN attempts :
          /\ attempts[t].status = "done" => done[attempts[t].shard] = t
          /\ attempts[t].status \in {"failed", "stale"} => t \in blamed
    /\ \A s \in Shards : done[s] # 0 =>
          done[s] \in DOMAIN attempts /\ attempts[done[s]].shard = s /\ attempts[done[s]].kept
    /\ blamed \subseteq DOMAIN attempts

Requeueing ==
    /\ \A s \in moving : done[s] = 0
    /\ archiving => moving # {}
    /\ \A s \in Shards : archiving /\ IsNext(s) => ~failed[s]

Shared == Recorded /\ Requeueing /\ FailureJustified
Records == Shared /\ \A w \in Workers : Local(w)

(* Attempts stay in place and blame stays.                                 *)
Grown ==
    /\ DOMAIN attempts \subseteq DOMAIN attempts' /\ blamed \subseteq blamed'
    /\ \A t \in DOMAIN attempts :
          attempts'[t].shard = attempts[t].shard /\ (attempts[t].kept => attempts'[t].kept)

LEMMA BlamedCount ==
    ASSUME TypeOK, NEW s
    PROVE  IsFiniteSet(Blamed(s)) /\ Cardinality(Blamed(s)) \in Nat
<1>1. IsFiniteSet(1..MaxAttempts)
  BY FS_Interval, Numbers
<1>2. Blamed(s) \subseteq 1..MaxAttempts
  BY DEF Blamed, TypeOK
<1> QED
  BY <1>1, <1>2, FS_Subset, FS_CardinalityType

LEMMA BlamedGrows ==
    ASSUME TypeOK, TypeOK', Recorded, Grown, NEW s
    PROVE  Cardinality(Blamed(s)) <= Cardinality(Blamed(s)') /\ Cardinality(Blamed(s)') \in Nat
<1>1. Blamed(s) \subseteq Blamed(s)'
  BY DEF Blamed, Grown, Recorded
<1>2. IsFiniteSet(1..MaxAttempts)
  BY FS_Interval, Numbers
<1>3. Blamed(s)' \subseteq 1..MaxAttempts
  BY DEF Blamed, TypeOK
<1>4. IsFiniteSet(Blamed(s)')
  BY <1>2, <1>3, FS_Subset
<1> QED
  BY <1>1, <1>4, FS_Subset, FS_CardinalityType

(* The attempts a worker counts are blamed.                                *)
LEMMA FailuresBlamed ==
    ASSUME TypeOK, Recorded, NEW s
    PROVE  Failures(s) <= Cardinality(Blamed(s))
<1>1. {t \in DOMAIN attempts : /\ attempts[t].shard = s /\ attempts[t].kept
                               /\ attempts[t].status \in {"failed", "stale"}} \subseteq Blamed(s)
  BY DEF Recorded, Blamed
<1> QED
  BY <1>1, BlamedCount, FS_Subset DEF Failures

(* A claim and a worker's token name attempts.                             *)
LEMMA Named ==
    ASSUME IInv
    PROVE  /\ Len(attempts) \in Nat /\ DOMAIN attempts = 1..Len(attempts)
           /\ \A t \in DOMAIN attempts : attempts[t] \in Attempt
           /\ \A v \in Workers : tok[v] # 0 => tok[v] \in DOMAIN attempts
           /\ \A s \in Shards : lock[s] # 0 => lock[s] \in DOMAIN attempts
<1>1. attempts \in Seq(Attempt)
  BY DEF IInv, TypeOK
<1>2. Len(attempts) \in Nat /\ DOMAIN attempts = 1..Len(attempts)
  BY <1>1, LenProperties
<1>3. \A t \in DOMAIN attempts : attempts[t] \in Attempt
  BY <1>1, <1>2, ElementOfSeq
<1>4. /\ \A v \in Workers : tok[v] \in Nat /\ tok[v] <= Len(attempts)
      /\ \A s \in Shards : lock[s] \in Nat /\ lock[s] <= Len(attempts)
  BY Numbers DEF IInv, TypeOK, Tokens
<1> QED
  BY <1>2, <1>3, <1>4

(* What one worker does leaves the others as they are.                     *)
LEMMA OthersLocal ==
    ASSUME IInv, IInv', Records, NEW w \in Workers, Grown, UNCHANGED moving,
           \A s \in Shards : done'[s] = done[s] \/ (done[s] = 0 /\ done'[s] = tok[w]),
           NEW v \in Workers, v # w,
           UNCHANGED <<pc[v], cur[v], tok[v], seen[v], verdict[v], tally[v]>>
    PROVE  Local(v)'
<1>1. Local(v) /\ Recorded
  BY DEF Records, Shared
<1>2. cur[v] \in Shards /\ tally[v] \in Nat /\ MaxRetries \in Nat
  BY Numbers DEF IInv, TypeOK
<1>3. /\ Cardinality(Blamed(cur[v])) <= Cardinality(Blamed(cur[v]))'
      /\ Cardinality(Blamed(cur[v])) \in Nat /\ Cardinality(Blamed(cur[v]))' \in Nat
  <2>1. TypeOK /\ TypeOK'
    BY DEF IInv
  <2>2. \A s : Cardinality(Blamed(s)) <= Cardinality(Blamed(s)') /\ Cardinality(Blamed(s)') \in Nat
    BY <1>1, <2>1, BlamedGrows
  <2>3. Cardinality(Blamed(cur[v])) \in Nat
    BY <2>1, BlamedCount
  <2>4. Blamed(cur[v])' = {t \in blamed' : attempts'[t].shard = cur[v] /\ attempts'[t].kept}
    BY DEF Blamed
  <2> QED
    BY <2>2, <2>3, <2>4 DEF Blamed
<1>4. tok[v] # 0 => tok[v] \in DOMAIN attempts
  BY Named
<1>5. tok[v] # 0 => tok[v] # tok[w]
  BY DEF IInv, Tokens
<1>6. pc[v] \in {"unlink", "finish", "return"} => tok[v] # 0
  BY DEF IInv, Tokens, Holding
<1>7. tok'[v] # 0 => attempts'[tok'[v]].shard = cur'[v] /\ attempts'[tok'[v]].kept
  BY <1>1, <1>4 DEF Local, Grown
<1>8. /\ verdict'[v] = "done" => pc'[v] \in {"unlink", "finish", "return"} /\ done'[cur'[v]] = tok'[v]
      /\ verdict'[v] = "failed" => pc'[v] \in {"giveup", "unlink", "return"}
  BY <1>1, <1>2, <1>6 DEF Local
<1>9. \A s \in Shards : tok'[v] # 0 /\ done'[s] = tok'[v] => verdict'[v] = "done"
  BY <1>1, <1>5 DEF Local
<1>10. /\ seen'[v] \in {"failed", "stale"} => tok'[v] \in blamed'
       /\ tok'[v] # 0 /\ (verdict'[v] = "failed" \/ pc'[v] \in {"count", "release"}) => tok'[v] \in blamed'
  BY <1>1 DEF Local, Grown
<1>11. /\ pc'[v] \in {"refuse", "giveup"} => Cardinality(Blamed(cur[v]))' > MaxRetries
       /\ pc'[v] = "release" => tally'[v] <= Cardinality(Blamed(cur[v]))'
  BY <1>1, <1>2, <1>3 DEF Local
<1> QED
  BY <1>1, <1>7, <1>8, <1>9, <1>10, <1>11 DEF Local

LEMMA RecordsStep ==
    ASSUME IInv, IInv', Records, NEW w \in Workers, Grown, UNCHANGED moving,
           \A s \in Shards : done'[s] = done[s] \/ (done[s] = 0 /\ done'[s] = tok[w]),
           \A v \in Workers : v # w =>
              UNCHANGED <<pc[v], cur[v], tok[v], seen[v], verdict[v], tally[v]>>,
           Local(w)', Shared'
    PROVE  Records'
<1>1. \A v \in Workers : Local(v)'
  <2> SUFFICES ASSUME NEW v \in Workers, v # w PROVE Local(v)'
    OBVIOUS
  <2> QED
    BY OthersLocal
<1> QED
  BY <1>1 DEF Records

(* A worker without an attempt.                                            *)
LEMMA LocalFree ==
    ASSUME NEW w, tok'[w] = 0, seen'[w] = "none", verdict'[w] \notin {"done", "failed"},
           pc'[w] \notin {"refuse", "giveup", "release"},
           moving' # {} => pc'[w] \in Gone
    PROVE  Local(w)'
BY DEF Local

(* Steps that touch no attempt.                                            *)
LEMMA QuietRecords ==
    ASSUME IInv, IInv', Records, NEW w \in Workers,
           UNCHANGED <<verdicts, attempts, blamed, moving, archiving>>,
           \A v \in Workers : v # w =>
              UNCHANGED <<pc[v], cur[v], tok[v], seen[v], verdict[v], tally[v]>>,
           Local(w)'
    PROVE  Records'
<1>1. Shared'
  BY DEF Records, Shared, Recorded, Requeueing, FailureJustified, Blamed, IsNext, verdicts
<1>2. Grown
  BY DEF Grown
<1> QED
  BY <1>1, <1>2, RecordsStep DEF verdicts

(* What only worker w changes.                                             *)
LEMMA OwnStep ==
    ASSUME IInv, NEW w \in Workers, WorkerStep(w) \/ Crash(w) \/ Launch(w)
    PROVE  \A v \in Workers : v # w =>
              UNCHANGED <<pc[v], cur[v], tok[v], seen[v], verdict[v], tally[v]>>
<1>1. /\ \E x : pc' = [pc EXCEPT ![w] = x]
      /\ cur' = cur \/ \E x : cur' = [cur EXCEPT ![w] = x]
      /\ tok' = tok \/ \E x : tok' = [tok EXCEPT ![w] = x]
      /\ seen' = seen \/ \E x : seen' = [seen EXCEPT ![w] = x]
      /\ verdict' = verdict \/ \E x : verdict' = [verdict EXCEPT ![w] = x]
      /\ tally' = tally \/ \E x : tally' = [tally EXCEPT ![w] = x]
  <2> USE DEF Goto, End, results
  <2>1. CASE Look(w) \/ Leave(w) \/ Recheck(w) \/ LoseClaim(w) \/ Refuse(w)
    BY <2>1 DEF Look, Leave, Recheck, LoseClaim, Refuse, NextShard
  <2>2. CASE \/ NoLock(w) \/ TakeOver(w) \/ Mark(w) \/ Drop(w) \/ CheckRetries(w)
             \/ Poll(w) \/ Launch(w)
    BY <2>2 DEF NoLock, TakeOver, Mark, Drop, CheckRetries, Poll, Launch
  <2>3. CASE Claim(w) \/ Register(w) \/ Begin(w) \/ WriteBack(w) \/ Run(w) \/ Vanished(w)
    BY <2>3 DEF Claim, Register, Begin, WriteBack, Run, Vanished
  <2>4. CASE Publish(w) \/ Link(w) \/ Unlink(w) \/ PublishLost(w) \/ Finish(w)
    BY <2>4 DEF Publish, Link, Unlink, PublishLost, Finish
  <2>5. CASE Fail(w) \/ CountFailures(w) \/ Release(w) \/ GiveUp(w) \/ ReleaseLost(w)
    BY <2>5 DEF Fail, CountFailures, Release, GiveUp, ReleaseLost
  <2>6. CASE Return(w) \/ Crash(w)
    BY <2>6 DEF Return, Crash
  <2> QED
    BY <2>1, <2>2, <2>3, <2>4, <2>5, <2>6 DEF WorkerStep
<1>2. ASSUME NEW f, NEW g, NEW x, g = [f EXCEPT ![w] = x], NEW v, v \in DOMAIN f, v # w
      PROVE  g[v] = f[v]
  BY <1>2
<1>3. /\ DOMAIN pc = Workers /\ DOMAIN cur = Workers /\ DOMAIN tok = Workers
      /\ DOMAIN seen = Workers /\ DOMAIN verdict = Workers /\ DOMAIN tally = Workers
  BY DEF IInv, TypeOK
<1> QED
  BY <1>1, <1>3

(* Looking for a shard to claim.                                           *)
LEMMA RecordsIdle ==
    ASSUME IInv, IInv', Records, NEW w \in Workers,
           \/ Look(w) \/ NoLock(w) \/ Leave(w) \/ TakeOver(w) \/ Drop(w)
           \/ Recheck(w) \/ CheckRetries(w) \/ LoseClaim(w) \/ Poll(w)
    PROVE  Records'
<1>1. /\ UNCHANGED <<verdicts, attempts, blamed, moving, archiving, tok, seen, verdict>>
      /\ pc[w] \in {"look", "lock", "drop", "recheck", "check", "claim", "status"}
  BY DEF Look, NoLock, Leave, TakeOver, Drop, Recheck, CheckRetries, LoseClaim, Poll,
     results, retry, budget
<1>2. tok[w] = 0 /\ Local(w) /\ moving = {}
  <2>1. pc[w] \notin Holding \cup Gone
    BY <1>1 DEF Holding, Processing, Gone
  <2> QED
    BY <2>1 DEF IInv, Tokens, Records, Local
<1>3. seen[w] = "none" /\ verdict[w] \notin {"done", "failed"}
  BY <1>1, <1>2 DEF Local
<1>4. \E place : /\ pc' = [pc EXCEPT ![w] = place]
                 /\ place \notin {"giveup", "release"}
                 /\ place = "refuse" => Failures(cur[w]) > MaxRetries /\ cur' = cur
  <2> USE DEF Goto
  <2>1. CASE Look(w) \/ Leave(w) \/ Recheck(w) \/ LoseClaim(w)
    BY <2>1 DEF Look, Leave, Recheck, LoseClaim, NextShard
  <2>2. CASE NoLock(w) \/ TakeOver(w) \/ Drop(w) \/ Poll(w)
    BY <2>2 DEF NoLock, TakeOver, Drop, Poll
  <2>3. CASE CheckRetries(w)
    <3>1. cur' = cur
      BY <2>3 DEF CheckRetries
    <3>2. CASE Failures(cur[w]) > MaxRetries
      <4>1. pc' = [pc EXCEPT ![w] = "refuse"]
        BY <2>3, <3>2 DEF CheckRetries
      <4>2. "refuse" \notin {"giveup", "release"}
        OBVIOUS
      <4> QED
        BY <3>1, <3>2, <4>1, <4>2, Zenon
    <3>3. CASE ~(Failures(cur[w]) > MaxRetries)
      <4>1. pc' = [pc EXCEPT ![w] = "claim"]
        BY <2>3, <3>3 DEF CheckRetries
      <4>2. "claim" \notin {"giveup", "release", "refuse"}
        OBVIOUS
      <4> QED
        BY <4>1, <4>2, Zenon
    <3> QED
      BY <3>2, <3>3
  <2> QED
    BY <2>1, <2>2, <2>3
<1>5. PICK place : /\ pc'[w] = place /\ place \notin {"giveup", "release"}
                   /\ place = "refuse" => Failures(cur[w]) > MaxRetries /\ cur' = cur
  BY <1>4 DEF IInv, TypeOK
<1>6. Local(w)'
  <2>1. CASE place # "refuse"
    BY <1>1, <1>2, <1>3, <1>5, <2>1, LocalFree
  <2>2. CASE place = "refuse"
    <3>1. Cardinality(Blamed(cur[w])) > MaxRetries
      <4>1. Failures(cur[w]) <= Cardinality(Blamed(cur[w]))
        BY FailuresBlamed DEF IInv, Records, Shared
      <4>2. Failures(cur[w]) \in Nat /\ Cardinality(Blamed(cur[w])) \in Nat
        BY FailuresType, BlamedCount DEF IInv
      <4> QED
        BY <1>5, <2>2, <4>1, <4>2, Numbers
    <3>2. Blamed(cur[w])' = Blamed(cur[w])
      BY <1>1, <1>5, <2>2 DEF Blamed
    <3>3. Cardinality(Blamed(cur[w]))' > MaxRetries
      BY <3>1, <3>2
    <3> QED
      BY <1>1, <1>2, <1>3, <1>5, <2>2, <3>3 DEF Local
  <2> QED
    BY <2>1, <2>2
<1>7. \A v \in Workers : v # w =>
              UNCHANGED <<pc[v], cur[v], tok[v], seen[v], verdict[v], tally[v]>>
  BY OwnStep DEF WorkerStep
<1> QED
  BY <1>1, <1>6, <1>7, QuietRecords

(* Being done with an attempt.                                             *)
LEMMA RecordsFree ==
    ASSUME IInv, IInv', Records, NEW w \in Workers,
           \/ Vanished(w) \/ (PublishLost(w) /\ attempts[tok[w]].kept = FALSE)
           \/ Return(w) \/ Crash(w) \/ (Launch(w) /\ "early" \notin Faults)
    PROVE  Records'
<1>1. UNCHANGED <<verdicts, attempts, blamed, moving, archiving>>
  BY DEF Vanished, PublishLost, Return, Crash, Launch, results, retry, budget
<1>2. Local(w) /\ (pc[w] \notin Gone => moving = {})
  BY DEF Records, Local
<1>9. \/ Launch(w) /\ moving = {} /\ pc' = [pc EXCEPT ![w] = "look"]
      \/ Return(w) /\ pc[w] = "return" /\ \E place \in {"look", "exit0", "exit2"} : pc' = [pc EXCEPT ![w] = place]
      \/ Crash(w) /\ pc' = [pc EXCEPT ![w] = "dead"]
      \/ Vanished(w) /\ pc[w] \in {"begin", "run"} /\ pc' = [pc EXCEPT ![w] = "exit2"]
      \/ PublishLost(w) /\ pc[w] = "publish" /\ pc' = [pc EXCEPT ![w] = "exit2"]
  BY DEF Vanished, PublishLost, Return, Crash, Launch, Goto
<1>3. pc'[w] \notin {"refuse", "giveup", "release"} /\ (moving # {} => pc'[w] \in Gone)
  <2>1. w \in DOMAIN pc
    BY DEF IInv, TypeOK
  <2>2. CASE Return(w) /\ pc[w] = "return"
    BY <1>2, <1>9, <2>1, <2>2 DEF Gone
  <2> QED
    BY <1>9, <2>1, <2>2 DEF Gone
<1>4. tok'[w] = 0
  <2>1. CASE Launch(w)
    <3>1. pc[w] \notin Holding
      BY <2>1 DEF Launch, Holding, Processing, Gone
    <3> QED
      BY <2>1, <3>1 DEF Launch, IInv, Tokens
  <2> QED
    BY <2>1 DEF Vanished, PublishLost, Return, Crash, IInv, TypeOK
<1>5. verdict'[w] \notin {"done", "failed"}
  <2>1. (verdict' = verdict /\ Vanished(w)) \/ \E v \in {"none", "lost"} : verdict' = [verdict EXCEPT ![w] = v]
    BY DEF Vanished, PublishLost, Return, Crash, Launch, End, results
  <2>2. Vanished(w) => pc[w] \in {"begin", "run"}
    BY DEF Vanished
  <2>3. w \in DOMAIN verdict
    BY DEF IInv, TypeOK
  <2> QED
    BY <1>2, <2>1, <2>2, <2>3 DEF Local
<1>6. seen'[w] = "none"
  <2>1. seen' = [seen EXCEPT ![w] = "none"] \/ (seen' = seen /\ ~Crash(w))
    BY DEF Vanished, PublishLost, Return, Crash, Launch, results
  <2>2. Launch(w) => pc[w] # "write"
    BY DEF Launch, Gone
  <2>3. w \in DOMAIN seen
    BY DEF IInv, TypeOK
  <2> QED
    BY <1>2, <1>9, <2>1, <2>2, <2>3 DEF Local
<1>7. Local(w)'
  BY <1>1, <1>3, <1>4, <1>5, <1>6, LocalFree
<1>8. \A v \in Workers : v # w =>
              UNCHANGED <<pc[v], cur[v], tok[v], seen[v], verdict[v], tally[v]>>
  BY OwnStep DEF WorkerStep
<1> QED
  BY <1>1, <1>7, <1>8, QuietRecords

(* Steps with an attempt that write nothing about it.                      *)
LEMMA RecordsHolding ==
    ASSUME IInv, IInv', Records, NEW w \in Workers,
           \/ Begin(w) \/ Run(w) \/ Publish(w) \/ Unlink(w) \/ CountFailures(w)
           \/ (PublishLost(w) /\ attempts[tok[w]].kept) \/ Release(w) \/ ReleaseLost(w)
    PROVE  Records'
<1>1. UNCHANGED <<verdicts, attempts, blamed, moving, archiving, cur, tok>>
  BY DEF Begin, Run, Publish, Unlink, CountFailures, PublishLost, Release, ReleaseLost,
     results, retry, budget
<1>2. Local(w) /\ moving = {} /\ tok[w] # 0 /\ tok[w] \in DOMAIN attempts
  <2>1. pc[w] \in Holding /\ pc[w] \notin Gone
    BY DEF Begin, Run, Publish, Unlink, CountFailures, PublishLost, Release, ReleaseLost,
       Holding, Processing, Gone
  <2> QED
    BY <2>1, Named DEF IInv, Tokens, Records, Local
<1>3. w \in DOMAIN pc /\ w \in DOMAIN seen /\ w \in DOMAIN verdict /\ w \in DOMAIN tally
  BY DEF IInv, TypeOK
<1>4. Cardinality(Blamed(cur[w]))' = Cardinality(Blamed(cur[w]))
  BY <1>1 DEF Blamed
<1>5. Cardinality(Blamed(cur[w])) \in Nat /\ tally[w] \in Nat /\ MaxRetries \in Nat
  BY BlamedCount, Numbers DEF IInv, TypeOK
<1> DEFINE Rest ==
    /\ moving' # {} => pc'[w] \in Gone
    /\ tok'[w] # 0 => attempts'[tok'[w]].shard = cur'[w] /\ attempts'[tok'[w]].kept
<1>6. Rest
  BY <1>1, <1>2 DEF Local
<1>7. Local(w)'
  <2>1. CASE Begin(w)
    <3>1. pc[w] = "begin" /\ pc'[w] = "write" /\ seen'[w] = attempts[tok[w]].status
      BY <1>3, <2>1 DEF Begin, Goto
    <3>2. UNCHANGED <<verdict, tally, done, blamed>>
      BY <1>1, <2>1 DEF Begin, verdicts
    <3>3. seen'[w] # "done" /\ (seen'[w] \in {"failed", "stale"} => tok[w] \in blamed)
      <4>1. /\ attempts[tok[w]].status = "done" => done[attempts[tok[w]].shard] = tok[w]
            /\ attempts[tok[w]].status \in {"failed", "stale"} => tok[w] \in blamed
        BY <1>2 DEF Records, Shared, Recorded
      <4>2. attempts[tok[w]].shard \in Shards
        BY <1>2, Named DEF Attempt
      <4> QED
        BY <1>2, <3>1, <4>1, <4>2 DEF Local
    <3> QED
      BY <1>1, <1>2, <1>4, <1>6, <3>1, <3>2, <3>3 DEF Local
  <2>2. CASE Run(w)
    <3>1. pc[w] = "run" /\ pc'[w] \in {"publish", "fail"}
      BY <1>3, <2>2 DEF Run, Goto
    <3>2. UNCHANGED <<seen, verdict, tally, done, blamed>>
      BY <1>1, <2>2 DEF Run, verdicts, results
    <3> QED
      BY <1>1, <1>2, <1>4, <1>6, <3>1, <3>2 DEF Local
  <2>3. CASE Publish(w)
    <3>1. pc[w] = "publish" /\ pc'[w] \in {"unlink", "link"} /\ verdict'[w] \in {verdict[w], "superseded"}
      BY <1>3, <2>3 DEF Publish, Goto, End
    <3>2. UNCHANGED <<seen, tally, done, blamed>>
      BY <1>1, <2>3 DEF Publish, verdicts
    <3> QED
      BY <1>1, <1>2, <1>4, <1>6, <3>1, <3>2 DEF Local
  <2>4. CASE Unlink(w)
    <3>1. /\ pc[w] = "unlink" /\ pc'[w] \in {"return", "finish"}
          /\ verdict[w] = "failed" => pc'[w] = "return"
      BY <1>3, <2>4 DEF Unlink, Goto
    <3>2. UNCHANGED <<seen, verdict, tally, done, blamed>>
      BY <1>1, <2>4 DEF Unlink, verdicts, results
    <3> QED
      BY <1>1, <1>2, <1>4, <1>6, <3>1, <3>2 DEF Local
  <2>5. CASE CountFailures(w)
    <3>1. pc[w] = "count" /\ pc'[w] = "release" /\ tally'[w] = Failures(cur[w])
      BY <1>3, <2>5 DEF CountFailures, Goto
    <3>2. UNCHANGED <<seen, verdict, done, blamed>>
      BY <1>1, <2>5 DEF CountFailures, verdicts
    <3>3. Failures(cur[w]) <= Cardinality(Blamed(cur[w]))
      BY FailuresBlamed DEF IInv, Records, Shared
    <3> QED
      BY <1>1, <1>2, <1>4, <1>6, <3>1, <3>2, <3>3 DEF Local
  <2>6. CASE PublishLost(w) /\ attempts[tok[w]].kept
    <3>1. pc[w] = "publish" /\ pc'[w] = "finish" /\ verdict'[w] = "lost"
      BY <1>3, <2>6 DEF PublishLost, Goto, End
    <3>2. UNCHANGED <<seen, tally, done, blamed>>
      BY <1>1, <2>6 DEF PublishLost, verdicts
    <3> QED
      BY <1>1, <1>2, <1>4, <1>6, <3>1, <3>2 DEF Local
  <2>7. CASE Release(w)
    <3>1. /\ pc[w] = "release" /\ verdict'[w] = "failed"
          /\ pc'[w] \in {"giveup", "unlink"}
          /\ pc'[w] = "giveup" => tally[w] > MaxRetries
      BY <1>3, <2>7 DEF Release, Goto, End
    <3>2. UNCHANGED <<seen, done, blamed>>
      BY <1>1, <2>7 DEF Release, verdicts
    <3>3. tally[w] <= Cardinality(Blamed(cur[w])) /\ tok[w] \in blamed
      BY <1>2, <3>1 DEF Local
    <3>4. pc'[w] = "giveup" => Cardinality(Blamed(cur[w])) > MaxRetries
      BY <1>5, <3>1, <3>3
    <3> QED
      BY <1>1, <1>2, <1>4, <1>6, <3>1, <3>2, <3>3, <3>4 DEF Local
  <2>8. CASE ReleaseLost(w)
    <3>1. pc[w] = "release" /\ pc'[w] = "return" /\ verdict'[w] = "lost"
      BY <1>3, <2>8 DEF ReleaseLost, Goto, End
    <3>2. UNCHANGED <<seen, done, blamed>>
      BY <1>1, <2>8 DEF ReleaseLost, verdicts
    <3> QED
      BY <1>1, <1>2, <1>4, <1>6, <3>1, <3>2 DEF Local
  <2> QED
    BY <2>1, <2>2, <2>3, <2>4, <2>5, <2>6, <2>7, <2>8
<1>8. \A v \in Workers : v # w =>
              UNCHANGED <<pc[v], cur[v], tok[v], seen[v], verdict[v], tally[v]>>
  BY OwnStep DEF WorkerStep
<1> QED
  BY <1>1, <1>7, <1>8, QuietRecords

(* Writing attempt.json of attempt t.                                      *)
LEMMA WriteEffect ==
    ASSUME IInv, NEW t \in DOMAIN attempts, NEW st \in Status, SetStatus(t, st)
    PROVE  /\ DOMAIN attempts' = DOMAIN attempts
           /\ \A r \in DOMAIN attempts : r # t => attempts'[r] = attempts[r]
           /\ attempts'[t].shard = attempts[t].shard
           /\ attempts'[t].status = st /\ attempts'[t].kept
<1>1. attempts' = [attempts EXCEPT ![t] = [[attempts[t] EXCEPT !.status = st] EXCEPT !.kept = TRUE]]
  BY DEF SetStatus
<1>2. attempts[t] \in Attempt
  BY Named
<1> QED
  BY <1>1, <1>2 DEF Attempt

LEMMA WriteRecords ==
    ASSUME IInv, IInv', Records, NEW w \in Workers, NEW t \in DOMAIN attempts,
           NEW st \in Status, SetStatus(t, st),
           st = "done" => done[attempts[t].shard] = t,
           st \in {"failed", "stale"} => t \in blamed',
           blamed' = blamed \/ blamed' = blamed \cup {t},
           UNCHANGED <<verdicts, moving, archiving>>,
           \A v \in Workers : v # w =>
              UNCHANGED <<pc[v], cur[v], tok[v], seen[v], verdict[v], tally[v]>>,
           Grown => Local(w)'
    PROVE  Records'
<1>1. /\ DOMAIN attempts' = DOMAIN attempts
      /\ \A r \in DOMAIN attempts : r # t => attempts'[r] = attempts[r]
      /\ attempts'[t].shard = attempts[t].shard
      /\ attempts'[t].status = st /\ attempts'[t].kept
  BY WriteEffect
<1>2. Grown
  BY <1>1 DEF Grown
<1>3. Recorded /\ Requeueing /\ FailureJustified
  BY DEF Records, Shared
<1>4. Recorded'
  <2>1. \A r \in DOMAIN attempts' :
          /\ attempts'[r].status = "done" => done'[attempts'[r].shard] = r
          /\ attempts'[r].status \in {"failed", "stale"} => r \in blamed'
    BY <1>1, <1>3 DEF Recorded, verdicts
  <2>2. \A s \in Shards : done'[s] # 0 =>
          done'[s] \in DOMAIN attempts' /\ attempts'[done'[s]].shard = s /\ attempts'[done'[s]].kept
    BY <1>1, <1>3 DEF Recorded, verdicts
  <2>3. blamed' \subseteq DOMAIN attempts'
    BY <1>1, <1>3 DEF Recorded
  <2> QED
    BY <2>1, <2>2, <2>3 DEF Recorded
<1>5. Requeueing'
  BY <1>3 DEF Requeueing, IsNext, verdicts
<1>6. FailureJustified'
  <2> SUFFICES ASSUME NEW s \in Shards, failed'[s] PROVE Cardinality(Blamed(s)') > MaxRetries
    BY DEF FailureJustified, Blamed
  <2>1. Cardinality(Blamed(s)) > MaxRetries
    BY <1>3 DEF FailureJustified, verdicts
  <2>2. TypeOK /\ TypeOK'
    BY DEF IInv
  <2> QED
    BY <1>2, <1>3, <2>1, <2>2, BlamedCount, BlamedGrows, Numbers
<1> QED
  BY <1>2, <1>4, <1>5, <1>6, RecordsStep DEF Shared, verdicts

LEMMA RecordsWriting ==
    ASSUME IInv, IInv', Records, NEW w \in Workers,
           Mark(w) \/ Register(w) \/ WriteBack(w) \/ Finish(w) \/ Fail(w)
    PROVE  Records'
<1>1. UNCHANGED <<verdicts, moving, archiving, cur, tok, verdict, tally>>
  BY DEF Mark, Register, WriteBack, Finish, Fail, results, retry
<1>2. Local(w) /\ moving = {} /\ cur[w] \in Shards /\ verdict[w] # "failed"
  <2>1. pc[w] \notin Gone \cup {"giveup", "unlink", "return"}
    BY DEF Mark, Register, WriteBack, Finish, Fail, Gone
  <2> QED
    BY <2>1 DEF IInv, TypeOK, Records, Local
<1>3. w \in DOMAIN pc /\ w \in DOMAIN seen
  BY DEF IInv, TypeOK
<1>4. \A v \in Workers : v # w =>
              UNCHANGED <<pc[v], cur[v], tok[v], seen[v], verdict[v], tally[v]>>
  BY OwnStep DEF WorkerStep
<1>5. /\ "stale" \in Status /\ "running" \in Status /\ "failed" \in Status
      /\ seen[w] \in Status /\ verdict[w] \in Status
  BY DEF IInv, TypeOK, Status
<1>6. ASSUME tok[w] # 0, tok[w] \in DOMAIN attempts, Grown, pc'[w] \notin {"refuse", "giveup", "release"},
             seen'[w] = "none", pc'[w] = "count" => tok[w] \in blamed',
             verdict[w] = "done" => pc'[w] = "return"
      PROVE  Local(w)'
  <2>1. attempts'[tok[w]].shard = cur[w] /\ attempts'[tok[w]].kept
    BY <1>2, <1>6 DEF Local, Grown
  <2> QED
    BY <1>1, <1>2, <1>6, <2>1 DEF Local, verdicts
<1>7. CASE Mark(w)
  <2> DEFINE t == lock[cur[w]]
  <2>1. pc[w] = "mark" /\ pc'[w] = "drop" /\ seen' = seen
    BY <1>3, <1>7 DEF Mark, Goto, results
  <2>2. tok[w] = 0 /\ t \in DOMAIN attempts
    <3>1. t # 0 /\ pc[w] \notin Holding
      BY <2>1 DEF IInv, Flocks, Holding, Processing
    <3> QED
      BY <1>2, <3>1, Named DEF IInv, Tokens
  <2>3. Local(w)'
    BY <1>1, <1>2, <2>1, <2>2, LocalFree DEF Local
  <2>4. CASE SetStatus(t, "stale") /\ blamed' = blamed \cup {t}
    BY <1>1, <1>4, <1>5, <2>2, <2>3, <2>4, WriteRecords
  <2>5. CASE UNCHANGED <<attempts, blamed>>
    BY <1>1, <1>4, <2>3, <2>5, QuietRecords
  <2> QED
    BY <1>7, <2>4, <2>5 DEF Mark
<1>8. CASE Register(w) \/ WriteBack(w) \/ Finish(w) \/ Fail(w)
  <2>1. tok[w] # 0 /\ tok[w] \in DOMAIN attempts
    <3>1. pc[w] \in Holding
      BY <1>8 DEF Register, WriteBack, Finish, Fail, Holding, Processing
    <3> QED
      BY <3>1, Named DEF IInv, Tokens
  <2>2. CASE Register(w)
    <3>1. pc[w] = "register" /\ pc'[w] = "begin" /\ seen' = seen /\ blamed' = blamed
      BY <1>3, <2>2 DEF Register, Goto, results, budget
    <3>2. Grown => Local(w)'
      BY <1>2, <1>6, <2>1, <3>1 DEF Local
    <3>3. SetStatus(tok[w], "running")
      BY <2>2 DEF Register
    <3> QED
      BY <1>1, <1>4, <1>5, <2>1, <3>1, <3>2, <3>3, WriteRecords
  <2>3. CASE WriteBack(w)
    <3>1. pc[w] = "write" /\ pc'[w] = "run" /\ seen'[w] = "none" /\ blamed' = blamed
      BY <1>3, <2>3 DEF WriteBack, Goto, budget
    <3>2. Grown => Local(w)'
      BY <1>2, <1>6, <2>1, <3>1 DEF Local
    <3>3. SetStatus(tok[w], seen[w])
      BY <2>3 DEF WriteBack
    <3>4. seen[w] # "done" /\ (seen[w] \in {"failed", "stale"} => tok[w] \in blamed')
      BY <1>2, <3>1 DEF Local
    <3> QED
      BY <1>1, <1>4, <1>5, <2>1, <3>1, <3>2, <3>3, <3>4, WriteRecords
  <2>4. CASE Finish(w)
    <3> DEFINE st == IF verdict[w] = "lost" /\ attempts[tok[w]].status = "stale"
                     THEN "stale" ELSE verdict[w]
    <3>1. pc[w] = "finish" /\ pc'[w] = "return" /\ seen' = seen /\ blamed' = blamed
      BY <1>3, <2>4 DEF Finish, Goto, results, budget
    <3>2. Grown => Local(w)'
      BY <1>2, <1>6, <2>1, <3>1 DEF Local
    <3>3. SetStatus(tok[w], st)
      BY <2>4 DEF Finish
    <3>4. /\ st \in Status
          /\ st = "done" => verdict[w] = "done"
          /\ st = "failed" => verdict[w] = "failed"
          /\ st = "stale" => attempts[tok[w]].status = "stale"
      BY <1>5 DEF IInv, TypeOK
    <3>5. st = "done" => done[attempts[tok[w]].shard] = tok[w]
      BY <1>2, <2>1, <3>4 DEF Local
    <3>6. st \in {"failed", "stale"} => tok[w] \in blamed'
      BY <1>2, <2>1, <3>1, <3>4 DEF Local, Records, Shared, Recorded
    <3> HIDE DEF st
    <3> QED
      BY <1>1, <1>4, <2>1, <3>1, <3>2, <3>3, <3>4, <3>5, <3>6, WriteRecords
  <2>5. CASE Fail(w)
    <3>1. pc[w] = "fail" /\ pc'[w] = "count" /\ seen' = seen /\ blamed' = blamed \cup {tok[w]}
      BY <1>3, <2>5 DEF Fail, Goto, results
    <3>2. Grown => Local(w)'
      BY <1>2, <1>6, <2>1, <3>1 DEF Local
    <3>3. SetStatus(tok[w], "failed")
      BY <2>5 DEF Fail
    <3> QED
      BY <1>1, <1>4, <1>5, <2>1, <3>1, <3>2, <3>3, WriteRecords
  <2> QED
    BY <1>8, <2>2, <2>3, <2>4, <2>5
<1> QED
  BY <1>7, <1>8

(* A new attempt has said nothing yet.                                     *)
LEMMA RecordsClaim ==
    ASSUME IInv, IInv', Records, NEW w \in Workers, Claim(w)
    PROVE  Records'
<1> DEFINE n == Len(attempts) + 1
           new == [shard |-> cur[w], status |-> "none", kept |-> TRUE]
<1>1. Len(attempts) \in Nat /\ DOMAIN attempts = 1..Len(attempts) /\ attempts \in Seq(Attempt)
  BY Named DEF IInv, TypeOK
<1>2. new \in Attempt
  BY DEF IInv, TypeOK, Attempt, Status
<1>3. attempts' = Append(attempts, new)
  BY DEF Claim
<1>4. /\ DOMAIN attempts' = 1..n /\ attempts'[n] = new
      /\ \A t \in DOMAIN attempts : attempts'[t] = attempts[t]
  <2> HIDE DEF new
  <2> QED
    BY <1>1, <1>2, <1>3, AppendProperties
<1>5. n \in DOMAIN attempts' /\ n # 0 /\ n \notin DOMAIN attempts /\ DOMAIN attempts \subseteq DOMAIN attempts'
      /\ \A t \in DOMAIN attempts' : t \in DOMAIN attempts \/ t = n
  BY <1>1, <1>4
<1>6. /\ UNCHANGED <<verdicts, moving, archiving, cur, seen, verdict, tally, blamed>>
      /\ pc[w] = "claim" /\ pc'[w] = "register" /\ tok'[w] = n
  BY DEF Claim, Goto, results, retry, budget, IInv, TypeOK
<1>7. attempts'[n].shard = cur[w] /\ attempts'[n].status = "none" /\ attempts'[n].kept
  BY <1>4
<1> HIDE DEF n, new
<1>8. Grown
  BY <1>4, <1>5, <1>6 DEF Grown
<1>9. Recorded /\ Requeueing /\ FailureJustified /\ Local(w)
  BY DEF Records, Shared
<1>10. \A s \in Shards : done[s] # n
  BY <1>5, <1>9 DEF Recorded
<1>11. Recorded'
  <2>1. ASSUME NEW t \in DOMAIN attempts'
        PROVE  /\ attempts'[t].status = "done" => done'[attempts'[t].shard] = t
               /\ attempts'[t].status \in {"failed", "stale"} => t \in blamed'
    <3>1. CASE t = n
      BY <1>7, <3>1
    <3>2. CASE t \in DOMAIN attempts
      BY <1>4, <1>6, <1>9, <3>2 DEF Recorded, verdicts
    <3> QED
      BY <1>5, <3>1, <3>2
  <2>2. \A s \in Shards : done'[s] # 0 =>
          done'[s] \in DOMAIN attempts' /\ attempts'[done'[s]].shard = s /\ attempts'[done'[s]].kept
    BY <1>4, <1>5, <1>6, <1>9 DEF Recorded, verdicts
  <2>3. blamed' \subseteq DOMAIN attempts'
    BY <1>5, <1>6, <1>9 DEF Recorded
  <2> QED
    BY <2>1, <2>2, <2>3 DEF Recorded
<1>12. Requeueing'
  BY <1>6, <1>9 DEF Requeueing, IsNext, verdicts
<1>13. FailureJustified'
  <2> SUFFICES ASSUME NEW s \in Shards, failed'[s] PROVE Cardinality(Blamed(s)') > MaxRetries
    BY DEF FailureJustified, Blamed
  <2>1. Cardinality(Blamed(s)) > MaxRetries
    BY <1>6, <1>9 DEF FailureJustified, verdicts
  <2>2. TypeOK /\ TypeOK'
    BY DEF IInv
  <2> QED
    BY <1>8, <1>9, <2>1, <2>2, BlamedCount, BlamedGrows, Numbers
<1>14. Local(w)'
  <2>1. tok[w] = 0 /\ moving = {}
    <3>1. pc[w] \notin Holding /\ pc[w] \notin Gone
      BY <1>6 DEF Holding, Processing, Gone
    <3> QED
      BY <1>9, <3>1 DEF IInv, Tokens, Local
  <2>2. seen[w] = "none" /\ verdict[w] \notin {"done", "failed"}
    BY <1>6, <1>9 DEF Local
  <2> QED
    BY <1>6, <1>7, <1>10, <2>1, <2>2 DEF Local, verdicts
<1>15. \A v \in Workers : v # w =>
              UNCHANGED <<pc[v], cur[v], tok[v], seen[v], verdict[v], tally[v]>>
  BY OwnStep DEF WorkerStep
<1> QED
  BY <1>6, <1>8, <1>11, <1>12, <1>13, <1>14, <1>15, RecordsStep DEF Shared, verdicts

(* Publishing the result: done[s] # 0 only of the attempt that links it.   *)
LEMMA RecordsLink ==
    ASSUME IInv, IInv', Records, NEW w \in Workers, Link(w)
    PROVE  Records'
<1>1. /\ UNCHANGED <<failed, attempts, blamed, moving, archiving, cur, tok, seen, tally>>
      /\ pc[w] = "link" /\ pc'[w] = "unlink"
  BY DEF Link, Goto, retry, budget, IInv, TypeOK
<1>2. Recorded /\ Requeueing /\ FailureJustified /\ Local(w) /\ cur[w] \in Shards
  BY DEF Records, Shared, IInv, TypeOK
<1>3. tok[w] # 0 /\ tok[w] \in DOMAIN attempts /\ moving = {}
  <2>1. pc[w] \in Holding /\ pc[w] \notin Gone
    BY <1>1 DEF Holding, Processing, Gone
  <2> QED
    BY <1>2, <2>1, Named DEF IInv, Tokens, Local
<1>4. \A v \in Workers : v # w =>
              UNCHANGED <<pc[v], cur[v], tok[v], seen[v], verdict[v], tally[v]>>
  BY OwnStep DEF WorkerStep
<1>5. CASE done[cur[w]] = 0
  <2>1. /\ done' = [done EXCEPT ![cur[w]] = tok[w]] /\ verdict'[w] = "done"
        /\ cur[w] \in DOMAIN done
    BY <1>2, <1>5 DEF Link, End, IInv, TypeOK
  <2>2. /\ done'[cur[w]] = tok[w]
        /\ \A s \in Shards : s # cur[w] => done'[s] = done[s]
    BY <2>1 DEF IInv, TypeOK
  <2>3. attempts[tok[w]].shard = cur[w] /\ attempts[tok[w]].kept
    BY <1>2, <1>3 DEF Local
  <2>4. Grown
    BY <1>1 DEF Grown
  <2>5. Recorded'
    <3>1. ASSUME NEW t \in DOMAIN attempts, attempts[t].status = "done"
          PROVE  done'[attempts[t].shard] = t
      <4>1. done[attempts[t].shard] = t /\ attempts[t].shard \in Shards /\ t # 0
        BY <1>2, <3>1, Named DEF Recorded, Attempt
      <4>2. attempts[t].shard # cur[w]
        BY <1>5, <4>1
      <4> QED
        BY <2>2, <4>1, <4>2
    <3>2. \A s \in Shards : done'[s] # 0 =>
            done'[s] \in DOMAIN attempts /\ attempts[done'[s]].shard = s /\ attempts[done'[s]].kept
      BY <1>2, <1>3, <2>2, <2>3 DEF Recorded
    <3> QED
      BY <1>1, <1>2, <3>1, <3>2 DEF Recorded
  <2>6. Shared'
    BY <1>1, <1>2, <1>3, <2>5 DEF Shared, Requeueing, FailureJustified, Blamed, IsNext
  <2>7. Local(w)'
    BY <1>1, <1>2, <1>3, <2>1, <2>2, <2>3 DEF Local
  <2> QED
    BY <1>1, <1>4, <1>5, <2>2, <2>4, <2>6, <2>7, RecordsStep
<1>6. CASE done[cur[w]] # 0
  <2>1. done' = done /\ verdict'[w] = "superseded"
    BY <1>6 DEF Link, End, IInv, TypeOK
  <2>2. verdict[w] # "done"
    BY <1>1, <1>2 DEF Local
  <2>3. Local(w)'
    BY <1>1, <1>2, <1>3, <2>1, <2>2 DEF Local
  <2> QED
    BY <1>1, <1>4, <2>1, <2>3, QuietRecords DEF verdicts
<1> QED
  BY <1>5, <1>6

(* Publishing a failure: only with more blamed attempts than retries.      *)
LEMMA RecordsFailed ==
    ASSUME IInv, IInv', Records, NEW w \in Workers, Refuse(w) \/ GiveUp(w)
    PROVE  Records'
<1>1. /\ UNCHANGED <<done, attempts, blamed, moving, archiving, tok, seen, verdict, tally>>
      /\ failed' = [failed EXCEPT ![cur[w]] = TRUE]
      /\ pc[w] \in {"refuse", "giveup"}
  BY DEF Refuse, GiveUp, results, retry, budget
<1>2. Recorded /\ Requeueing /\ FailureJustified /\ Local(w) /\ cur[w] \in Shards
  BY DEF Records, Shared, IInv, TypeOK
<1>3. moving = {} /\ (tok[w] # 0 <=> GiveUp(w))
  <2>1. pc[w] \notin Gone /\ (GiveUp(w) => pc[w] \in Holding) /\ (Refuse(w) => pc[w] \notin Holding)
    BY <1>1 DEF Holding, Processing, Gone, Refuse, GiveUp
  <2> QED
    BY <1>2, <2>1 DEF IInv, Tokens, Local
<1>4. \A v \in Workers : v # w =>
              UNCHANGED <<pc[v], cur[v], tok[v], seen[v], verdict[v], tally[v]>>
  BY OwnStep DEF WorkerStep
<1>5. Grown
  BY <1>1 DEF Grown
<1>6. Shared'
  <2>1. Recorded' /\ Requeueing'
    BY <1>1, <1>2, <1>3 DEF Recorded, Requeueing
  <2>2. \A s \in Shards : failed'[s] => Cardinality(Blamed(s)) > MaxRetries
    BY <1>1, <1>2 DEF Local, FailureJustified, IInv, TypeOK
  <2>3. FailureJustified'
    BY <1>1, <2>2 DEF FailureJustified, Blamed
  <2> QED
    BY <2>1, <2>3 DEF Shared
<1>7. w \in DOMAIN pc
  BY DEF IInv, TypeOK
<1>8. Local(w)'
  <2>1. CASE Refuse(w)
    <3>1. pc[w] = "refuse" /\ pc'[w] \in {"look", "status"}
      BY <1>7, <2>1 DEF Refuse, NextShard, Goto
    <3>2. tok'[w] = 0 /\ seen'[w] = "none" /\ verdict'[w] \notin {"done", "failed"} /\ moving' = {}
      <4>1. ~GiveUp(w)
        BY <3>1 DEF GiveUp
      <4> QED
        BY <1>1, <1>2, <1>3, <3>1, <4>1 DEF Local
    <3> QED
      BY <3>1, <3>2, LocalFree
  <2>2. CASE GiveUp(w)
    <3>1. pc[w] = "giveup" /\ pc'[w] = "unlink" /\ cur' = cur
      BY <1>7, <2>2 DEF GiveUp, Goto
    <3> QED
      BY <1>1, <1>2, <1>3, <3>1 DEF Local
  <2> QED
    BY <2>1, <2>2
<1> QED
  BY <1>1, <1>4, <1>5, <1>6, <1>8, RecordsStep

(* The retry command, when no worker is there to be disturbed.             *)
LEMMA GoneLocal ==
    ASSUME IInv, NEW v \in Workers, Local(v), pc[v] \in Gone,
           UNCHANGED <<pc, tok, seen, verdict>>
    PROVE  Local(v)'
<1>1. pc[v] \notin Holding \cup {"write", "refuse", "unlink", "finish", "return"}
  BY DEF Holding, Processing, Gone
<1>2. tok[v] = 0 /\ seen[v] = "none" /\ verdict[v] \notin {"done", "failed"}
  BY <1>1 DEF IInv, Tokens, Local, Gone
<1> QED
  BY <1>1, <1>2, LocalFree DEF Gone

LEMMA RecordsRetry ==
    ASSUME IInv, IInv', Records, "early" \notin Faults,
           \/ \E S \in SUBSET Shards : Requeue(S)
           \/ \E s \in Shards : ArchiveVerdict(s) \/ ArchiveAttempts(s)
    PROVE  Records'
<1>1. Recorded /\ Requeueing /\ FailureJustified /\ \A v \in Workers : Local(v)
  BY DEF Records, Shared
<1>2. UNCHANGED <<done, pc, cur, tok, seen, verdict, tally, blamed>>
  BY DEF Requeue, ArchiveVerdict, ArchiveAttempts, results, verdicts, budget
<1>3. \A v \in Workers : pc[v] \in Gone
  <2>1. CASE \E S \in SUBSET Shards : Requeue(S)
    BY <2>1 DEF Requeue
  <2>2. CASE \E s \in Shards : ArchiveVerdict(s) \/ ArchiveAttempts(s)
    BY <1>1, <2>2 DEF ArchiveVerdict, ArchiveAttempts, IsNext, Local
  <2> QED
    BY <2>1, <2>2
<1>4. \A v \in Workers : Local(v)'
  BY <1>1, <1>2, <1>3, GoneLocal
<1>5. moving \subseteq Shards /\ Shards \subseteq Int
  BY DEF IInv, TypeOK, Shards
<1>6. ASSUME NEW S \in SUBSET Shards, Requeue(S) PROVE Shared'
  <2>1. /\ UNCHANGED <<failed, attempts, archiving>> /\ moving = {} /\ moving' = S
        /\ \A s \in S : done[s] = 0
    BY <1>6 DEF Requeue, verdicts
  <2>2. Recorded' /\ FailureJustified'
    BY <1>1, <1>2, <2>1 DEF Recorded, FailureJustified, Blamed
  <2>3. Requeueing'
    BY <1>1, <1>2, <2>1 DEF Requeueing
  <2> QED
    BY <2>2, <2>3 DEF Shared
<1>7. ASSUME NEW s \in Shards, ArchiveVerdict(s) PROVE Shared'
  <2>1. /\ UNCHANGED <<attempts, moving>> /\ archiving' = TRUE /\ IsNext(s)
        /\ failed' = [failed EXCEPT ![s] = FALSE]
    BY <1>7 DEF ArchiveVerdict
  <2>2. ~failed'[s] /\ \A r \in Shards : failed'[r] => failed[r]
    BY <2>1 DEF IInv, TypeOK
  <2>3. Recorded' /\ FailureJustified'
    BY <1>1, <1>2, <2>1, <2>2 DEF Recorded, FailureJustified, Blamed
  <2>4. \A r \in Shards : IsNext(r) => r = s
    BY <1>5, <2>1 DEF IsNext
  <2>5. Requeueing'
    BY <1>1, <1>2, <2>1, <2>2, <2>4 DEF Requeueing, IsNext
  <2> QED
    BY <2>3, <2>5 DEF Shared
<1>8. ASSUME NEW s \in Shards, ArchiveAttempts(s) PROVE Shared'
  <2>1. /\ failed' = failed /\ archiving /\ archiving' = FALSE /\ IsNext(s)
        /\ moving' = moving \ {s}
        /\ attempts' = [t \in DOMAIN attempts |->
                          IF attempts[t].shard = s THEN [attempts[t] EXCEPT !.kept = FALSE]
                          ELSE attempts[t]]
    BY <1>8 DEF ArchiveAttempts, verdicts
  <2>2. ~failed[s] /\ done[s] = 0
    BY <1>1, <2>1 DEF Requeueing, IsNext
  <2>3. /\ DOMAIN attempts' = DOMAIN attempts
        /\ \A t \in DOMAIN attempts :
              /\ attempts'[t].shard = attempts[t].shard
              /\ attempts'[t].status = attempts[t].status
              /\ attempts[t].shard # s => attempts'[t] = attempts[t]
    <3>1. DOMAIN attempts' = DOMAIN attempts
      BY <2>1
    <3>2. ASSUME NEW t \in DOMAIN attempts
          PROVE  /\ attempts'[t].shard = attempts[t].shard
                 /\ attempts'[t].status = attempts[t].status
                 /\ attempts[t].shard # s => attempts'[t] = attempts[t]
      <4>1. attempts[t] \in Attempt
        BY Named
      <4>2. attempts'[t] = IF attempts[t].shard = s THEN [attempts[t] EXCEPT !.kept = FALSE]
                           ELSE attempts[t]
        BY <2>1
      <4> QED
        BY <4>1, <4>2 DEF Attempt
    <3> QED
      BY <3>1, <3>2
  <2>4. Recorded'
    <3>1. \A t \in DOMAIN attempts' :
            /\ attempts'[t].status = "done" => done'[attempts'[t].shard] = t
            /\ attempts'[t].status \in {"failed", "stale"} => t \in blamed'
      BY <1>1, <1>2, <2>3 DEF Recorded
    <3>2. \A r \in Shards : done'[r] # 0 =>
            done'[r] \in DOMAIN attempts' /\ attempts'[done'[r]].shard = r /\ attempts'[done'[r]].kept
      BY <1>1, <1>2, <2>2, <2>3 DEF Recorded
    <3>3. blamed' \subseteq DOMAIN attempts'
      BY <1>1, <1>2, <2>3 DEF Recorded
    <3> QED
      BY <3>1, <3>2, <3>3 DEF Recorded
  <2>5. FailureJustified'
    <3> SUFFICES ASSUME NEW r \in Shards, failed'[r]
                 PROVE  Cardinality(Blamed(r)') > MaxRetries
      BY DEF FailureJustified, Blamed
    <3>1. r # s /\ Cardinality(Blamed(r)) > MaxRetries
      BY <1>1, <2>1, <2>2 DEF FailureJustified
    <3>2. Blamed(r)' = Blamed(r)
      BY <1>1, <1>2, <2>3, <3>1 DEF Blamed, Recorded
    <3> QED
      BY <3>1, <3>2
  <2>6. Requeueing'
    BY <1>1, <1>2, <2>1 DEF Requeueing
  <2> QED
    BY <2>4, <2>5, <2>6 DEF Shared
<1> QED
  BY <1>4, <1>6, <1>7, <1>8 DEF Records

LEMMA RecordsNext ==
    ASSUME IInv, IInv', Records, "early" \notin Faults, [Next]_vars
    PROVE  Records'
<1>1. ASSUME NEW w \in Workers, WorkerStep(w) \/ Crash(w) \/ Launch(w)
      PROVE  Records'
  <2>1. CASE \/ Look(w) \/ NoLock(w) \/ Leave(w) \/ TakeOver(w) \/ Drop(w)
             \/ Recheck(w) \/ CheckRetries(w) \/ LoseClaim(w) \/ Poll(w)
    BY <2>1, RecordsIdle
  <2>2. CASE Vanished(w) \/ Return(w) \/ Crash(w) \/ Launch(w)
    <3>1. CASE Vanished(w)
      BY <3>1, RecordsFree
    <3>2. CASE Return(w)
      BY <3>2, RecordsFree
    <3>3. CASE Crash(w)
      BY <3>3, RecordsFree
    <3>4. CASE Launch(w)
      BY <3>4, RecordsFree
    <3> QED
      BY <2>2, <3>1, <3>2, <3>3, <3>4
  <2>3. CASE \/ Begin(w) \/ Run(w) \/ Publish(w) \/ Unlink(w) \/ CountFailures(w)
             \/ Release(w) \/ ReleaseLost(w)
    BY <2>3, RecordsHolding
  <2>8. CASE PublishLost(w)
    <3>1. CASE attempts[tok[w]].kept
      BY <2>8, <3>1, RecordsHolding
    <3>2. CASE attempts[tok[w]].kept = FALSE
      BY <2>8, <3>2, RecordsFree
    <3>3. attempts[tok[w]].kept \in BOOLEAN
      <4>1. pc[w] \in Holding
        BY <2>8 DEF PublishLost, Holding, Processing
      <4>2. attempts[tok[w]] \in Attempt
        BY <4>1, Named DEF IInv, Tokens
      <4> QED
        BY <4>2 DEF Attempt
    <3> QED
      BY <3>1, <3>2, <3>3
  <2>4. CASE Mark(w) \/ Register(w) \/ WriteBack(w) \/ Finish(w) \/ Fail(w)
    BY <2>4, RecordsWriting
  <2>5. CASE Claim(w)
    BY <2>5, RecordsClaim
  <2>6. CASE Link(w)
    BY <2>6, RecordsLink
  <2>7. CASE Refuse(w) \/ GiveUp(w)
    BY <2>7, RecordsFailed
  <2> QED
    BY <1>1, <2>1, <2>2, <2>3, <2>4, <2>5, <2>6, <2>7, <2>8 DEF WorkerStep
<1>2. ASSUME \E S \in SUBSET Shards : Requeue(S) PROVE Records'
  BY <1>2, RecordsRetry
<1>3. ASSUME RequeueStep PROVE Records'
  BY <1>3, RecordsRetry DEF RequeueStep
<1>4. ASSUME (\E s \in Shards : Expire(s)) \/ UNCHANGED vars PROVE Records'
  <2>1. UNCHANGED <<done, failed, attempts, pc, cur, tok, seen, verdict, tally,
                    moving, archiving, blamed>>
    BY <1>4 DEF Expire, vars, verdicts, results, retry, budget
  <2>2. Shared'
    BY <2>1 DEF Records, Shared, Recorded, Requeueing, FailureJustified, Blamed, IsNext
  <2>3. \A v \in Workers : Local(v)'
    BY <2>1 DEF Records, Local, Blamed
  <2> QED
    BY <2>2, <2>3 DEF Records
<1>5. ASSUME KillRequeue PROVE Records'
  <2>1. /\ UNCHANGED <<done, failed, attempts, pc, cur, tok, seen, verdict, tally, blamed>>
        /\ moving' = {} /\ archiving' = FALSE
    BY <1>5 DEF KillRequeue, verdicts, results
  <2>2. Shared'
    BY <2>1 DEF Records, Shared, Recorded, Requeueing, FailureJustified, Blamed
  <2>3. \A v \in Workers : Local(v)'
    BY <2>1 DEF Records, Local, Blamed
  <2> QED
    BY <2>2, <2>3 DEF Records
<1> QED
  BY <1>1, <1>2, <1>3, <1>4, <1>5 DEF Next

LEMMA RecordsInit == Init => Records
<1> SUFFICES ASSUME Init PROVE Records
  OBVIOUS
<1>1. DOMAIN attempts = {}
  BY DEF Init
<1>2. Shared
  BY <1>1 DEF Init, Shared, Recorded, Requeueing, FailureJustified
<1>3. \A w \in Workers : Local(w)
  BY DEF Init, Local
<1> QED
  BY <1>2, <1>3 DEF Records

LEMMA RecordsAlways == "early" \notin Faults => (Spec => []Records)
<1>1. CASE "early" \notin Faults
  <2>1. IInv /\ Records /\ [Next]_vars => (IInv /\ Records)'
    BY <1>1, IInvNext, RecordsNext
  <2> QED
    BY <2>1, IInvInit, RecordsInit, PTL DEF Spec
<1>2. CASE "early" \in Faults
  BY <1>2
<1> QED
  BY <1>1, <1>2

(* What attempt.json and state/done say of each other is true, whatever    *)
(* workers crash, whatever claims are taken over and however many attempts *)
(* outlast the timeout: the attempt recorded as done is the one merge_job  *)
(* takes.                                                                  *)
THEOREM VerdictsRecorded == "early" \notin Faults => (Spec => []DoneRecorded)
<1>1. Records => DoneRecorded
  BY DEF Records, Shared, Recorded, DoneRecorded
<1>2. CASE "early" \notin Faults
  BY <1>1, <1>2, RecordsAlways, PTL
<1>3. CASE "early" \in Faults
  BY <1>3
<1> QED
  BY <1>2, <1>3

(* No shard fails before more than max_retries of its attempts were        *)
(* recorded as failed or stale.                                            *)
THEOREM FailuresJustified == "early" \notin Faults => (Spec => []FailureJustified)
<1>1. Records => FailureJustified
  BY DEF Records, Shared
<1>2. CASE "early" \notin Faults
  BY <1>1, <1>2, RecordsAlways, PTL
<1>3. CASE "early" \in Faults
  BY <1>3
<1> QED
  BY <1>2, <1>3
=============================================================================
