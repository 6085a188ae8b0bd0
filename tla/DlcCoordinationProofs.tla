----------------------- MODULE DlcCoordinationProofs -----------------------
(* Proofs about the dlc entry point, for any number of instances, shards   *)
(* and submissions, with any set of faults.                                *)
EXTENDS DlcCoordination, FiniteSetTheorems, WellFoundedInduction, TLAPS

LEMMA Numbers ==
    /\ NumShards \in Nat \ {0} /\ Nodes \in Nat \ {0} /\ MaxRetries \in Nat
    /\ MaxSubmissions \in Nat \ {0} /\ Shards \subseteq Nat
    /\ None \notin Codes /\ None \notin Shards /\ None \notin Instances
BY CountsAssumption, NoneAssumption DEF Shards, Codes

(* The owners of a job can be counted.                                      *)
LEMMA OwnersFinite == TypeOK => IsFiniteSet(Owners)
<1> SUFFICES ASSUME TypeOK PROVE IsFiniteSet(Owners)
  OBVIOUS
<1>1. IsFiniteSet(Shards)
  BY Numbers, FS_Interval DEF Shards
<1> DEFINE Values == {owner[s] : s \in Shards}
<1>2. owner \in Surjection(Shards, Values)
  BY DEF TypeOK, Surjection
<1>3. IsFiniteSet(Values)
  BY <1>1, <1>2, FS_Surjection
<1> QED
  BY <1>3, FS_Difference DEF Owners

LEMMA OwnersCounted == TypeOK => Cardinality(Owners) \in Nat
  BY OwnersFinite, FS_CardinalityType

(* An instance that the election of a phase has chosen.                    *)
Chosen(i, ph) ==
    \/ i \in elected[ph]
    \/ ph = "prepare" /\ pc[i] \in {"prepare", "report"}
    \/ ph = "finalize" /\ pc[i] \in {"verify", "reportFinal"}

(* One instance is chosen for a phase, it holds the lock of the phase, and *)
(* a result is there when it has done with the phase.                      *)
Elections ==
    \A ph \in {"prepare", "finalize"} :
        /\ \A i, j \in Instances : Chosen(i, ph) /\ Chosen(j, ph) => i = j
        /\ \A i \in Instances : Chosen(i, ph) => ph \in locks
        /\ results[ph] # None => elected[ph] # {}
        /\ \A i \in Instances :
              /\ pc[i] = "report" => i \in elected["prepare"]
              /\ pc[i] = "reportFinal" => i \in elected["finalize"]
              /\ results["prepare"] # None => pc[i] \notin {"prepare", "report"}
              /\ results["finalize"] # None => pc[i] \notin {"verify", "reportFinal"}

(* Where an instance is only after preparation.                            *)
After == {"checkFinal", "checkAbort", "work", "busy", "decide", "wait", "count",
          "signal", "writeAbort", "awaitAbort", "final", "electFinal", "verify",
          "reportFinal", "awaitFinal"}

(* A manifest that an instance did not see before the election was made in *)
(* this submission, and nobody goes on without one: with the one of an     *)
(* earlier submission only after preparation has succeeded.                *)
Preparation ==
    /\ results["prepare"] = 0 => manifest
    /\ \A i \in Instances :
          /\ pc[i] \in {"elect", "awaitPrepare"} /\ manifest /\ ~preexisted[i] =>
                elected["prepare"] # {}
          /\ pc[i] = "report" /\ code[i] = 0 => manifest
          /\ pc[i] \in After =>
                /\ manifest /\ elected["prepare"] # {}
                /\ preexisted[i] => results["prepare"] = 0

Verified == AllDone /\ (Strict => Cardinality(Owners) >= Nodes)

(* A held shard is not done, so that a finished job stays as it is; and    *)
(* the code 0 comes from a verification only.                              *)
Verification ==
    /\ \A s \in Shards : holder[s] # None => owner[s] = None
    /\ results["abort"] # 0
    /\ results["finalize"] = 0 => Verified
    /\ \A i \in Instances :
          /\ pc[i] = "busy" => cur[i] \in Shards
          /\ pc[i] \in {"signal", "writeAbort"} => code[i] # 0
          /\ pc[i] \in {"final", "electFinal", "verify"} => AllDone
          /\ pc[i] = "reportFinal" /\ code[i] = 0 => Verified
          /\ pc[i] = "exit" /\ code[i] = 0 => results["finalize"] = 0

IInv == TypeOK /\ Elections /\ Preparation /\ Verification

-----------------------------------------------------------------------------
LEMMA IInvInit == Init => IInv
<1> SUFFICES ASSUME Init PROVE IInv
  OBVIOUS
<1>1. TypeOK
  <2>1. results \in [Phases -> Codes \cup {None}]
    BY DEF Init, NoResults
  <2>2. elected \in [{"prepare", "finalize"} -> SUBSET Instances]
    BY DEF Init, NoElections
  <2>3. submissions \in 1..MaxSubmissions
    BY Numbers DEF Init
  <2> QED
    BY <2>1, <2>2, <2>3 DEF Init, TypeOK, Places, Codes
<1>2. results = [ph \in Phases |-> None] /\ \A ph \in {"prepare", "finalize"} : elected[ph] = {}
  BY DEF Init, NoResults, NoElections
<1>3. None # 0
  BY Numbers DEF Codes
<1>4. Elections
  BY <1>2 DEF Init, Elections, Chosen, Phases
<1>5. Preparation
  BY <1>2, <1>3 DEF Init, Preparation, After, Phases
<1>6. Verification
  BY <1>2, <1>3 DEF Init, Verification, Phases
<1> QED
  BY <1>1, <1>4, <1>5, <1>6 DEF IInv

(* A step of one instance leaves the others where they are.                *)
LEMMA Moves ==
    ASSUME TypeOK, NEW i \in Instances, Progress(i) \/ Kill(i)
    PROVE  /\ \A j \in Instances : j # i =>
                 /\ pc'[j] = pc[j] /\ code'[j] = code[j]
                 /\ preexisted'[j] = preexisted[j] /\ cur'[j] = cur[j]
           /\ pc' \in [Instances -> Places]
<1>1. pc' = pc \/ \E place \in Places : pc' = [pc EXCEPT ![i] = place]
  <2>1. CASE Start(i) \/ Glance(i) \/ Elect(i) \/ Prepare(i) \/ ReportPrepare(i)
             \/ AwaitPrepare(i) \/ CheckFinal(i) \/ CheckAbort(i)
    BY <2>1 DEF Start, Glance, Elect, Prepare, ReportPrepare, AwaitPrepare, CheckFinal,
                CheckAbort, Adopt, TryAcquire, TimeOut, ExitWith, Goto, Places, Gone
  <2>2. CASE Claim(i) \/ Complete(i) \/ FailAttempt(i) \/ Superseded(i)
             \/ Return(i) \/ WorkerFails(i) \/ Decide(i)
    BY <2>2 DEF Claim, Complete, FailAttempt, Superseded, Return, WorkerFails, Decide,
                Processed, WorkerReturns, Goto, Places
  <2>3. CASE Wait(i) \/ Count(i) \/ Deadline(i) \/ PublishAbort(i) \/ WriteAbort(i)
             \/ AwaitAbort(i)
    BY <2>3 DEF Wait, Count, Deadline, PublishAbort, WriteAbort, AwaitAbort, Adopt,
                Signal, TryAcquire, TimeOut, ExitWith, Goto, Places, Gone
  <2>4. CASE Finalize(i) \/ ElectFinal(i) \/ Verify(i) \/ ReportFinal(i) \/ AwaitFinal(i)
             \/ Kill(i)
    BY <2>4 DEF Finalize, ElectFinal, Verify, ReportFinal, AwaitFinal, Kill, Adopt,
                TryAcquire, TimeOut, ExitWith, Goto, Places, Gone
  <2> QED
    BY <2>1, <2>2, <2>3, <2>4 DEF Progress
<1>2. code' = code \/ \E c : code' = [code EXCEPT ![i] = c]
  <2>1. CASE Start(i) \/ Glance(i) \/ Elect(i) \/ Prepare(i) \/ ReportPrepare(i)
             \/ AwaitPrepare(i) \/ CheckFinal(i) \/ CheckAbort(i)
    BY <2>1 DEF Start, Glance, Elect, Prepare, ReportPrepare, AwaitPrepare, CheckFinal,
                CheckAbort, Adopt, TimeOut, ExitWith
  <2>2. CASE Claim(i) \/ Complete(i) \/ FailAttempt(i) \/ Superseded(i)
             \/ Return(i) \/ WorkerFails(i) \/ Decide(i)
    BY <2>2 DEF Claim, Complete, FailAttempt, Superseded, Return, WorkerFails, Decide,
                WorkerReturns
  <2>3. CASE Wait(i) \/ Count(i) \/ Deadline(i) \/ PublishAbort(i) \/ WriteAbort(i)
             \/ AwaitAbort(i)
    BY <2>3 DEF Wait, Count, Deadline, PublishAbort, WriteAbort, AwaitAbort, Adopt,
                Signal, TimeOut, ExitWith
  <2>4. CASE Finalize(i) \/ ElectFinal(i) \/ Verify(i) \/ ReportFinal(i) \/ AwaitFinal(i)
             \/ Kill(i)
    BY <2>4 DEF Finalize, ElectFinal, Verify, ReportFinal, AwaitFinal, Kill, Adopt,
                TimeOut, ExitWith
  <2> QED
    BY <2>1, <2>2, <2>3, <2>4 DEF Progress
<1>3. preexisted' = preexisted \/ \E x : preexisted' = [preexisted EXCEPT ![i] = x]
  BY DEF Progress, Kill, Start, Glance, Elect, Prepare, ReportPrepare, AwaitPrepare,
         CheckFinal, CheckAbort, Claim, Complete, FailAttempt, Superseded, Return,
         WorkerFails, Decide, Wait, Count, Deadline, PublishAbort, WriteAbort,
         AwaitAbort, Finalize, ElectFinal, Verify, ReportFinal, AwaitFinal, local
<1>4. cur' = cur \/ \E x : cur' = [cur EXCEPT ![i] = x]
  BY DEF Progress, Kill, Start, Glance, Elect, Prepare, ReportPrepare, AwaitPrepare,
         CheckFinal, CheckAbort, Claim, Complete, FailAttempt, Superseded, Return,
         WorkerFails, Decide, Wait, Count, Deadline, PublishAbort, WriteAbort,
         AwaitAbort, Finalize, ElectFinal, Verify, ReportFinal, AwaitFinal, local, Processed
<1> QED
  BY <1>1, <1>2, <1>3, <1>4 DEF TypeOK

(* Every code that is taken over is one that somebody wrote.               *)
LEMMA CodeType ==
    ASSUME TypeOK, NEW i \in Instances, Progress(i) \/ Kill(i)
    PROVE  code' \in [Instances -> Codes]
<1>1. 0 \in Codes /\ 2 \in Codes
  BY DEF Codes
<1>2. \A ph \in Phases : results[ph] # None => results[ph] \in Codes
  BY DEF TypeOK
<1>3. code' = code \/ \E c \in Codes : code' = [code EXCEPT ![i] = c]
  <2>1. CASE Start(i) \/ Glance(i) \/ Elect(i) \/ Prepare(i) \/ ReportPrepare(i)
             \/ AwaitPrepare(i) \/ CheckFinal(i) \/ CheckAbort(i)
    BY <1>1, <1>2, <2>1 DEF Start, Glance, Elect, Prepare, ReportPrepare, AwaitPrepare,
                CheckFinal, CheckAbort, Adopt, TimeOut, ExitWith, Phases
  <2>2. CASE Claim(i) \/ Complete(i) \/ FailAttempt(i) \/ Superseded(i)
             \/ Return(i) \/ WorkerFails(i) \/ Decide(i)
    BY <1>1, <2>2 DEF Claim, Complete, FailAttempt, Superseded, Return, WorkerFails,
                Decide, WorkerReturns
  <2>3. CASE Wait(i) \/ Count(i) \/ Deadline(i) \/ PublishAbort(i) \/ WriteAbort(i)
             \/ AwaitAbort(i)
    BY <1>1, <1>2, <2>3 DEF Wait, Count, Deadline, PublishAbort, WriteAbort, AwaitAbort,
                Adopt, Signal, TimeOut, ExitWith, Phases
  <2>4. CASE Finalize(i) \/ ElectFinal(i) \/ ReportFinal(i) \/ AwaitFinal(i) \/ Kill(i)
    BY <1>1, <1>2, <2>4 DEF Finalize, ElectFinal, ReportFinal, AwaitFinal, Kill, Adopt,
                TimeOut, ExitWith, Phases
  <2>5. CASE Verify(i)
    <3>1. Verdicts \subseteq Codes
      BY DEF Verdicts, Codes
    <3> QED
      BY <2>5, <3>1 DEF Verify
  <2> QED
    BY <2>1, <2>2, <2>3, <2>4, <2>5 DEF Progress
<1> QED
  BY <1>3 DEF TypeOK

LEMMA FailType ==
    ASSUME TypeOK, NEW s \in Shards, Fail(s)
    PROVE  /\ failures' \in [Shards -> Nat] /\ failed' \subseteq Shards
           /\ holder' \in [Shards -> Instances \cup {None}]
BY DEF Fail, TypeOK

LEMMA TypeNext ==
    ASSUME IInv, NEW i \in Instances, Progress(i) \/ Kill(i)
    PROVE  TypeOK'
<1> USE DEF IInv
<1>1. pc' \in [Instances -> Places] /\ code' \in [Instances -> Codes]
  BY Moves, CodeType
<1>2. CASE \/ Start(i) \/ CheckFinal(i) \/ CheckAbort(i) \/ AwaitPrepare(i)
           \/ Return(i) \/ WorkerFails(i) \/ Decide(i) \/ Wait(i) \/ Count(i)
           \/ Deadline(i) \/ AwaitAbort(i) \/ Finalize(i) \/ AwaitFinal(i) \/ Kill(i)
  <2>1. UNCHANGED <<job, coordination, submissions, local>>
    BY <1>2 DEF Start, CheckFinal, CheckAbort, AwaitPrepare, Return, WorkerFails, Decide,
                Wait, Count, Deadline, AwaitAbort, Finalize, AwaitFinal, Kill
  <2> QED
    BY <1>1, <2>1 DEF TypeOK, job, coordination, local
<1>3. CASE Glance(i)
  <2>1. preexisted' \in [Instances -> BOOLEAN]
    BY <1>3 DEF Glance, TypeOK
  <2> QED
    BY <1>1, <1>3, <2>1 DEF Glance, TypeOK, job, coordination
<1>4. CASE Elect(i) \/ PublishAbort(i) \/ ElectFinal(i)
  <2>1. locks' \subseteq Phases
    BY <1>4 DEF Elect, PublishAbort, ElectFinal, TryAcquire, TypeOK, Phases
  <2>2. UNCHANGED <<job, results, elected, submissions, local>>
    BY <1>4 DEF Elect, PublishAbort, ElectFinal
  <2> QED
    BY <1>1, <2>1, <2>2 DEF TypeOK, job, local
<1>5. CASE Prepare(i)
  <2>1. manifest' \in BOOLEAN
    BY <1>5 DEF Prepare, TypeOK
  <2>2. elected' \in [{"prepare", "finalize"} -> SUBSET Instances]
    BY <1>5 DEF Prepare, TypeOK
  <2> QED
    BY <1>1, <1>5, <2>1, <2>2 DEF Prepare, TypeOK, local
<1>6. CASE ReportPrepare(i) \/ WriteAbort(i) \/ ReportFinal(i)
  <2>1. results' \in [Phases -> Codes \cup {None}]
    BY <1>6 DEF ReportPrepare, WriteAbort, ReportFinal, Publish, TypeOK
  <2>2. UNCHANGED <<job, locks, elected, submissions, local>>
    BY <1>6 DEF ReportPrepare, WriteAbort, ReportFinal
  <2> QED
    BY <1>1, <2>1, <2>2 DEF TypeOK, job, local
<1>7. CASE Verify(i)
  <2>1. elected' \in [{"prepare", "finalize"} -> SUBSET Instances]
    BY <1>7 DEF Verify, TypeOK
  <2> QED
    BY <1>1, <1>7, <2>1 DEF Verify, TypeOK, job, local
<1>8. CASE Claim(i)
  <2>1. holder' \in [Shards -> Instances \cup {None}]
    BY <1>8 DEF Claim, TypeOK
  <2>2. cur' \in [Instances -> Shards \cup {None}]
    BY <1>8 DEF Claim, TypeOK
  <2> QED
    BY <1>1, <1>8, <2>1, <2>2 DEF Claim, TypeOK, coordination
<1>9. CASE Complete(i) \/ FailAttempt(i) \/ Superseded(i)
  <2>1. cur[i] \in Shards
    BY <1>9 DEF Complete, FailAttempt, Superseded, Verification
  <2>2. cur' \in [Instances -> Shards \cup {None}]
    BY <1>9 DEF Complete, FailAttempt, Superseded, Processed, TypeOK
  <2>3. handled' \in [Instances -> Nat]
    BY <1>9 DEF Complete, FailAttempt, Superseded, Processed, TypeOK
  <2>4. bad' \in [Instances -> Nat]
    BY <1>9 DEF Complete, FailAttempt, Superseded, TypeOK
  <2>5. /\ owner' \in [Shards -> Instances \cup {None}]
        /\ failures' \in [Shards -> Nat] /\ failed' \subseteq Shards
        /\ holder' \in [Shards -> Instances \cup {None}]
    <3>1. CASE Complete(i)
      BY <3>1 DEF Complete, TypeOK
    <3>2. CASE FailAttempt(i)
      BY <2>1, <3>2, FailType DEF FailAttempt, TypeOK
    <3>3. CASE Superseded(i)
      BY <3>3 DEF Superseded, TypeOK, job
    <3> QED
      BY <1>9, <3>1, <3>2, <3>3
  <2>6. UNCHANGED <<manifest, coordination, submissions, preexisted>>
    BY <1>9 DEF Complete, FailAttempt, Superseded, job
  <2> QED
    BY <1>1, <2>2, <2>3, <2>4, <2>5, <2>6 DEF TypeOK, coordination
<1> QED
  BY <1>2, <1>3, <1>4, <1>5, <1>6, <1>7, <1>8, <1>9 DEF Progress

(* Where the commands of the phases run and are reported.                  *)
Running == {"prepare", "report", "verify", "reportFinal"}

LEMMA ElectionsNext ==
    ASSUME IInv, NEW i \in Instances, Progress(i) \/ Kill(i)
    PROVE  Elections'
<1> USE DEF IInv
<1>1. /\ \A j \in Instances : j # i => pc'[j] = pc[j]
      /\ pc \in [Instances -> Places] /\ i \in DOMAIN pc
      /\ results \in [Phases -> Codes \cup {None}] /\ "prepare" \in Phases
      /\ "finalize" \in Phases /\ "abort" \in Phases
      /\ elected \in [{"prepare", "finalize"} -> SUBSET Instances]
  BY Moves DEF TypeOK, Phases
<1>2. CASE \/ Start(i) \/ Glance(i) \/ CheckFinal(i) \/ CheckAbort(i) \/ AwaitPrepare(i)
           \/ Claim(i) \/ Complete(i) \/ FailAttempt(i) \/ Superseded(i)
           \/ Return(i) \/ WorkerFails(i) \/ Decide(i) \/ Wait(i) \/ Count(i)
           \/ Deadline(i) \/ AwaitAbort(i) \/ Finalize(i) \/ AwaitFinal(i) \/ Kill(i)
  <2>1. UNCHANGED <<locks, results, elected>>
    BY <1>2 DEF Start, Glance, CheckFinal, CheckAbort, AwaitPrepare, Claim, Complete,
                FailAttempt, Superseded, Return, WorkerFails, Decide, Wait, Count,
                Deadline, AwaitAbort, Finalize, AwaitFinal, Kill, coordination
  <2>2. pc'[i] \notin Running
    BY <1>1, <1>2 DEF Start, Glance, CheckFinal, CheckAbort, AwaitPrepare, Claim, Complete,
                FailAttempt, Superseded, Return, WorkerFails, Decide, Wait, Count,
                Deadline, AwaitAbort, Finalize, AwaitFinal, Kill, Adopt, TimeOut, ExitWith,
                Signal, Processed, WorkerReturns, Goto, Running
  <2> QED
    BY <1>1, <2>1, <2>2 DEF Elections, Chosen, Running
<1>3. CASE Elect(i) \/ PublishAbort(i) \/ ElectFinal(i)
  <2>1. PICK phase \in Phases, won \in Places, lost \in Places :
            /\ locks' = locks \cup {phase}
            /\ pc'[i] = IF phase \in locks THEN lost ELSE won
            /\ lost \notin Running
            /\ \/ phase = "prepare" /\ won = "prepare"
               \/ phase = "abort" /\ won = "writeAbort"
               \/ phase = "finalize" /\ won = "verify"
    BY <1>1, <1>3 DEF Elect, PublishAbort, ElectFinal, TryAcquire, Goto, Phases, Places, Running
  <2>2. UNCHANGED <<results, elected>>
    BY <1>3 DEF Elect, PublishAbort, ElectFinal
  <2>3. ASSUME NEW j \in Instances, NEW ph \in {"prepare", "finalize"}, Chosen(j, ph)'
        PROVE  Chosen(j, ph) \/ (j = i /\ ph = phase /\ phase \notin locks)
    <3>1. CASE j # i
      BY <1>1, <2>2, <2>3, <3>1 DEF Chosen
    <3>2. CASE j = i /\ j \in elected[ph]
      BY <3>2 DEF Chosen
    <3>3. CASE j = i /\ j \notin elected[ph]
      <4>1. \/ ph = "prepare" /\ pc'[i] \in {"prepare", "report"}
            \/ ph = "finalize" /\ pc'[i] \in {"verify", "reportFinal"}
        BY <2>2, <2>3, <3>3 DEF Chosen
      <4>2. pc'[i] \in Running
        BY <4>1 DEF Running
      <4>3. phase \notin locks /\ pc'[i] = won
        BY <2>1, <4>2
      <4> QED
        BY <2>1, <3>3, <4>1, <4>3
    <3> QED
      BY <3>1, <3>2, <3>3
  <2>4. ASSUME NEW ph \in {"prepare", "finalize"}, results[ph] # None
        PROVE  ph \in locks
    BY <1>1, <2>4 DEF Elections, Chosen
  <2>5. \A ph \in {"prepare", "finalize"} :
            /\ \A j, k \in Instances : Chosen(j, ph)' /\ Chosen(k, ph)' => j = k
            /\ \A j \in Instances : Chosen(j, ph)' => ph \in locks'
            /\ results'[ph] # None => elected'[ph] # {}
    BY <2>1, <2>2, <2>3 DEF Elections
  <2>6. ASSUME NEW j \in Instances
        PROVE  /\ pc'[j] = "report" => j \in elected'["prepare"]
               /\ pc'[j] = "reportFinal" => j \in elected'["finalize"]
               /\ results'["prepare"] # None => pc'[j] \notin {"prepare", "report"}
               /\ results'["finalize"] # None => pc'[j] \notin {"verify", "reportFinal"}
    <3>1. CASE pc'[j] = pc[j]
      BY <2>2, <3>1 DEF Elections
    <3>2. CASE j = i /\ phase \notin locks
      <4>1. pc'[j] = won
        BY <2>1, <3>2
      <4>2. won = "prepare" => results["prepare"] = None
        BY <2>1, <2>4, <3>2
      <4>3. won = "verify" => results["finalize"] = None
        BY <2>1, <2>4, <3>2
      <4> QED
        BY <2>1, <2>2, <4>1, <4>2, <4>3
    <3>3. CASE j = i /\ phase \in locks
      BY <2>1, <3>3 DEF Running
    <3> QED
      BY <1>1, <3>1, <3>2, <3>3
  <2> QED
    BY <2>5, <2>6 DEF Elections
<1>4. CASE Prepare(i)
  <2>1. /\ UNCHANGED <<locks, results>> /\ pc[i] = "prepare" /\ pc'[i] = "report"
        /\ elected'["prepare"] = elected["prepare"] \cup {i}
        /\ elected'["finalize"] = elected["finalize"]
    BY <1>1, <1>4 DEF Prepare, Goto
  <2> QED
    BY <1>1, <2>1 DEF Elections, Chosen
<1>5. CASE Verify(i)
  <2>1. /\ UNCHANGED <<locks, results>> /\ pc[i] = "verify" /\ pc'[i] = "reportFinal"
        /\ elected'["finalize"] = elected["finalize"] \cup {i}
        /\ elected'["prepare"] = elected["prepare"]
    BY <1>1, <1>5 DEF Verify, Goto
  <2> QED
    BY <1>1, <2>1 DEF Elections, Chosen
<1>6. CASE ReportPrepare(i)
  <2>1. /\ UNCHANGED <<locks, elected>> /\ pc[i] = "report" /\ pc'[i] \notin Running
        /\ results'["finalize"] = results["finalize"]
    BY <1>1, <1>6 DEF ReportPrepare, Publish, Goto, Running
  <2> QED
    BY <1>1, <2>1 DEF Elections, Chosen, Running
<1>7. CASE ReportFinal(i)
  <2>1. /\ UNCHANGED <<locks, elected>> /\ pc[i] = "reportFinal" /\ pc'[i] \notin Running
        /\ results'["prepare"] = results["prepare"]
    BY <1>1, <1>7 DEF ReportFinal, Publish, Goto, Running
  <2> QED
    BY <1>1, <2>1 DEF Elections, Chosen, Running
<1>8. CASE WriteAbort(i)
  <2>1. /\ UNCHANGED <<locks, elected>> /\ pc'[i] \notin Running
        /\ results'["prepare"] = results["prepare"]
        /\ results'["finalize"] = results["finalize"]
    BY <1>1, <1>8 DEF WriteAbort, Publish, Goto, Running
  <2> QED
    BY <1>1, <2>1 DEF Elections, Chosen, Running
<1> QED
  BY <1>2, <1>3, <1>4, <1>5, <1>6, <1>7, <1>8 DEF Progress

LEMMA PreparationNext ==
    ASSUME IInv, NEW i \in Instances, Progress(i) \/ Kill(i)
    PROVE  Preparation'
<1> USE DEF IInv
<1>1. /\ \A j \in Instances : j # i => pc'[j] = pc[j] /\ code'[j] = code[j]
                                       /\ preexisted'[j] = preexisted[j]
      /\ i \in DOMAIN pc /\ i \in DOMAIN code /\ i \in DOMAIN preexisted
      /\ "prepare" \in DOMAIN results /\ "prepare" \in DOMAIN elected /\ None # 0
  BY Moves, Numbers DEF TypeOK, Phases, Codes
<1>2. results["prepare"] # None => elected["prepare"] # {}
  BY DEF Elections
<1>3. CASE pc[i] \in After
  <2>1. /\ manifest' = manifest /\ results'["prepare"] = results["prepare"]
        /\ preexisted' = preexisted /\ elected'["prepare"] = elected["prepare"]
    BY <1>1, <1>3 DEF After, Progress, Kill, Start, Glance, Elect, Prepare, ReportPrepare,
         AwaitPrepare, CheckFinal, CheckAbort, Claim, Complete, FailAttempt, Superseded,
         Return, WorkerFails, Decide, Wait, Count, Deadline, PublishAbort, WriteAbort,
         AwaitAbort, Finalize, ElectFinal, Verify, ReportFinal, AwaitFinal, job, local,
         coordination, Publish
  <2>2. pc'[i] \notin {"elect", "awaitPrepare", "report"}
    BY <1>1, <1>3 DEF After, Progress, Kill, Start, Glance, Elect, Prepare, ReportPrepare,
         AwaitPrepare, CheckFinal, CheckAbort, Claim, Complete, FailAttempt, Superseded,
         Return, WorkerFails, Decide, Wait, Count, Deadline, PublishAbort, WriteAbort,
         AwaitAbort, Finalize, ElectFinal, Verify, ReportFinal, AwaitFinal, Adopt,
         Signal, Processed, WorkerReturns, TimeOut, ExitWith, Goto, TryAcquire
  <2> QED
    BY <1>1, <1>3, <2>1, <2>2 DEF Preparation
<1>4. CASE Kill(i)
  <2>1. UNCHANGED <<manifest, elected, results, code, preexisted>> /\ pc'[i] = "dead"
    BY <1>1, <1>4 DEF Kill, Goto, job, coordination, local
  <2> QED
    BY <1>1, <2>1 DEF Preparation, After
<1>5. CASE Start(i)
  <2>1. /\ UNCHANGED <<manifest, elected, results, preexisted>>
        /\ \/ pc'[i] = "checkFinal" /\ results["prepare"] = 0
           \/ pc'[i] \in {"glance", "exit"}
    BY <1>1, <1>5 DEF Start, Adopt, ExitWith, Goto, job, coordination, local
  <2> QED
    BY <1>1, <1>2, <2>1 DEF Preparation, After
<1>6. CASE Glance(i)
  <2>1. /\ UNCHANGED <<manifest, elected, results, code>> /\ pc'[i] = "elect"
        /\ preexisted'[i] = manifest
    BY <1>1, <1>6 DEF Glance, Goto, job, coordination
  <2> QED
    BY <1>1, <2>1 DEF Preparation, After
<1>7. CASE Elect(i)
  <2>1. /\ UNCHANGED <<manifest, elected, results, code, preexisted>> /\ pc[i] = "elect"
        /\ pc'[i] \in {"awaitPrepare", "prepare"}
    BY <1>1, <1>7 DEF Elect, TryAcquire, Goto, job, local
  <2> QED
    BY <1>1, <2>1 DEF Preparation, After
<1>8. CASE Prepare(i)
  <2>1. UNCHANGED <<results, preexisted>> /\ pc'[i] = "report" /\ elected'["prepare"] # {}
    BY <1>1, <1>8 DEF Prepare, Goto, local
  <2>2. manifest => manifest'
    BY <1>8 DEF Prepare, TypeOK
  <2>3. code'[i] = 0 => manifest'
    BY <1>1, <1>8 DEF Prepare
  <2> QED
    BY <1>1, <2>1, <2>2, <2>3 DEF Preparation, After
<1>9. CASE ReportPrepare(i)
  <2>1. /\ UNCHANGED <<manifest, elected, code, preexisted>> /\ pc[i] = "report"
        /\ pc'[i] = IF code[i] = 0 THEN "checkFinal" ELSE "exit"
        /\ results'["prepare"] = code[i]
    BY <1>1, <1>9 DEF ReportPrepare, Publish, Goto, job, local
  <2>2. i \in elected["prepare"] /\ results["prepare"] = None
    BY <2>1 DEF Elections
  <2> QED
    BY <1>1, <2>1, <2>2 DEF Preparation, After
<1>10. CASE AwaitPrepare(i)
  <2>1. /\ UNCHANGED <<manifest, elected, results, preexisted>> /\ pc[i] = "awaitPrepare"
        /\ \/ pc'[i] = "checkFinal" /\ manifest /\ ~preexisted[i]
           \/ pc'[i] = "checkFinal" /\ results["prepare"] = 0
           \/ pc'[i] = "exit"
    BY <1>1, <1>10 DEF AwaitPrepare, Adopt, TimeOut, ExitWith, Goto, job, coordination, local
  <2> QED
    BY <1>1, <1>2, <2>1 DEF Preparation, After
<1> QED
  BY <1>3, <1>4, <1>5, <1>6, <1>7, <1>8, <1>9, <1>10
     DEF Progress, After, CheckFinal, CheckAbort, Claim, Complete, FailAttempt, Superseded,
         Return, WorkerFails, Decide, Wait, Count, Deadline, PublishAbort, WriteAbort,
         AwaitAbort, Finalize, ElectFinal, Verify, ReportFinal, AwaitFinal

(* A finished job stays as it is, and held shards are pending.             *)
LEMMA ShardsNext ==
    ASSUME IInv, NEW i \in Instances, Progress(i) \/ Kill(i)
    PROVE  /\ \A s \in Shards : holder'[s] # None => owner'[s] = None
           /\ AllDone => UNCHANGED owner
<1> USE DEF IInv
<1>1. /\ \A s \in Shards : holder[s] # None => owner[s] = None
      /\ pc[i] = "busy" => cur[i] \in Shards
      /\ holder \in [Shards -> Instances \cup {None}] /\ i # None
      /\ owner \in [Shards -> Instances \cup {None}]
  BY Numbers DEF Verification, TypeOK
<1>2. CASE Complete(i)
  <2>1. /\ cur[i] \in Shards /\ holder[cur[i]] = i
        /\ owner' = [owner EXCEPT ![cur[i]] = i]
        /\ holder' = [holder EXCEPT ![cur[i]] = None]
    BY <1>1, <1>2 DEF Complete
  <2>2. owner[cur[i]] = None
    BY <1>1, <2>1
  <2> QED
    BY <1>1, <2>1, <2>2 DEF AllDone
<1>3. CASE Claim(i)
  BY <1>1, <1>3 DEF Claim, Claimable
<1>4. CASE FailAttempt(i)
  BY <1>1, <1>4 DEF FailAttempt, Fail
<1>5. CASE ~(Complete(i) \/ Claim(i) \/ FailAttempt(i))
  <2>1. UNCHANGED <<owner, holder>>
    BY <1>5 DEF Progress, Kill, Start, Glance, Elect, Prepare, ReportPrepare,
         AwaitPrepare, CheckFinal, CheckAbort, Superseded,
         Return, WorkerFails, Decide, Wait, Count, Deadline, PublishAbort, WriteAbort,
         AwaitAbort, Finalize, ElectFinal, Verify, ReportFinal, AwaitFinal, job
  <2> QED
    BY <1>1, <2>1
<1> QED
  BY <1>2, <1>3, <1>4, <1>5

LEMMA VerificationNext ==
    ASSUME IInv, NEW i \in Instances, Progress(i) \/ Kill(i)
    PROVE  Verification'
<1> USE DEF IInv
<1>1. /\ \A j \in Instances : j # i => pc'[j] = pc[j] /\ code'[j] = code[j]
                                       /\ cur'[j] = cur[j]
      /\ i \in DOMAIN pc /\ i \in DOMAIN code /\ i \in DOMAIN cur
      /\ \A ph \in Phases : ph \in DOMAIN results
      /\ "abort" \in Phases /\ "finalize" \in Phases /\ "prepare" \in Phases
      /\ None # 0 /\ i # None
  BY Moves, Numbers DEF TypeOK, Phases, Codes
<1>2. /\ \A s \in Shards : holder'[s] # None => owner'[s] = None
      /\ AllDone => AllDone' /\ UNCHANGED owner
      /\ Verified => Verified'
  BY ShardsNext DEF AllDone, Verified, Owners
<1>3. results'["abort"] # 0
  <2>1. CASE WriteAbort(i)
    BY <1>1, <2>1 DEF WriteAbort, Publish, Verification
  <2>2. CASE ~WriteAbort(i)
    <3>1. results'["abort"] = results["abort"]
      BY <1>1, <2>2 DEF Progress, Kill, Start, Glance, Elect, Prepare, ReportPrepare,
         AwaitPrepare, CheckFinal, CheckAbort, Claim, Complete, FailAttempt, Superseded,
         Return, WorkerFails, Decide, Wait, Count, Deadline, PublishAbort,
         AwaitAbort, Finalize, ElectFinal, Verify, ReportFinal, AwaitFinal,
         coordination, Publish
    <3> QED
      BY <3>1 DEF Verification
  <2> QED
    BY <2>1, <2>2
<1>4. /\ results'["finalize"] = 0 => Verified'
      /\ results["finalize"] = 0 => results'["finalize"] = 0
  <2>1. CASE ReportFinal(i)
    <3>1. pc[i] = "reportFinal" /\ results'["finalize"] = code[i]
      BY <1>1, <2>1 DEF ReportFinal, Publish
    <3>2. results["finalize"] = None
      BY <3>1 DEF Elections
    <3> QED
      BY <1>1, <1>2, <3>1, <3>2 DEF Verification
  <2>2. CASE ~ReportFinal(i)
    <3>1. results'["finalize"] = results["finalize"]
      BY <1>1, <2>2 DEF Progress, Kill, Start, Glance, Elect, Prepare, ReportPrepare,
         AwaitPrepare, CheckFinal, CheckAbort, Claim, Complete, FailAttempt, Superseded,
         Return, WorkerFails, Decide, Wait, Count, Deadline, PublishAbort, WriteAbort,
         AwaitAbort, Finalize, ElectFinal, Verify, AwaitFinal, coordination, Publish
    <3> QED
      BY <1>2, <3>1 DEF Verification
  <2> QED
    BY <2>1, <2>2
<1>5. /\ pc'[i] = "busy" => cur'[i] \in Shards
      /\ pc'[i] \in {"signal", "writeAbort"} => code'[i] # 0
      /\ pc'[i] \in {"final", "electFinal", "verify"} => AllDone
      /\ pc'[i] = "reportFinal" /\ code'[i] = 0 => Verified
      /\ pc'[i] = "exit" /\ code'[i] = 0 => results'["finalize"] = 0
  <2>1. CASE Start(i) \/ AwaitPrepare(i)
    BY <1>1, <2>1 DEF Start, AwaitPrepare, Adopt, TimeOut, ExitWith, Goto
  <2>2. CASE Glance(i) \/ Elect(i) \/ Prepare(i)
    BY <1>1, <2>2 DEF Glance, Elect, Prepare, TryAcquire, Goto
  <2>3. CASE ReportPrepare(i)
    BY <1>1, <2>3 DEF ReportPrepare, Goto
  <2>4. CASE CheckFinal(i) \/ Finalize(i) \/ AwaitFinal(i)
    BY <1>1, <2>4 DEF CheckFinal, Finalize, AwaitFinal, Adopt, TimeOut, ExitWith, Goto,
                      Verification, coordination
  <2>5. CASE CheckAbort(i) \/ Wait(i) \/ AwaitAbort(i)
    BY <1>1, <2>5 DEF CheckAbort, Wait, AwaitAbort, Adopt, TimeOut, ExitWith, Goto,
                      Verification
  <2>6. CASE Claim(i)
    BY <1>1, <2>6 DEF Claim, Goto
  <2>7. CASE Complete(i) \/ FailAttempt(i) \/ Superseded(i)
    BY <1>1, <2>7 DEF Complete, FailAttempt, Superseded, Processed, Goto
  <2>8. CASE Return(i) \/ WorkerFails(i) \/ Decide(i)
    BY <1>1, <2>8 DEF Return, WorkerFails, Decide, WorkerReturns, Goto
  <2>9. CASE Count(i) \/ Deadline(i)
    BY <1>1, <2>9 DEF Count, Deadline, Signal, Goto
  <2>10. CASE PublishAbort(i) \/ WriteAbort(i)
    BY <1>1, <2>10 DEF PublishAbort, WriteAbort, TryAcquire, Goto, Verification
  <2>11. CASE ElectFinal(i)
    BY <1>1, <2>11 DEF ElectFinal, TryAcquire, Goto, Verification
  <2>12. CASE Verify(i)
    <3>1. /\ pc[i] = "verify" /\ pc'[i] = "reportFinal" /\ code'[i] \in Verdicts
      BY <1>1, <2>12 DEF Verify, Goto
    <3>2. 0 \in Verdicts => AllDone /\ ~(Cardinality(Owners) < (IF Strict THEN Nodes ELSE 1))
      BY DEF Verdicts
    <3>3. Nodes \in Nat
      BY Numbers
    <3> QED
      BY <3>1, <3>2, <3>3, OwnersCounted DEF Verified
  <2>13. CASE ReportFinal(i)
    BY <1>1, <2>13 DEF ReportFinal, Publish, Goto
  <2>14. CASE Kill(i)
    BY <1>1, <2>14 DEF Kill, Goto
  <2> QED
    BY <2>1, <2>2, <2>3, <2>4, <2>5, <2>6, <2>7, <2>8, <2>9, <2>10, <2>11, <2>12, <2>13,
       <2>14 DEF Progress
<1>6. ASSUME NEW j \in Instances, j # i
      PROVE  /\ pc'[j] = "busy" => cur'[j] \in Shards
             /\ pc'[j] \in {"signal", "writeAbort"} => code'[j] # 0
             /\ pc'[j] \in {"final", "electFinal", "verify"} => AllDone
             /\ pc'[j] = "reportFinal" /\ code'[j] = 0 => Verified
             /\ pc'[j] = "exit" /\ code'[j] = 0 => results'["finalize"] = 0
  BY <1>1, <1>4, <1>6 DEF Verification
<1> QED
  BY <1>2, <1>3, <1>4, <1>5, <1>6 DEF Verification

(* The steps of no instance leave what the elections and the codes say.    *)
LEMMA OthersNext ==
    ASSUME IInv, (\E s \in Shards : Expire(s)) \/ Requeue \/ UNCHANGED vars
    PROVE  IInv'
<1> USE DEF IInv
<1>1. UNCHANGED <<manifest, owner, coordination, submissions, pc, code, local>>
  BY DEF Expire, Requeue, vars, job
<1>2. /\ failed' \subseteq Shards /\ failures' \in [Shards -> Nat]
      /\ holder' \in [Shards -> Instances \cup {None}]
      /\ \A s \in Shards : holder'[s] # None => holder[s] # None
  <2>1. CASE \E s \in Shards : Expire(s)
    <3>1. PICK s \in Shards : Fail(s)
      BY <2>1 DEF Expire
    <3>2. \A r \in Shards : holder'[r] # None => holder[r] # None
      BY <3>1 DEF Fail, TypeOK
    <3> QED
      BY <3>1, <3>2, FailType
  <2>2. CASE Requeue
    BY <2>2 DEF Requeue, TypeOK
  <2>3. CASE UNCHANGED vars
    BY <2>3 DEF vars, job, TypeOK
  <2> QED
    BY <2>1, <2>2, <2>3
<1>3. TypeOK'
  BY <1>1, <1>2 DEF TypeOK, coordination, local
<1>4. Elections'
  BY <1>1 DEF Elections, Chosen, coordination
<1>5. Preparation'
  BY <1>1 DEF Preparation, coordination, local
<1>6. (AllDone' <=> AllDone) /\ (Verified' <=> Verified)
  BY <1>1 DEF AllDone, Verified, Owners
<1>7. Verification'
  BY <1>1, <1>2, <1>6 DEF Verification, coordination, local
<1> QED
  BY <1>3, <1>4, <1>5, <1>7

(* A new submission starts with an empty coordination directory.           *)
LEMMA SubmitNext ==
    ASSUME IInv, Submit
    PROVE  IInv'
<1> USE DEF IInv
<1>1. UNCHANGED job
  BY DEF Submit
<1>2. /\ results' = [ph \in Phases |-> None] /\ locks' = {}
      /\ \A ph \in {"prepare", "finalize"} : elected'[ph] = {}
      /\ \A i \in Instances : pc'[i] = "start"
  BY DEF Submit, NoResults, NoElections
<1>3. None # 0 /\ MaxSubmissions \in Nat
  BY Numbers DEF Codes
<1>4. TypeOK'
  <2>1. submissions' \in 1..MaxSubmissions
    BY <1>3 DEF Submit, TypeOK
  <2>2. elected' \in [{"prepare", "finalize"} -> SUBSET Instances]
    BY DEF Submit, NoElections
  <2>3. results' \in [Phases -> Codes \cup {None}]
    BY <1>2
  <2>4. pc' \in [Instances -> Places] /\ code' \in [Instances -> Codes]
    BY DEF Submit, Places, Codes
  <2>5. preexisted' \in [Instances -> BOOLEAN]
    BY DEF Submit
  <2>6. /\ cur' \in [Instances -> Shards \cup {None}]
        /\ handled' \in [Instances -> Nat] /\ bad' \in [Instances -> Nat]
    BY DEF Submit
  <2> QED
    BY <1>1, <1>2, <2>1, <2>2, <2>3, <2>4, <2>5, <2>6 DEF TypeOK, job
<1>5. Elections'
  BY <1>2 DEF Elections, Chosen, Phases
<1>6. Preparation'
  BY <1>2, <1>3 DEF Preparation, After, Phases
<1>7. Verification'
  BY <1>1, <1>2, <1>3 DEF Verification, Phases, job
<1> QED
  BY <1>4, <1>5, <1>6, <1>7

LEMMA IInvNext == IInv /\ [Next]_vars => IInv'
<1> SUFFICES ASSUME IInv, [Next]_vars PROVE IInv'
  OBVIOUS
<1>1. CASE \E i \in Instances : Progress(i) \/ Kill(i)
  BY <1>1, TypeNext, ElectionsNext, PreparationNext, VerificationNext DEF IInv
<1>2. CASE (\E s \in Shards : Expire(s)) \/ Requeue \/ UNCHANGED vars
  BY <1>2, OthersNext
<1>3. CASE Submit
  BY <1>3, SubmitNext
<1> QED
  BY <1>1, <1>2, <1>3 DEF Next

LEMMA Inductive == Spec => []IInv
<1> QED
  BY IInvInit, IInvNext, PTL DEF Spec

-----------------------------------------------------------------------------
(* The files and the instances hold the values they should, whichever      *)
(* instance, shard or submission steps.                                    *)
THEOREM TypeCorrect == Spec => []TypeOK
<1>1. IInv => TypeOK
  BY DEF IInv
<1> QED
  BY <1>1, Inductive, PTL

(* The command of a phase runs in one instance of a submission, and a      *)
(* result is published only by it (_try_acquire_phase).                    *)
THEOREM OnceElected == Spec => []ElectedOnce
<1>1. IInv => ElectedOnce
  <2> SUFFICES ASSUME IInv, NEW ph \in {"prepare", "finalize"}
               PROVE  /\ \A i, j \in elected[ph] : i = j
                      /\ results[ph] # None => elected[ph] # {}
    BY DEF ElectedOnce
  <2>1. elected[ph] \subseteq Instances
    BY DEF IInv, TypeOK
  <2> QED
    BY <2>1 DEF IInv, Elections, Chosen
<1> QED
  BY <1>1, Inductive, PTL

(* No instance claims a shard before the prepare command of its submission *)
(* has run, nor, having seen a manifest before the election, before that   *)
(* command has succeeded (_coordinated_prepare).                           *)
THEOREM PreparationFirst == Spec => []PreparedFirst
<1>1. IInv => PreparedFirst
  BY DEF IInv, Preparation, PreparedFirst, After
<1> QED
  BY <1>1, Inductive, PTL

(* Verification runs only on a job whose shards are all done, and that     *)
(* stays done (_wait_for_terminal_state).                                  *)
THEOREM FinalizedWhenDone == Spec => []FinalizeWhenDone
<1>1. IInv => FinalizeWhenDone
  BY DEF IInv, Verification, FinalizeWhenDone
<1> QED
  BY <1>1, Inductive, PTL

(* An instance exits with 0 only when the job is done, verified and, in    *)
(* strict mode, owned by --nodes instances, whatever goes wrong (dlc).     *)
THEOREM SuccessHonest == Spec => []HonestSuccess
<1>1. IInv => HonestSuccess
  BY DEF IInv, Verification, Verified, HonestSuccess
<1> QED
  BY <1>1, Inductive, PTL

-----------------------------------------------------------------------------
(* How work is spread.                                                     *)

(* Shards that at most m of each owner make at most m per owner.           *)
LEMMA GroupsBound ==
    ASSUME NEW S, IsFiniteSet(S), NEW D, IsFiniteSet(D), NEW f, NEW m \in Nat,
           \A x \in D : Cardinality({s \in S : f[s] = x}) <= m
    PROVE  Cardinality({s \in S : f[s] \in D}) <= Cardinality(D) * m
<1> DEFINE Of(U) == {s \in S : f[s] \in U}
           T == {U \in SUBSET D : ~(Cardinality(Of(U)) <= Cardinality(U) * m)}
<1>1. ASSUME T # {} PROVE FALSE
  <2>1. PICK U \in T : \A V \in T : ~(<<V, U>> \in StrictSubsetOrdering(D))
    <3>1. T \subseteq FiniteSubsetsOf(D)
      BY FS_Subset DEF FiniteSubsetsOf
    <3>2. IsWellFoundedOn(StrictSubsetOrdering(D), FiniteSubsetsOf(D))
      BY FS_StrictSubsetOrderingWellFounded
    <3> HIDE DEF T
    <3> QED
      BY <1>1, <3>1, <3>2, WFMin
  <2>2. U \in SUBSET D /\ IsFiniteSet(U) /\ Cardinality(U) \in Nat
    BY FS_Subset, FS_CardinalityType
  <2>3. CASE U = {}
    <3>1. Of(U) = {} /\ Cardinality(U) = 0 /\ Cardinality({}) = 0
      BY <2>3, FS_EmptySet
    <3> QED
      BY <3>1
  <2>4. CASE U # {}
    <3> PICK x \in U : TRUE
      BY <2>4
    <3> DEFINE r == U \ {x}
               mine == {s \in S : f[s] = x}
    <3>1. IsFiniteSet(r) /\ Cardinality(U) = Cardinality(r) + 1 /\ Cardinality(r) \in Nat
      <4>1. IsFiniteSet(r) /\ Cardinality(r) = Cardinality(U) - 1
        BY <2>2, FS_RemoveElement
      <4>2. Cardinality(r) \in Nat
        BY <4>1, FS_CardinalityType
      <4> HIDE DEF r
      <4> QED
        BY <2>2, <4>1, <4>2
    <3>2. Cardinality(Of(r)) <= Cardinality(r) * m
      <4>1. <<r, U>> \in StrictSubsetOrdering(D)
        BY <2>2 DEF StrictSubsetOrdering
      <4> QED
        BY <2>1, <2>2, <4>1
    <3>3. /\ IsFiniteSet(mine) /\ IsFiniteSet(Of(r)) /\ Of(U) = Of(r) \cup mine
          /\ Of(r) \cap mine = {}
      BY FS_Subset
    <3>4. /\ Cardinality(mine) \in Nat /\ Cardinality(Of(r)) \in Nat
          /\ Cardinality(mine) <= m
      BY <2>2, <3>3, FS_CardinalityType
    <3>5. Cardinality(Of(U)) = Cardinality(Of(r)) + Cardinality(mine)
      <4>1. Cardinality({}) = 0
        BY FS_EmptySet
      <4>2. Cardinality(Of(r) \cup mine)
                = Cardinality(Of(r)) + Cardinality(mine) - Cardinality(Of(r) \cap mine)
        <5> HIDE DEF Of, mine, r
        <5> QED
          BY <3>3, FS_Union
      <4>3. Cardinality(Of(r) \cap mine) = 0
        BY <3>3, <4>1, Zenon
      <4>4. Cardinality(Of(U)) = Cardinality(Of(r) \cup mine)
        BY <3>3, Zenon
      <4> HIDE DEF Of, mine, r
      <4> QED
        BY <3>4, <4>2, <4>3, <4>4
    <3> DEFINE c == Cardinality(r)
    <3>6. (c + 1) * m = c * m + m /\ c * m \in Nat
      BY <3>1
    <3>7. Cardinality(Of(U)) <= Cardinality(U) * m
      <4> HIDE DEF Of, mine, r
      <4> QED
        BY <3>1, <3>2, <3>4, <3>5, <3>6
    <3> QED
      BY <3>7
  <2> QED
    BY <2>3, <2>4
<1>2. D \in SUBSET D
  OBVIOUS
<1>3. Cardinality(Of(D)) <= Cardinality(D) * m
  BY <1>1, <1>2
<1> QED
  BY <1>3

Owned(i) == {s \in Shards : owner[s] = i}

(* Within the first submission, a strict instance owns no more shards than *)
(* it has handled, which is within its cap, and below it while one is      *)
(* running.                                                                *)
Spread ==
    Strict /\ submissions = 1 =>
        \A i \in Instances :
            /\ Cardinality(Owned(i)) <= handled[i]
            /\ handled[i] <= MaxShards
            /\ pc[i] = "busy" => handled[i] < MaxShards

LEMMA MaxShardsType == MaxShards \in Nat
<1> DEFINE a == NumShards + Nodes - 1
<1>1. a \in Nat /\ Nodes \in Nat \ {0}
  BY Numbers
<1>2. a \div Nodes \in Nat
  <2> HIDE DEF a
  <2> QED
    BY <1>1
<1> QED
  BY <1>2 DEF MaxShards

LEMMA OwnedFinite == \A i : IsFiniteSet(Owned(i)) /\ Cardinality(Owned(i)) \in Nat
<1> TAKE i
<1>1. IsFiniteSet(Shards)
  BY Numbers, FS_Interval DEF Shards
<1>2. Owned(i) \in SUBSET Shards
  BY DEF Owned
<1>3. IsFiniteSet(Owned(i))
  BY <1>1, <1>2, FS_Subset
<1> QED
  BY <1>3, FS_CardinalityType

LEMMA SpreadInit == Init => Spread
<1> SUFFICES ASSUME Init, NEW i \in Instances
             PROVE  /\ Cardinality(Owned(i)) <= handled[i]
                    /\ handled[i] <= MaxShards
                    /\ pc[i] = "busy" => handled[i] < MaxShards
  BY DEF Spread
<1>1. Owned(i) = {}
  BY Numbers DEF Init, Owned
<1>2. Cardinality({}) = 0 /\ handled[i] = 0 /\ pc[i] = "start"
  BY FS_EmptySet DEF Init
<1> QED
  BY <1>1, <1>2, MaxShardsType

(* Processing a claim makes room for it in what was handled.               *)
LEMMA SpreadNext == IInv /\ Spread /\ [Next]_vars => Spread'
<1> SUFFICES ASSUME IInv, Spread, [Next]_vars, Strict, submissions' = 1
             PROVE  \A j \in Instances :
                        /\ Cardinality(Owned(j)') <= handled'[j]
                        /\ handled'[j] <= MaxShards
                        /\ pc'[j] = "busy" => handled'[j] < MaxShards
  BY DEF Spread, MaxShards, Shards
<1>1. TypeOK
  BY DEF IInv
<1>2. ASSUME submissions = 1, UNCHANGED <<owner, handled>>,
             \A j \in Instances : pc'[j] = "busy" => pc[j] = "busy" \/ ~CapReached(j)
      PROVE  \A j \in Instances :
                        /\ Cardinality(Owned(j)') <= handled'[j]
                        /\ handled'[j] <= MaxShards
                        /\ pc'[j] = "busy" => handled'[j] < MaxShards
  <2> TAKE j \in Instances
  <2>1. Owned(j)' = Owned(j)
    BY <1>2 DEF Owned
  <2>2. handled[j] \in Nat
    BY <1>1 DEF TypeOK
  <2> QED
    BY <1>2, <2>1, <2>2, MaxShardsType DEF Spread, CapReached
<1>3. CASE \E i \in Instances : Progress(i) \/ Kill(i)
  <2> PICK i \in Instances : Progress(i) \/ Kill(i)
    BY <1>3
  <2>1. submissions = 1
    BY DEF Progress, Kill, Start, Glance, Elect, Prepare, ReportPrepare, AwaitPrepare,
           CheckFinal, CheckAbort, Claim, Complete, FailAttempt, Superseded,
           Return, WorkerFails, Decide, Wait, Count, Deadline, PublishAbort, WriteAbort,
           AwaitAbort, Finalize, ElectFinal, Verify, ReportFinal, AwaitFinal
  <2>2. CASE Complete(i) \/ FailAttempt(i) \/ Superseded(i)
    <3>1. /\ pc[i] = "busy" /\ handled' = [handled EXCEPT ![i] = @ + 1]
          /\ pc' = [pc EXCEPT ![i] = "work"]
          /\ owner' = owner \/ owner' = [owner EXCEPT ![cur[i]] = i]
      BY <2>2 DEF Complete, FailAttempt, Superseded, Processed, Goto, job
    <3> TAKE j \in Instances
    <3>2. /\ Cardinality(Owned(j)) <= handled[j] /\ handled[j] <= MaxShards
          /\ pc[j] = "busy" => handled[j] < MaxShards
          /\ handled[j] \in Nat /\ handled'[j] \in Nat
      BY <1>1, <2>1, <3>1 DEF Spread, TypeOK
    <3>3. owner \in [Shards -> Instances \cup {None}]
      BY <1>1 DEF TypeOK
    <3>4. CASE j = i
      <4>1. Owned(j)' \in SUBSET (Owned(j) \cup {cur[i]})
        BY <3>1, <3>3, <3>4 DEF Owned, Shards
      <4>2. /\ IsFiniteSet(Owned(j) \cup {cur[i]})
            /\ Cardinality(Owned(j) \cup {cur[i]}) <= Cardinality(Owned(j)) + 1
            /\ Cardinality(Owned(j) \cup {cur[i]}) \in Nat
        <5>1. IsFiniteSet(Owned(j)) /\ Cardinality(Owned(j)) \in Nat
          BY OwnedFinite
        <5>2. /\ IsFiniteSet(Owned(j) \cup {cur[i]})
              /\ Cardinality(Owned(j) \cup {cur[i]}) =
                     IF cur[i] \in Owned(j) THEN Cardinality(Owned(j)) ELSE Cardinality(Owned(j)) + 1
          BY <5>1, FS_AddElement
        <5> QED
          BY <5>1, <5>2
      <4>3. IsFiniteSet(Owned(j)') /\ Cardinality(Owned(j)') <= Cardinality(Owned(j) \cup {cur[i]})
        BY <4>1, <4>2, FS_Subset
      <4>4. Cardinality(Owned(j)') \in Nat /\ Cardinality(Owned(j)) \in Nat
        BY <4>3, FS_CardinalityType, OwnedFinite
      <4>5. handled'[j] = handled[j] + 1 /\ handled[j] < MaxShards /\ pc'[j] = "work"
        BY <1>1, <3>1, <3>2, <3>4 DEF TypeOK
      <4> QED
        BY <3>2, <4>2, <4>3, <4>4, <4>5, MaxShardsType
    <3>5. CASE j # i
      <4>1. Owned(j)' \in SUBSET Owned(j)
        BY <3>1, <3>3, <3>5 DEF Owned, Shards
      <4>2. IsFiniteSet(Owned(j)) /\ Cardinality(Owned(j)) \in Nat
        BY OwnedFinite
      <4>3. IsFiniteSet(Owned(j)') /\ Cardinality(Owned(j)') <= Cardinality(Owned(j))
        BY <4>1, <4>2, FS_Subset
      <4>4. Cardinality(Owned(j)') \in Nat
        BY <4>3, FS_CardinalityType
      <4>5. handled'[j] = handled[j] /\ pc'[j] = pc[j]
        BY <1>1, <3>1, <3>5 DEF TypeOK
      <4> QED
        BY <3>2, <4>2, <4>3, <4>4, <4>5
    <3> QED
      BY <3>4, <3>5
  <2>3. CASE Claim(i)
    <3>1. UNCHANGED <<owner, handled>> /\ ~CapReached(i) /\ pc' = [pc EXCEPT ![i] = "busy"]
      BY <2>3 DEF Claim, Goto
    <3> QED
      BY <1>1, <1>2, <2>1, <3>1 DEF TypeOK
  <2>4. CASE ~(Complete(i) \/ FailAttempt(i) \/ Superseded(i) \/ Claim(i))
    <3>1. UNCHANGED <<owner, handled>>
      BY <2>4 DEF Progress, Kill, Start, Glance, Elect, Prepare, ReportPrepare, AwaitPrepare,
           CheckFinal, CheckAbort, Return, WorkerFails, Decide, Wait, Count, Deadline,
           PublishAbort, WriteAbort, AwaitAbort, Finalize, ElectFinal, Verify, ReportFinal,
           AwaitFinal, job, local
    <3>2. pc'[i] = "busy" => pc[i] = "busy"
      BY <1>1, <2>4 DEF TypeOK, Progress, Kill, Start, Glance, Elect, Prepare, ReportPrepare,
           AwaitPrepare, CheckFinal, CheckAbort, Return, WorkerFails, Decide, Wait, Count,
           Deadline, PublishAbort, WriteAbort, AwaitAbort, Finalize, ElectFinal, Verify,
           ReportFinal, AwaitFinal, Goto, ExitWith, Adopt, TryAcquire, TimeOut, Signal,
           WorkerReturns
    <3>3. \A j \in Instances : j # i => pc'[j] = pc[j]
      BY <1>1, Moves
    <3> QED
      BY <1>2, <2>1, <3>1, <3>2, <3>3
  <2> QED
    BY <2>2, <2>3, <2>4
<1>4. CASE (\E s \in Shards : Expire(s)) \/ Requeue \/ UNCHANGED vars
  <2>1. UNCHANGED <<owner, handled, submissions, pc>>
    BY <1>4 DEF Expire, Requeue, vars, job, local
  <2> QED
    BY <1>2, <2>1
<1>5. CASE Submit
  <2>1. submissions \in Nat /\ submissions >= 1 /\ submissions' = submissions + 1
    BY <1>1, <1>5, Numbers DEF TypeOK, Submit
  <2> QED
    BY <2>1
<1> QED
  BY <1>3, <1>4, <1>5 DEF Next

(* For any number of instances, shards and nodes that the claim cap allows,*)
(* and any faults: a strict job that one submission finishes is owned by   *)
(* --nodes instances (dlc, max_shards).                                    *)
THEOREM StrictlySpread == Spec => []StrictSpread
<1>1. IInv /\ Spread => StrictSpread
  <2> SUFFICES ASSUME IInv, Spread, Strict, submissions = 1, AllDone,
                      ~(Cardinality(Owners) >= Nodes)
               PROVE  FALSE
    BY DEF StrictSpread
  <2>1. Cardinality(Owners) \in Nat /\ IsFiniteSet(Shards) /\ Cardinality(Shards) = NumShards
    <3>1. IsFiniteSet(Shards) /\ Cardinality(Shards) = NumShards
      BY Numbers, FS_Interval DEF Shards
    <3> QED
      BY <3>1, OwnersCounted DEF IInv
  <2>2. IsFiniteSet(Owners)
    BY OwnersFinite DEF IInv
  <2>3. Owners \subseteq Instances /\ \A s \in Shards : owner[s] \in Owners
    BY DEF Owners, AllDone, IInv, TypeOK
  <2>4. \A i \in Owners : Cardinality({s \in Shards : owner[s] = i}) <= MaxShards
    <3> TAKE i \in Owners
    <3>1. Cardinality(Owned(i)) <= handled[i] /\ handled[i] <= MaxShards /\ handled[i] \in Nat
      BY <2>3 DEF Spread, IInv, TypeOK
    <3>2. Cardinality(Owned(i)) <= MaxShards
      BY <3>1, OwnedFinite, MaxShardsType
    <3> QED
      BY <3>2 DEF Owned
  <2>5. Cardinality({s \in Shards : owner[s] \in Owners}) <= Cardinality(Owners) * MaxShards
    BY <2>1, <2>2, <2>4, MaxShardsType, GroupsBound
  <2>6. {s \in Shards : owner[s] \in Owners} = Shards
    BY <2>3
  <2>7. NumShards <= Cardinality(Owners) * MaxShards
    BY <2>1, <2>5, <2>6
  <2> DEFINE c == Cardinality(Owners)
  <2>8. c \in Nat /\ c <= Nodes - 1 /\ (Nodes - 1) * MaxShards < NumShards
    BY <2>1, Numbers, CountsAssumption
  <2> HIDE DEF c
  <2>9. c * MaxShards <= (Nodes - 1) * MaxShards
    BY <2>8, Numbers, MaxShardsType
  <2>10. c * MaxShards \in Nat /\ (Nodes - 1) * MaxShards \in Nat /\ NumShards \in Nat
    BY <2>8, Numbers, MaxShardsType
  <2>11. NumShards <= c * MaxShards
    BY <2>7 DEF c
  <2> QED
    BY <2>8, <2>9, <2>10, <2>11
<1>2. Init => IInv /\ Spread
  BY IInvInit, SpreadInit
<1>3. IInv /\ Spread /\ [Next]_vars => IInv' /\ Spread'
  BY IInvNext, SpreadNext
<1> QED
  BY <1>1, <1>2, <1>3, PTL DEF Spec
=============================================================================
