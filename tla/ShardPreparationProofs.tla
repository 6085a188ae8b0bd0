----------------------- MODULE ShardPreparationProofs -----------------------
(* Proofs about the preparation of a sharded job, for any records of any   *)
(* sizes, any input versions, shard counts and number of processes.        *)
EXTENDS ShardPreparation, SequenceTheorems, FiniteSetTheorems, WellFoundedInduction, TLAPS

LEMMA Numbers == ShardCounts \subseteq Nat \ {0} /\ Inputs \subseteq Seq(Records)
BY CountsAssumption, RecordsAssumption

(* Where the shards closed so far end: one after the other, and no later   *)
(* than the n-th record.                                                   *)
Rising(e, n) ==
    /\ \A k \in 1..Len(e) : e[k] > 0 /\ e[k] <= n
    /\ \A k \in 1..(Len(e) - 1) : e[k] < e[k + 1]

(* The current shard has a record.                                         *)
Open(p) == \A k \in 1..Len(ends[p]) : ends[p][k] < Len(wrote[p])

(* While process p writes, there is a record for every shard to come, this *)
(* one included; or it is at the last shard, which is no longer empty.     *)
Feasible(p) ==
    \/ Len(scan[p]) - Len(wrote[p]) >= count[p] - Len(ends[p])
    \/ Len(ends[p]) = count[p] - 1 /\ Len(wrote[p]) > 0 /\ Open(p)

Writing ==
    \A p \in Preparers :
        /\ pc[p] \in {"start", "scan"} => wrote[p] = << >> /\ ends[p] = << >>
        /\ pc[p] = "write" =>
              /\ Rising(ends[p], Len(wrote[p]))
              /\ Len(ends[p]) <= count[p] - 1 /\ scan[p] \in Inputs
              /\ Feasible(p)

(* What is checked: the last shard ends at the last record, and a second   *)
(* pass that found the records of the first one has cut them well.         *)
Closed ==
    \A p \in Preparers :
        pc[p] \in {"check", "publish", "internal"} =>
            /\ Len(ends[p]) > 0 /\ ends[p][Len(ends[p])] = Len(wrote[p])
            /\ scan[p] \in Inputs
            /\ wrote[p] = scan[p] => WellCut(ends[p], count[p])
            /\ pc[p] = "publish" => wrote[p] = scan[p]
            /\ pc[p] = "internal" => ~WellCut(ends[p], count[p])

IInv == TypeOK /\ Writing /\ Closed /\ JobWellCut /\ ExitHonest

-----------------------------------------------------------------------------
(* One more shard.                                                         *)
LEMMA RisingAppend ==
    ASSUME NEW e \in Seq(Nat), NEW n \in Nat, NEW m \in Nat, Rising(e, n), n < m
    PROVE  Rising(Append(e, m), m) /\ Rising(e, m)
<1>1. /\ Len(Append(e, m)) = Len(e) + 1 /\ Len(e) \in Nat
      /\ \A k \in 1..Len(e) : Append(e, m)[k] = e[k] /\ e[k] \in Nat
      /\ Append(e, m)[Len(e) + 1] = m
  BY AppendProperties, LenProperties, ElementOfSeq
<1>2. \A k \in 1..Len(e) : e[k] > 0 /\ e[k] < m
  BY <1>1 DEF Rising
<1>3. \A k \in 1..(Len(e) + 1) : Append(e, m)[k] > 0 /\ Append(e, m)[k] <= m
  BY <1>1, <1>2
<1>4. ASSUME NEW k \in 1..Len(e)
      PROVE  Append(e, m)[k] < Append(e, m)[k + 1]
  <2>1. CASE k = Len(e)
    BY <1>1, <1>2, <2>1
  <2>2. CASE k # Len(e)
    <3>1. k \in 1..(Len(e) - 1) /\ k + 1 \in 1..Len(e)
      BY <1>1, <2>2
    <3> QED
      BY <1>1, <3>1 DEF Rising
  <2> QED
    BY <2>1, <2>2
<1>5. Rising(e, m)
  BY <1>1, <1>2 DEF Rising
<1> QED
  BY <1>1, <1>3, <1>4, <1>5, SMTT(30) DEF Rising

LEMMA RisingWellCut ==
    ASSUME NEW e \in Seq(Nat), NEW n \in Nat, Rising(e, n)
    PROVE  WellCut(e, Len(e))
<1>1. Len(e) \in Nat
  BY LenProperties
<1>2. ASSUME NEW k \in 1..Len(e), k # 1
      PROVE  e[k] > e[k - 1]
  <2>1. k - 1 \in 1..(Len(e) - 1) /\ (k - 1) + 1 = k
    BY <1>1, <1>2
  <2>2. e[k - 1] < e[k] /\ e[k] \in Nat /\ e[k - 1] \in Nat
    BY <1>1, <2>1, ElementOfSeq DEF Rising
  <2> QED
    BY <2>2
<1> QED
  BY <1>2 DEF WellCut, Rising

LEMMA IInvInit == Init => IInv
<1> SUFFICES ASSUME Init PROVE IInv
  OBVIOUS
<1>1. TypeOK
  BY DEF Init, TypeOK, Places
<1>2. Writing /\ Closed /\ ExitHonest
  BY DEF Init, Writing, Closed, ExitHonest
<1>3. JobWellCut
  BY DEF Init, JobWellCut
<1> QED
  BY <1>1, <1>2, <1>3 DEF IInv

(* Process p's state is all that its next step depends on.                 *)
LEMMA Others ==
    ASSUME IInv, NEW p \in Preparers, Prepare(p) \/ Kill(p)
    PROVE  /\ \A q \in Preparers : q # p =>
                 /\ pc'[q] = pc[q] /\ scan'[q] = scan[q] /\ feed'[q] = feed[q]
                 /\ wrote'[q] = wrote[q] /\ ends'[q] = ends[q]
           /\ UNCHANGED count
<1>1. /\ \E place : pc' = [pc EXCEPT ![p] = place] \/ pc' = pc
      /\ scan' = scan \/ \E x : scan' = [scan EXCEPT ![p] = x]
      /\ feed' = feed \/ \E x : feed' = [feed EXCEPT ![p] = x]
      /\ wrote' = wrote \/ \E x : wrote' = [wrote EXCEPT ![p] = x]
      /\ ends' = ends \/ \E x : ends' = [ends EXCEPT ![p] = x]
      /\ UNCHANGED count
  BY DEF Prepare, Kill, Start, Scan, Write, Close, Check, Publish, Goto
<1> QED
  BY <1>1 DEF IInv, TypeOK

LEMMA TypeNext ==
    ASSUME IInv, NEW p \in Preparers, Prepare(p) \/ Kill(p)
    PROVE  TypeOK'
<1>1. pc' \in [Preparers -> Places]
  <2>1. pc' = pc \/ \E place \in Places : pc' = [pc EXCEPT ![p] = place]
    BY DEF Prepare, Kill, Start, Scan, Write, Close, Check, Publish, Goto, Places
  <2> QED
    BY <2>1 DEF IInv, TypeOK
<1>2. CASE Start(p) \/ Check(p) \/ Kill(p)
  BY <1>1, <1>2 DEF Start, Check, Kill, IInv, TypeOK
<1>3. CASE Scan(p)
  <2>1. scan' = scan \/ \E x \in Seq(Records) : scan' = [scan EXCEPT ![p] = x]
    BY <1>3, Numbers DEF Scan
  <2>2. feed' = feed \/ \E x \in Seq(Records) : feed' = [feed EXCEPT ![p] = x]
    BY <1>3, Numbers DEF Scan
  <2>3. scan' \in [Preparers -> Seq(Records)]
    BY <2>1 DEF IInv, TypeOK
  <2>4. feed' \in [Preparers -> Seq(Records)]
    BY <2>2 DEF IInv, TypeOK
  <2> QED
    BY <1>1, <1>3, <2>3, <2>4 DEF Scan, IInv, TypeOK
<1>4. CASE Write(p)
  <2> DEFINE rows == Append(wrote[p], Head(feed[p]))
  <2>1. /\ wrote[p] \in Seq(Records) /\ feed[p] \in Seq(Records) /\ feed[p] # << >>
        /\ ends[p] \in Seq(Nat)
    BY <1>4 DEF Write, IInv, TypeOK
  <2>2. Head(feed[p]) \in Records /\ Tail(feed[p]) \in Seq(Records)
    BY <2>1, HeadTailProperties
  <2>3. rows \in Seq(Records) /\ Len(rows) \in Nat
    BY <2>1, <2>2, AppendProperties, LenProperties
  <2>4. Append(ends[p], Len(rows)) \in Seq(Nat)
    BY <2>1, <2>3, AppendProperties
  <2>5. ends' = ends \/ ends' = [ends EXCEPT ![p] = Append(ends[p], Len(rows))]
    BY <1>4 DEF Write
  <2>6. ends' \in [Preparers -> Seq(Nat)]
    BY <2>4, <2>5 DEF IInv, TypeOK
  <2>7. wrote' = [wrote EXCEPT ![p] = rows] /\ feed' = [feed EXCEPT ![p] = Tail(feed[p])]
    BY <1>4 DEF Write
  <2> HIDE DEF rows
  <2>8. /\ wrote' \in [Preparers -> Seq(Records)]
        /\ feed' \in [Preparers -> Seq(Records)]
    BY <2>2, <2>3, <2>7 DEF IInv, TypeOK
  <2> QED
    BY <1>1, <1>4, <2>6, <2>8 DEF Write, IInv, TypeOK
<1>5. CASE Close(p)
  <2>1. Append(ends[p], Len(wrote[p])) \in Seq(Nat)
    BY AppendProperties, LenProperties DEF IInv, TypeOK
  <2>2. ends' = [ends EXCEPT ![p] = Append(ends[p], Len(wrote[p]))]
    BY <1>5 DEF Close
  <2> QED
    BY <1>1, <1>5, <2>1, <2>2 DEF Close, IInv, TypeOK
<1>6. CASE Publish(p)
  <2>1. Staged(p) \in Job
    BY Numbers DEF Staged, Job, IInv, TypeOK
  <2> QED
    BY <1>1, <1>6, <2>1 DEF Publish, IInv, TypeOK
<1> QED
  BY <1>2, <1>3, <1>4, <1>5, <1>6 DEF Prepare

(* The loop of _write_shards: a record that is needed for a shard of its   *)
(* own forces a split, so that the records never run out before the shards.*)
LEMMA WriteStep ==
    ASSUME IInv, NEW p \in Preparers, Write(p)
    PROVE  /\ Rising(ends'[p], Len(wrote'[p]))
           /\ Len(ends'[p]) <= count[p] - 1 /\ scan'[p] \in Inputs
           /\ Feasible(p)'
<1> DEFINE rows == Append(wrote[p], Head(feed[p]))
           e == ends[p]  n == count[p]  m == Len(wrote[p])
<1>1. /\ pc[p] = "write" /\ feed[p] # << >>
      /\ wrote[p] \in Seq(Records) /\ feed[p] \in Seq(Records)
      /\ e \in Seq(Nat) /\ n \in Nat /\ n > 0 /\ scan[p] \in Seq(Records)
  <2>1. count[p] \in Nat \ {0}
    BY Numbers DEF IInv, TypeOK
  <2>2. /\ wrote[p] \in Seq(Records) /\ feed[p] \in Seq(Records)
        /\ ends[p] \in Seq(Nat) /\ scan[p] \in Seq(Records)
    BY DEF IInv, TypeOK
  <2> QED
    BY <2>1, <2>2 DEF Write
<1>2. /\ Rising(e, m) /\ Len(e) <= n - 1 /\ scan[p] \in Inputs /\ Feasible(p)
  BY <1>1 DEF IInv, Writing
<1>3. Len(rows) = m + 1 /\ m \in Nat /\ Len(scan[p]) \in Nat /\ Len(e) \in Nat
  BY <1>1, HeadTailProperties, AppendProperties, LenProperties
<1>4. /\ wrote'[p] = rows /\ UNCHANGED <<scan, count>>
      /\ \/ ends'[p] = e /\ (Len(e) = n - 1 \/ Len(scan[p]) - Len(rows) # n - Len(e) - 1)
         \/ ends'[p] = Append(e, Len(rows)) /\ Len(e) # n - 1
  <2>1. wrote'[p] = rows /\ UNCHANGED <<scan, count>>
    BY DEF Write, IInv, TypeOK
  <2>3. IF ~IsLast(p) /\ (CrossedTarget(p, rows) \/ MustSplit(p, rows))
        THEN ends' = [ends EXCEPT ![p] = Append(e, Len(rows))] ELSE ends' = ends
    BY DEF Write
  <2>4. IF ~IsLast(p) /\ (CrossedTarget(p, rows) \/ MustSplit(p, rows))
        THEN ends'[p] = Append(e, Len(rows)) ELSE ends'[p] = e
    BY <2>3 DEF IInv, TypeOK
  <2>5. IsLast(p) <=> Len(e) = n - 1
    BY <1>1, <1>2, <1>3 DEF IsLast
  <2>6. MustSplit(p, rows) <=> Len(scan[p]) - Len(rows) = n - Len(e) - 1
    BY DEF MustSplit
  <2> HIDE DEF rows, e, n, m
  <2> QED
    BY <2>1, <2>4, <2>5, <2>6
<1> HIDE DEF rows, e, n, m
<1>5. Rising(Append(e, m + 1), m + 1) /\ Rising(e, m + 1)
  BY <1>1, <1>2, <1>3, RisingAppend
<1>6. Len(Append(e, m + 1)) = Len(e) + 1
  BY <1>1, <1>3, AppendProperties
<1>7. \A k \in 1..Len(e) : e[k] < m + 1
  <2>1. \A k \in 1..Len(e) : e[k] \in Nat
    BY <1>1, ElementOfSeq
  <2> QED
    BY <1>2, <1>3, <2>1 DEF Rising
<1>8. \/ Len(scan[p]) - m >= n - Len(e)
      \/ Len(e) = n - 1
  BY <1>2 DEF Feasible, e, n, m
<1>9. CASE ends'[p] = e /\ (Len(e) = n - 1 \/ Len(scan[p]) - Len(rows) # n - Len(e) - 1)
  <2>1. \/ Len(scan[p]) - (m + 1) >= n - Len(e)
        \/ Len(e) = n - 1
    <3>1. Len(e) = n - 1 \/ Len(scan[p]) - (m + 1) # n - Len(e) - 1
      BY <1>3, <1>9
    <3>2. n \in Nat /\ m \in Nat /\ Len(e) \in Nat /\ Len(scan[p]) \in Nat
      BY <1>1, <1>3
    <3> QED
      BY <1>8, <3>1, <3>2
  <2>2. Feasible(p)'
    BY <1>1, <1>3, <1>4, <1>7, <1>9, <2>1, SMTT(30) DEF Feasible, Open, n
  <2> QED
    BY <1>2, <1>3, <1>4, <1>5, <1>9, <2>2 DEF n
<1>10. CASE ends'[p] = Append(e, Len(rows)) /\ Len(e) # n - 1
  <2>1. Len(ends'[p]) = Len(e) + 1 /\ Len(ends'[p]) <= n - 1
    BY <1>1, <1>2, <1>3, <1>6, <1>10
  <2>2. Len(scan[p]) - (m + 1) >= n - (Len(e) + 1)
    BY <1>1, <1>3, <1>8, <1>10
  <2>3. Feasible(p)'
    BY <1>3, <1>4, <2>1, <2>2 DEF Feasible, n
  <2> QED
    BY <1>2, <1>3, <1>4, <1>5, <1>10, <2>1, <2>3 DEF n
<1> QED
  BY <1>4, <1>9, <1>10

LEMMA WritingNext ==
    ASSUME IInv, NEW p \in Preparers, Prepare(p) \/ Kill(p)
    PROVE  Writing'
<1> SUFFICES ASSUME NEW q \in Preparers
             PROVE  /\ pc'[q] \in {"start", "scan"} =>
                          wrote'[q] = << >> /\ ends'[q] = << >>
                    /\ pc'[q] = "write" =>
                          /\ Rising(ends'[q], Len(wrote'[q]))
                          /\ Len(ends'[q]) <= count'[q] - 1 /\ scan'[q] \in Inputs
                          /\ Feasible(q)'
  BY DEF Writing
<1>1. CASE q # p
  BY <1>1, Others DEF IInv, Writing, Feasible, Open
<1>2. CASE q = p
  <2>1. CASE Start(p)
    <3>1. UNCHANGED <<wrote, ends>> /\ pc[p] = "start" /\ pc'[p] # "write"
      BY <2>1 DEF Start, Goto, IInv, TypeOK
    <3> QED
      BY <1>2, <3>1 DEF IInv, Writing
  <2>2. CASE Scan(p)
    <3>1. UNCHANGED <<wrote, ends, count>> /\ wrote[p] = << >> /\ ends[p] = << >>
      BY <2>2 DEF Scan, IInv, Writing
    <3>2. CASE pc'[p] = "write"
      <4>1. PICK rows \in Inputs, reread \in Inputs :
              IF count[p] > Len(rows)
              THEN Goto(p, "refused") /\ UNCHANGED <<scan, feed>>
              ELSE /\ scan' = [scan EXCEPT ![p] = rows]
                   /\ feed' = [feed EXCEPT ![p] = reread]
                   /\ Goto(p, "write")
        BY <2>2 DEF Scan
      <4>2. scan'[p] = rows /\ ~(count[p] > Len(rows))
        BY <3>2, <4>1 DEF Goto, IInv, TypeOK
      <4>3. Len(rows) \in Nat /\ count[p] \in Nat \ {0}
        <5>1. rows \in Seq(Records) /\ count[p] \in Nat \ {0}
          BY Numbers DEF IInv, TypeOK
        <5> QED
          BY <5>1, LenProperties
      <4>4. Rising(ends'[p], Len(wrote'[p])) /\ Len(ends'[p]) = 0 /\ Len(wrote'[p]) = 0
        BY <3>1 DEF Rising
      <4>5. Feasible(p)'
        BY <3>1, <4>2, <4>3, <4>4 DEF Feasible
      <4> QED
        BY <1>2, <3>1, <3>2, <4>2, <4>3, <4>4, <4>5
    <3> QED
      BY <1>2, <3>1, <3>2
  <2>3. CASE Write(p)
    <3>1. pc'[p] = "write" /\ UNCHANGED count
      BY <2>3 DEF Write
    <3> QED
      BY <1>2, <2>3, <3>1, WriteStep
  <2>4. CASE Close(p) \/ Check(p) \/ Publish(p) \/ Kill(p)
    <3>1. pc'[p] \notin {"start", "scan", "write"}
      BY <2>4 DEF Close, Check, Publish, Kill, Goto, IInv, TypeOK
    <3> QED
      BY <1>2, <3>1
  <2> QED
    BY <2>1, <2>2, <2>3, <2>4 DEF Prepare
<1> QED
  BY <1>1, <1>2

(* Closing the last shard: when the passes agree, no record is left, so    *)
(* that only the second case of Feasible remains.                          *)
LEMMA CloseStep ==
    ASSUME IInv, NEW p \in Preparers, Close(p)
    PROVE  /\ Len(ends'[p]) > 0 /\ ends'[p][Len(ends'[p])] = Len(wrote'[p])
           /\ wrote'[p] = scan'[p] => WellCut(ends'[p], count[p])
<1> DEFINE e == ends[p]  n == count[p]  m == Len(wrote[p])
<1>1. /\ pc[p] = "write" /\ UNCHANGED <<wrote, scan>>
      /\ e \in Seq(Nat) /\ n \in Nat /\ n > 0 /\ m \in Nat
      /\ ends'[p] = Append(e, m)
  <2>1. wrote[p] \in Seq(Records) /\ count[p] \in Nat \ {0}
    BY Numbers DEF IInv, TypeOK
  <2> QED
    BY <2>1, LenProperties DEF Close, IInv, TypeOK
<1>2. Rising(e, m) /\ Len(e) <= n - 1 /\ Feasible(p)
  BY <1>1 DEF IInv, Writing
<1> HIDE DEF e, n
<1>3. Len(e) \in Nat /\ Len(Append(e, m)) = Len(e) + 1 /\ Append(e, m)[Len(e) + 1] = m
  BY <1>1, AppendProperties, LenProperties
<1>4. ASSUME wrote[p] = scan[p]
      PROVE  WellCut(Append(e, m), n)
  <2>1. Len(e) = n - 1 /\ m > 0 /\ Open(p)
    BY <1>1, <1>2, <1>3, <1>4 DEF Feasible, e, n
  <2>2. Rising(e, m - 1)
    <3>1. \A k \in 1..Len(e) : e[k] < m /\ e[k] \in Nat
      BY <1>1, <2>1, ElementOfSeq DEF Open, e
    <3> QED
      BY <1>1, <1>2, <2>1, <3>1 DEF Rising
  <2>3. Rising(Append(e, m), m)
    BY <1>1, <2>1, <2>2, RisingAppend
  <2>4. Append(e, m) \in Seq(Nat) /\ Len(Append(e, m)) = n
    BY <1>1, <1>3, <2>1, AppendProperties
  <2> QED
    BY <1>1, <2>3, <2>4, RisingWellCut
<1> QED
  BY <1>1, <1>3, <1>4 DEF n

LEMMA ClosedNext ==
    ASSUME IInv, NEW p \in Preparers, Prepare(p) \/ Kill(p)
    PROVE  Closed'
<1> SUFFICES ASSUME NEW q \in Preparers, pc'[q] \in {"check", "publish", "internal"}
             PROVE  /\ Len(ends'[q]) > 0 /\ ends'[q][Len(ends'[q])] = Len(wrote'[q])
                    /\ scan'[q] \in Inputs
                    /\ wrote'[q] = scan'[q] => WellCut(ends'[q], count'[q])
                    /\ pc'[q] = "publish" => wrote'[q] = scan'[q]
                    /\ pc'[q] = "internal" => ~WellCut(ends'[q], count'[q])
  BY DEF Closed
<1>1. CASE q # p
  BY <1>1, Others DEF IInv, Closed
<1>2. CASE q = p
  <2>1. CASE Start(p) \/ Scan(p) \/ Write(p) \/ Publish(p) \/ Kill(p)
    <3>1. pc'[p] \notin {"check", "publish", "internal"}
      BY <2>1 DEF Start, Scan, Write, Publish, Kill, Goto, IInv, TypeOK
    <3> QED
      BY <1>2, <3>1
  <2>2. CASE Close(p)
    <3>1. pc'[p] = "check" /\ UNCHANGED <<scan, count>> /\ pc[p] = "write"
      BY <2>2 DEF Close, Goto, IInv, TypeOK
    <3>2. scan[p] \in Inputs
      BY <3>1 DEF IInv, Writing
    <3> QED
      BY <1>2, <2>2, <3>1, <3>2, CloseStep
  <2>3. CASE Check(p)
    <3>1. /\ pc[p] = "check" /\ UNCHANGED <<scan, count, wrote, ends>>
          /\ pc'[p] = IF ~WellCut(ends[p], count[p]) THEN "internal"
                      ELSE IF wrote[p] # scan[p] THEN "changed" ELSE "publish"
      BY <2>3 DEF Check, Goto, IInv, TypeOK
    <3> QED
      BY <1>2, <3>1 DEF IInv, Closed
  <2> QED
    BY <2>1, <2>2, <2>3 DEF Prepare
<1> QED
  BY <1>1, <1>2

LEMMA JobNext ==
    ASSUME IInv, NEW p \in Preparers, Prepare(p) \/ Kill(p)
    PROVE  JobWellCut' /\ ExitHonest' /\ (job # NoJob => UNCHANGED job)
<1>1. CASE Publish(p) /\ job = NoJob
  <2>1. /\ job' = Staged(p) /\ pc[p] = "publish"
        /\ \A q \in Preparers : pc'[q] = IF q = p THEN "exit0" ELSE pc[q]
        /\ UNCHANGED count
    BY <1>1 DEF Publish, Goto, IInv, TypeOK
  <2>2. /\ wrote[p] = scan[p] /\ scan[p] \in Inputs /\ WellCut(ends[p], count[p])
        /\ ends[p][Len(ends[p])] = Len(wrote[p])
    BY <2>1 DEF IInv, Closed
  <2>3. Len(ends[p]) = count[p] /\ count[p] \in Nat /\ count[p] > 0
    BY <2>2, Numbers DEF WellCut, IInv, TypeOK
  <2>4. \A k \in 1..(count[p] - 1) : ends[p][k] < ends[p][k + 1]
    <3> SUFFICES ASSUME NEW k \in 1..(count[p] - 1) PROVE ends[p][k] < ends[p][k + 1]
      OBVIOUS
    <3>1. k + 1 \in 1..Len(ends[p]) /\ k + 1 # 1 /\ (k + 1) - 1 = k
      BY <2>3
    <3>2. ends[p][k + 1] > ends[p][k]
      BY <2>2, <3>1 DEF WellCut
    <3>3. ends[p][k] \in Nat /\ ends[p][k + 1] \in Nat
      BY <2>3, <3>1, ElementOfSeq DEF IInv, TypeOK
    <3> QED
      BY <3>2, <3>3
  <2>5. ends[p][1] > 0
    BY <2>2, <2>3 DEF WellCut
  <2>6. JobWellCut'
    BY <2>1, <2>2, <2>3, <2>4, <2>5 DEF JobWellCut, Staged
  <2>7. job' # NoJob
    <3>1. Staged(p) \in [numShards : Nat, rows : Seq(Records), written : Seq(Records),
                         ends : Seq(Nat)]
      BY Numbers DEF Staged, IInv, TypeOK
    <3> QED
      BY <2>1, <3>1, CountsAssumption
  <2>8. ExitHonest'
    BY <1>1, <2>1, <2>7 DEF IInv, ExitHonest, Staged
  <2> QED
    BY <1>1, <2>6, <2>8
<1>2. CASE ~(Publish(p) /\ job = NoJob)
  <2>1. UNCHANGED job
    BY <1>2 DEF Prepare, Kill, Start, Scan, Write, Close, Check, Publish
  <2>2. JobWellCut'
    BY <2>1 DEF IInv, JobWellCut
  <2>3. ASSUME pc'[p] = "exit0", pc[p] # "exit0"
        PROVE  job # NoJob /\ job.numShards = count[p]
    <3>1. Start(p)
      BY <1>2, <2>3 DEF Prepare, Kill, Start, Scan, Write, Close, Check, Publish, Goto,
         IInv, TypeOK
    <3>2. job # NoJob /\ \E rows \in Inputs : Matches(p, rows)
      BY <2>3, <3>1 DEF Start, Goto, IInv, TypeOK
    <3> QED
      BY <3>2 DEF Matches
  <2>4. ExitHonest'
    BY <2>1, <2>3, Others DEF IInv, ExitHonest
  <2> QED
    BY <2>1, <2>2, <2>4
<1> QED
  BY <1>1, <1>2

LEMMA IInvNext == IInv /\ [Next]_vars => IInv'
<1>1. ASSUME IInv, NEW p \in Preparers, Prepare(p) \/ Kill(p)
      PROVE  IInv'
  BY <1>1, TypeNext, WritingNext, ClosedNext, JobNext DEF IInv
<1>2. ASSUME IInv, UNCHANGED vars
      PROVE  IInv'
  BY <1>2 DEF vars, IInv, TypeOK, Writing, Feasible, Open, Closed, JobWellCut, ExitHonest
<1> QED
  BY <1>1, <1>2 DEF Next

LEMMA Inductive == Spec => []IInv
BY IInvInit, IInvNext, PTL DEF Spec

-----------------------------------------------------------------------------

(* A published job is one version of the input, in exactly the shards that *)
(* were asked for, none of them empty.                                     *)
THEOREM PublishedWellCut == Spec => []JobWellCut
<1>1. IInv => JobWellCut
  BY DEF IInv
<1> QED
  BY <1>1, Inductive, PTL

(* Whatever the records, their sizes and the number of shards, an input    *)
(* that both passes find the same is never refused by the last check.      *)
THEOREM UnchangedInputAccepted == Spec => []NoInternalError
<1>1. IInv => NoInternalError
  BY DEF IInv, Closed, NoInternalError
<1> QED
  BY <1>1, Inductive, PTL

(* A job that is published never changes.                                  *)
THEOREM PublishedStable == Spec => JobStable
<1>1. IInv /\ [Next]_vars => [job # NoJob => UNCHANGED job]_vars
  BY JobNext DEF Next, vars
<1> QED
  BY <1>1, Inductive, PTL DEF Spec, JobStable

(* A prepare process that exits with 0 leaves the job it was asked for.    *)
THEOREM ExitsHonest == Spec => []ExitHonest
<1>1. IInv => ExitHonest
  BY DEF IInv
<1> QED
  BY <1>1, Inductive, PTL

-----------------------------------------------------------------------------
(* Bytes.                                                                  *)

LEMMA SmallestIndex ==
    ASSUME NEW n \in Nat, NEW S \in SUBSET (0..n), S # {}
    PROVE  \E m \in S : \A k \in S : m <= k
<1> DEFINE T == {0..m : m \in S}
<1>1. IsFiniteSet(0..n)
  BY FS_Interval
<1>2. T \subseteq FiniteSubsetsOf(0..n) /\ T # {}
  <2>1. \A m \in S : 0..m \in SUBSET (0..n)
    OBVIOUS
  <2>2. \A m \in S : 0..m \in FiniteSubsetsOf(0..n)
    BY <1>1, <2>1, FS_FiniteSubsetsOfFinite
  <2> QED
    BY <2>2
<1>3. IsWellFoundedOn(StrictSubsetOrdering(0..n), FiniteSubsetsOf(0..n))
  BY FS_StrictSubsetOrderingWellFounded
<1>4. PICK U \in T : \A V \in T : ~(<<V, U>> \in StrictSubsetOrdering(0..n))
  <2> HIDE DEF T
  <2> QED
    BY <1>2, <1>3, WFMin
<1>5. PICK m \in S : U = 0..m
  BY <1>4
<1>6. ASSUME NEW k \in S, ~(m <= k) PROVE FALSE
  <2>1. <<0..k, U>> \notin StrictSubsetOrdering(0..n)
    BY <1>4
  <2>2. 0..k \in SUBSET (0..n) /\ 0..m \in SUBSET (0..n) /\ 0..k \subseteq 0..m /\ 0..k # 0..m
    <3>1. m \in 0..m /\ m \notin 0..k
      BY <1>6
    <3> QED
      BY <1>6, <3>1
  <2> QED
    BY <1>5, <2>1, <2>2 DEF StrictSubsetOrdering
<1> QED
  BY <1>6

(* The bytes before each record of s, as Bytes defines them.               *)
BytesUpTo(s, n, u) ==
    u = [k \in 0..n |-> IF k = 0 THEN 0 ELSE u[k - 1] + Size[s[k]]]

LEMMA BytesUpToExist ==
    ASSUME NEW s, NEW n \in Nat
    PROVE  \E u : BytesUpTo(s, n, u)
<1> DEFINE T == {m \in 0..n : ~ \E u : BytesUpTo(s, m, u)}
<1> SUFFICES ASSUME T # {} PROVE FALSE
  OBVIOUS
<1>1. PICK m \in T : \A k \in T : m <= k
  <2>1. T \in SUBSET (0..n)
    OBVIOUS
  <2> HIDE DEF T
  <2> QED
    BY <2>1, SmallestIndex
<1>2. CASE m = 0
  <2>1. BytesUpTo(s, 0, [k \in 0..0 |-> 0])
    BY DEF BytesUpTo
  <2> QED
    BY <1>1, <1>2, <2>1
<1>3. CASE m # 0
  <2>1. m \in Nat /\ m - 1 \in Nat /\ m - 1 \in 0..n /\ m - 1 < m /\ m - 1 \notin T
    BY <1>1, <1>3
  <2>2. PICK u : BytesUpTo(s, m - 1, u)
    BY <2>1
  <2> DEFINE v == [k \in 0..m |-> IF k = m THEN u[m - 1] + Size[s[m]] ELSE u[k]]
  <2>3. ASSUME NEW k \in 0..m PROVE v[k] = IF k = 0 THEN 0 ELSE v[k - 1] + Size[s[k]]
    <3>1. CASE k = 0
      <4>1. 0 \in 0..(m - 1)
        BY <2>1
      <4>2. u[0] = 0
        BY <2>2, <4>1 DEF BytesUpTo
      <4> QED
        BY <1>3, <3>1, <4>2
    <3>2. CASE k = m
      BY <1>3, <2>1, <3>2
    <3>3. CASE k # 0 /\ k # m
      <4>1. k \in 0..(m - 1) /\ k - 1 \in 0..m /\ k - 1 # m
        BY <2>1, <3>3
      <4>2. u[k] = u[k - 1] + Size[s[k]]
        BY <2>2, <3>3, <4>1 DEF BytesUpTo
      <4> QED
        BY <3>3, <4>1, <4>2
    <3> QED
      BY <3>1, <3>2, <3>3
  <2>4. v = [k \in 0..m |-> v[k]]
    OBVIOUS
  <2> HIDE DEF v
  <2>5. BytesUpTo(s, m, v)
    BY <2>3, <2>4 DEF BytesUpTo
  <2> QED
    BY <1>1, <2>5
<1> QED
  BY <1>2, <1>3

(* A running total of the bytes of s, at least so far as it has records.   *)
Running(s, u) ==
    /\ u[0] = 0
    /\ \A k \in 1..Len(s) : u[k] = u[k - 1] + Size[s[k]]

LEMMA RunningAgree ==
    ASSUME NEW s \in Seq(Records), NEW u, NEW v, Running(s, u), Running(s, v)
    PROVE  \A k \in 0..Len(s) : u[k] = v[k] /\ u[k] \in Nat
<1> DEFINE n == Len(s)
           T == {k \in 0..n : ~(u[k] = v[k] /\ u[k] \in Nat)}
<1> SUFFICES ASSUME T # {} PROVE FALSE
  OBVIOUS
<1>1. n \in Nat
  BY LenProperties
<1>2. PICK m \in T : \A k \in T : m <= k
  <2>1. T \in SUBSET (0..n)
    OBVIOUS
  <2> HIDE DEF T, n
  <2> QED
    BY <1>1, <2>1, SmallestIndex
<1>3. m # 0
  BY <1>2 DEF Running
<1>4. m \in 1..n /\ m - 1 \in 0..n /\ ~(m <= m - 1)
  BY <1>1, <1>2, <1>3
<1>5. u[m - 1] = v[m - 1] /\ u[m - 1] \in Nat
  BY <1>2, <1>4
<1>6. s[m] \in Records /\ Size[s[m]] \in Nat
  BY <1>4, ElementOfSeq, RecordsAssumption
<1>7. u[m] = u[m - 1] + Size[s[m]] /\ v[m] = v[m - 1] + Size[s[m]]
  BY <1>4 DEF Running
<1> QED
  BY <1>2, <1>5, <1>6, <1>7

LEMMA BytesIs ==
    ASSUME NEW s \in Seq(Records), NEW u, Running(s, u)
    PROVE  Bytes(s) = u[Len(s)] /\ Bytes(s) \in Nat
<1> DEFINE n == Len(s)
           w == CHOOSE v : BytesUpTo(s, n, v)
<1>1. n \in Nat
  BY LenProperties
<1>2. BytesUpTo(s, n, w)
  BY <1>1, BytesUpToExist
<1>3. Bytes(s) = w[n]
  BY DEF Bytes, BytesUpTo
<1> HIDE DEF w
<1>4. Running(s, w)
  <2>1. w[0] = 0
    <3>1. 0 \in 0..n
      BY <1>1
    <3> QED
      BY <1>2, <3>1 DEF BytesUpTo
  <2>2. ASSUME NEW k \in 1..n PROVE w[k] = w[k - 1] + Size[s[k]]
    <3>1. k \in 0..n /\ k # 0
      BY <1>1
    <3> QED
      BY <1>2, <3>1 DEF BytesUpTo
  <2> QED
    BY <2>1, <2>2 DEF Running
<1>5. u[n] = w[n] /\ u[n] \in Nat
  <2>1. n \in 0..n
    BY <1>1
  <2> QED
    BY <1>4, <2>1, RunningAgree
<1> QED
  BY <1>3, <1>5

LEMMA RunningExists ==
    ASSUME NEW s \in Seq(Records)
    PROVE  \E u : Running(s, u)
<1>1. Len(s) \in Nat
  BY LenProperties
<1>2. PICK u : BytesUpTo(s, Len(s), u)
  BY <1>1, BytesUpToExist
<1>3. 0 \in 0..Len(s) /\ \A k \in 1..Len(s) : k \in 0..Len(s) /\ k # 0
  BY <1>1
<1> QED
  BY <1>2, <1>3 DEF BytesUpTo, Running

(* The bytes of the first k records of s are Sum(s)[k].                    *)
Sum(s) == CHOOSE u : Running(s, u)

LEMMA SumFacts ==
    ASSUME NEW s \in Seq(Records)
    PROVE  /\ Running(s, Sum(s)) /\ Sum(s)[0] = 0
           /\ \A k \in 0..Len(s) : Sum(s)[k] \in Nat
           /\ \A k \in 1..Len(s) : Sum(s)[k - 1] < Sum(s)[k]
           /\ Bytes(s) = Sum(s)[Len(s)] /\ Bytes(s) \in Nat
<1>1. Running(s, Sum(s))
  BY RunningExists DEF Sum
<1>2. Len(s) \in Nat
  BY LenProperties
<1>3. \A k \in 0..Len(s) : Sum(s)[k] \in Nat
  BY <1>1, RunningAgree
<1>4. ASSUME NEW k \in 1..Len(s) PROVE Sum(s)[k - 1] < Sum(s)[k]
  <2>1. s[k] \in Records /\ Size[s[k]] \in Nat \ {0}
    BY ElementOfSeq, RecordsAssumption
  <2>2. k - 1 \in 0..Len(s) /\ Sum(s)[k - 1] \in Nat
    BY <1>2, <1>3
  <2>3. Sum(s)[k] = Sum(s)[k - 1] + Size[s[k]]
    BY <1>1 DEF Running
  <2> QED
    BY <2>1, <2>2, <2>3
<1> QED
  BY <1>1, <1>3, <1>4, BytesIs DEF Running

LEMMA SumAppend ==
    ASSUME NEW s \in Seq(Records), NEW x \in Records
    PROVE  /\ \A k \in 0..Len(s) : Sum(Append(s, x))[k] = Sum(s)[k]
           /\ Append(s, x) \in Seq(Records) /\ Len(Append(s, x)) = Len(s) + 1
           /\ Bytes(Append(s, x)) = Sum(Append(s, x))[Len(s) + 1]
<1> DEFINE a == Append(s, x)
<1>1. /\ a \in Seq(Records) /\ Len(a) = Len(s) + 1 /\ Len(s) \in Nat
      /\ \A k \in 1..Len(s) : a[k] = s[k]
  BY AppendProperties, LenProperties
<1> HIDE DEF a
<1>2. Running(a, Sum(a)) /\ Bytes(a) = Sum(a)[Len(a)]
  BY <1>1, SumFacts
<1>3. Running(s, Sum(a))
  <2>1. \A k \in 1..Len(s) : k \in 1..Len(a)
    BY <1>1
  <2> QED
    BY <1>1, <1>2, <2>1 DEF Running
<1>4. Running(s, Sum(s))
  BY SumFacts
<1>5. \A k \in 0..Len(s) : Sum(a)[k] = Sum(s)[k]
  BY <1>3, <1>4, RunningAgree
<1> QED
  BY <1>1, <1>2, <1>5 DEF a

(* The bytes of the records after the i-th up to the j-th.                 *)
LEMMA BytesOfPart ==
    ASSUME NEW s \in Seq(Records), NEW i \in 0..Len(s), NEW j \in i..Len(s)
    PROVE  Bytes(SubSeq(s, i + 1, j)) = Sum(s)[j] - Sum(s)[i]
<1> DEFINE part == SubSeq(s, i + 1, j)
           u == [k \in 0..(j - i) |-> Sum(s)[i + k] - Sum(s)[i]]
<1>1. Len(s) \in Nat /\ i \in Nat /\ j \in Nat /\ j - i \in Nat
  BY LenProperties
<1>2. /\ part \in Seq(Records) /\ Len(part) = j - i
      /\ \A k \in 1..(j - i) : part[k] = s[i + k]
  <2>1. \A k \in (i + 1)..j : s[k] \in Records
    BY <1>1, ElementOfSeq
  <2>2. /\ part \in Seq(Records)
        /\ Len(part) = IF i + 1 <= j THEN j - (i + 1) + 1 ELSE 0
        /\ \A k \in 1..(j - (i + 1) + 1) : part[k] = s[(i + 1) + k - 1]
    BY <1>1, <2>1, SubSeqProperties
  <2>3. Len(part) = j - i
    BY <1>1, <2>2
  <2>4. ASSUME NEW k \in 1..(j - i) PROVE part[k] = s[i + k]
    <3>1. k \in 1..(j - (i + 1) + 1) /\ (i + 1) + k - 1 = i + k
      BY <1>1
    <3> QED
      BY <2>2, <3>1
  <2> QED
    BY <2>2, <2>3, <2>4
<1>3. u[0] = 0
  <2>1. i \in 0..Len(s) /\ Sum(s)[i] \in Nat /\ 0 \in 0..(j - i) /\ i + 0 = i
    BY <1>1, SumFacts
  <2> QED
    BY <2>1
<1>4. ASSUME NEW k \in 1..(j - i) PROVE u[k] = u[k - 1] + Size[part[k]]
  <2>1. /\ k \in 0..(j - i) /\ k - 1 \in 0..(j - i) /\ i + k \in 1..Len(s)
        /\ i + (k - 1) = (i + k) - 1 /\ (i + k) - 1 \in 0..Len(s)
    BY <1>1
  <2>2. Sum(s)[i + k] = Sum(s)[(i + k) - 1] + Size[s[i + k]]
    BY <2>1, SumFacts DEF Running
  <2>3. s[i + k] \in Records /\ Size[s[i + k]] \in Nat
    BY <2>1, ElementOfSeq, RecordsAssumption
  <2>4. Sum(s)[i] \in Nat /\ Sum(s)[(i + k) - 1] \in Nat
    BY <2>1, SumFacts
  <2>5. u[k] = Sum(s)[i + k] - Sum(s)[i] /\ u[k - 1] = Sum(s)[(i + k) - 1] - Sum(s)[i]
    BY <2>1
  <2> HIDE DEF u, part
  <2>6. Size[part[k]] = Size[s[i + k]]
    BY <1>2
  <2> QED
    BY <2>2, <2>3, <2>4, <2>5, <2>6
<1>5. Running(part, u)
  <2> HIDE DEF part, u
  <2> QED
    BY <1>2, <1>3, <1>4 DEF Running
<1>6. Bytes(part) = u[Len(part)]
  <2> HIDE DEF part, u
  <2> QED
    BY <1>2, <1>5, BytesIs
<1>7. j - i \in 0..(j - i) /\ i + (j - i) = j
  BY <1>1
<1> QED
  BY <1>2, <1>6, <1>7

-----------------------------------------------------------------------------
(* Balance.                                                                *)

(* Shard k of those that end at e begins after record From(e, k).          *)
From(e, k) == IF k = 1 THEN 0 ELSE e[k - 1]

(* Of n shards for t bytes, shard k of w is one record or within its share *)
(* but for its last record.                                                *)
Fair(w, e, t, n, k) ==
    \/ e[k] = From(e, k) + 1
    \/ (Sum(w)[e[k] - 1] - Sum(w)[From(e, k)]) * n < t

(* The shards closed so far have filled their share of the t bytes, or     *)
(* every one of the size records that are left needs a shard of its own.   *)
(* The shard that is open has not filled its share, unless it is the last. *)
Going(w, e, size, t, n) ==
    LET from == From(e, Len(e) + 1)
    IN  /\ \A k \in 1..Len(e) : Fair(w, e, t, n, k)
        /\ \/ Sum(w)[from] * n >= t * Len(e)
           \/ size - from = n - Len(e) /\ (Len(w) = from \/ Len(e) = n - 1)
        /\ Len(w) > from /\ Len(e) # n - 1 => Sum(w)[Len(w)] * n < t * (Len(e) + 1)

(* What closed shards are does not change with what is written later.      *)
LEMMA FairKept ==
    ASSUME NEW w \in Seq(Records), NEW x \in Records, NEW e \in Seq(Nat), NEW t, NEW n,
           Rising(e, Len(w)), NEW k \in 1..Len(e), Fair(w, e, t, n, k), NEW m
    PROVE  /\ Fair(Append(w, x), e, t, n, k)
           /\ Fair(Append(w, x), Append(e, m), t, n, k)
           /\ Fair(w, Append(e, m), t, n, k)
<1>1. Len(w) \in Nat /\ Len(e) \in Nat
  BY LenProperties
<1>2. Append(e, m)[k] = e[k] /\ From(Append(e, m), k) = From(e, k)
  <2>1. Append(e, m)[k] = e[k]
    BY <1>1
  <2>2. CASE k = 1
    BY <2>1, <2>2 DEF From
  <2>3. CASE k # 1
    <3>1. k - 1 \in 1..Len(e)
      BY <1>1, <2>3
    <3>2. Append(e, m)[k - 1] = e[k - 1]
      BY <1>1, <3>1
    <3> QED
      BY <2>1, <2>3, <3>2 DEF From
  <2> QED
    BY <2>2, <2>3
<1>3. e[k] - 1 \in 0..Len(w) /\ From(e, k) \in 0..Len(w)
  <2>1. \A i \in 1..Len(e) : e[i] \in Nat /\ e[i] > 0 /\ e[i] <= Len(w)
    BY ElementOfSeq DEF Rising
  <2>2. k = 1 \/ k - 1 \in 1..Len(e)
    BY <1>1
  <2> QED
    BY <1>1, <2>1, <2>2, SMTT(30) DEF From
<1>4. /\ Sum(Append(w, x))[e[k] - 1] = Sum(w)[e[k] - 1]
      /\ Sum(Append(w, x))[From(e, k)] = Sum(w)[From(e, k)]
  BY <1>3, SumAppend
<1> QED
  BY <1>2, <1>4 DEF Fair

LEMMA FromLast ==
    ASSUME NEW e \in Seq(Nat), NEW m \in Nat
    PROVE  /\ Len(e) \in Nat /\ From(e, Len(e) + 1) \in Nat
           /\ Append(e, m) \in Seq(Nat) /\ Len(Append(e, m)) = Len(e) + 1
           /\ Append(e, m)[Len(e) + 1] = m
           /\ From(Append(e, m), Len(Append(e, m)) + 1) = m
           /\ From(Append(e, m), Len(e) + 1) = From(e, Len(e) + 1)
<1>1. /\ Len(e) \in Nat /\ Append(e, m) \in Seq(Nat)
      /\ Len(Append(e, m)) = Len(e) + 1 /\ Append(e, m)[Len(e) + 1] = m
      /\ \A k \in 1..Len(e) : Append(e, m)[k] = e[k]
  BY AppendProperties, LenProperties
<1>2. CASE Len(e) = 0
  BY <1>1, <1>2 DEF From
<1>3. CASE Len(e) # 0
  <2>1. Len(e) \in 1..Len(e) /\ (Len(e) + 1) - 1 = Len(e) /\ Len(e) + 1 # 1
    BY <1>1, <1>3
  <2>2. e[Len(e)] \in Nat
    BY <2>1, ElementOfSeq
  <2> QED
    BY <1>1, <2>1, <2>2 DEF From
<1> QED
  BY <1>2, <1>3

(* Writing one more record, which closes the shard or not.                 *)
LEMMA GoingWrite ==
    ASSUME NEW w \in Seq(Records), NEW x \in Records, NEW e \in Seq(Nat),
           NEW size \in Nat, NEW t \in Nat, NEW n \in Nat \ {0},
           Rising(e, Len(w)), Len(e) <= n - 1, Going(w, e, size, t, n),
           NEW f,
           LET rows == Append(w, x)
           IN  IF Len(e) # n - 1 /\ \/ Bytes(rows) * n >= t * (Len(e) + 1)
                                    \/ size - Len(rows) = n - Len(e) - 1
               THEN f = Append(e, Len(rows)) ELSE f = e
    PROVE  Going(Append(w, x), f, size, t, n)
<1> DEFINE rows == Append(w, x)
           l == Len(e)
           m == Len(w)
           from == From(e, l + 1)
<1>1. l \in Nat /\ m \in Nat /\ from \in Nat /\ from <= m
  <2>1. l \in Nat /\ m \in Nat /\ from \in Nat
    BY FromLast, LenProperties
  <2>2. CASE l = 0
    BY <2>1, <2>2 DEF From
  <2>3. CASE l # 0
    <3>1. l \in 1..l /\ from = e[l] /\ e[l] <= m
      BY <2>1, <2>3 DEF From, Rising
    <3> QED
      BY <2>1, <3>1
  <2> QED
    BY <2>1, <2>2, <2>3
<1>2. /\ rows \in Seq(Records) /\ Len(rows) = m + 1 /\ Bytes(rows) = Sum(rows)[m + 1]
      /\ \A k \in 0..m : Sum(rows)[k] = Sum(w)[k] /\ Sum(w)[k] \in Nat
  BY SumAppend, SumFacts
<1>3. Sum(rows)[from] = Sum(w)[from] /\ Sum(rows)[m] = Sum(w)[m] /\ Sum(w)[from] \in Nat /\ Sum(w)[m] \in Nat
  BY <1>1, <1>2
<1>4. /\ \A k \in 1..l : Fair(w, e, t, n, k)
      /\ \/ Sum(w)[from] * n >= t * l
         \/ size - from = n - l /\ (m = from \/ l = n - 1)
      /\ m > from /\ l # n - 1 => Sum(w)[m] * n < t * (l + 1)
  BY DEF Going
<1>5. Bytes(rows) \in Nat
  BY <1>2, SumFacts
<1> HIDE DEF rows, l, m, from
<1>6. CASE l # n - 1 /\ (Bytes(rows) * n >= t * (l + 1) \/ size - (m + 1) = n - l - 1)
  <2>1. f = Append(e, m + 1)
    BY <1>2, <1>6 DEF rows, l
  <2>2. /\ Len(f) = l + 1 /\ f[l + 1] = m + 1 /\ From(f, Len(f) + 1) = m + 1
        /\ From(f, l + 1) = from
    BY <1>1, <2>1, FromLast DEF l, from
  <2>3. \A k \in 1..l : Fair(rows, f, t, n, k)
    BY <1>4, <2>1, FairKept DEF rows, l, m
  <2>4. Fair(rows, f, t, n, l + 1)
    <3>1. CASE m = from
      BY <2>2, <3>1 DEF Fair
    <3>2. CASE m # from
      <4>1. Sum(w)[m] * n < t * (l + 1) /\ Sum(w)[from] * n >= t * l
        BY <1>1, <1>4, <1>6, <3>2
      <4> DEFINE a == Sum(w)[m]
                 b == Sum(w)[from]
      <4>2. a \in Nat /\ b \in Nat
        BY <1>3
      <4>3. a * n < t * (l + 1) /\ b * n >= t * l
        BY <4>1
      <4> HIDE DEF a, b
      <4>4. (a - b) * n = a * n - b * n /\ t * (l + 1) = t * l + t
        BY <1>1, <4>2
      <4>5. a * n \in Nat /\ b * n \in Nat /\ t * l \in Nat
        BY <1>1, <4>2
      <4>6. (a - b) * n < t
        BY <4>3, <4>4, <4>5
      <4>7. (m + 1) - 1 = m
        BY <1>1
      <4> QED
        BY <1>3, <2>2, <4>6, <4>7 DEF Fair, a, b
    <3> QED
      BY <3>1, <3>2
  <2>5. \/ Sum(rows)[m + 1] * n >= t * (l + 1)
        \/ size - (m + 1) = n - (l + 1) /\ Len(rows) = m + 1
    BY <1>1, <1>2, <1>6
  <2>6. ~(Len(rows) > m + 1)
    BY <1>1, <1>2
  <2>7. \A k \in 1..(l + 1) : Fair(rows, f, t, n, k)
    BY <1>1, <2>3, <2>4
  <2> QED
    BY <2>2, <2>5, <2>6, <2>7 DEF Going, rows
<1>7. CASE ~(l # n - 1 /\ (Bytes(rows) * n >= t * (l + 1) \/ size - (m + 1) = n - l - 1))
  <2>1. f = e
    BY <1>2, <1>7 DEF rows, l
  <2>2. \A k \in 1..l : Fair(rows, f, t, n, k)
    BY <1>4, <2>1, FairKept DEF rows, l, m
  <2>3. \/ Sum(rows)[from] * n >= t * l
        \/ size - from = n - l /\ l = n - 1
    <3>1. CASE Sum(w)[from] * n >= t * l
      BY <1>3, <3>1
    <3>2. CASE size - from = n - l /\ m = from /\ l # n - 1
      <4>1. size - (m + 1) = n - l - 1
        BY <1>1, <3>2
      <4> QED
        BY <1>7, <3>2, <4>1
    <3> QED
      BY <1>4, <3>1, <3>2
  <2>4. l # n - 1 => Sum(rows)[m + 1] * n < t * (l + 1)
    <3> DEFINE a == Bytes(rows)
    <3>1. l # n - 1 => ~(a * n >= t * (l + 1))
      BY <1>7
    <3>2. a \in Nat
      BY <1>5
    <3> HIDE DEF a
    <3>3. a * n \in Nat /\ t * (l + 1) \in Nat
      BY <1>1, <3>2
    <3>4. l # n - 1 => a * n < t * (l + 1)
      BY <3>1, <3>3
    <3> QED
      BY <1>2, <3>4 DEF a
  <2> QED
    BY <1>2, <2>1, <2>2, <2>3, <2>4 DEF Going, rows, l, from
<1> QED
  BY <1>6, <1>7

(* Closing the last shard, when both passes have found the same records.   *)
LEMMA GoingClose ==
    ASSUME NEW w \in Seq(Records), NEW e \in Seq(Nat), NEW n \in Nat \ {0},
           Rising(e, Len(w)), Going(w, e, Len(w), Bytes(w), n),
           WellCut(Append(e, Len(w)), n)
    PROVE  \A k \in 1..n : /\ Fair(w, Append(e, Len(w)), Bytes(w), n, k)
                           /\ Append(e, Len(w))[k] \in 0..Len(w)
<1> DEFINE l == Len(e)
           m == Len(w)
           f == Append(e, m)
           from == From(e, l + 1)
           t == Bytes(w)
<1>1. m \in Nat /\ t \in Nat /\ l \in Nat /\ from \in Nat
  BY LenProperties, FromLast, SumFacts
<1>2. Len(f) = l + 1 /\ f[l + 1] = m /\ From(f, l + 1) = from
  BY <1>1, FromLast
<1>3. l = n - 1
  BY <1>1, <1>2 DEF WellCut
<1>4. /\ \A k \in 1..l : Fair(w, e, t, n, k)
      /\ Sum(w)[from] * n >= t * l \/ m - from = n - l
  BY DEF Going
<1>5. from < m
  <2>1. CASE l = 0
    <3>1. 1 \in 1..Len(f) /\ f[1] > 0
      BY <1>2, <2>1 DEF WellCut
    <3> QED
      BY <1>1, <1>2, <2>1, <3>1 DEF From
  <2>2. CASE l # 0
    <3>1. l + 1 \in 1..Len(f) /\ l + 1 # 1 /\ (l + 1) - 1 = l
      BY <1>1, <1>2, <2>2
    <3>2. f[l + 1] > f[l]
      BY <3>1 DEF WellCut
    <3>3. f[l] = from
      BY <1>1, <1>2, <2>2, <3>1 DEF From
    <3> QED
      BY <1>1, <1>2, <3>2, <3>3
  <2> QED
    BY <2>1, <2>2
<1>6. \A k \in 1..l : Fair(w, f, t, n, k)
  <2>1. ASSUME NEW k \in 1..l PROVE Fair(w, f, t, n, k)
    <3>1. Rising(e, m) /\ Fair(w, e, t, n, k)
      BY <1>4
    <3>2. \E r \in Records : TRUE
      <4>1. m \in 1..Len(w)
        BY <1>1, <1>5
      <4> QED
        BY <4>1, ElementOfSeq
    <3> QED
      BY <3>1, <3>2, FairKept
  <2> QED
    BY <2>1
<1>7. Fair(w, f, t, n, l + 1)
  <2>1. CASE m - from = n - l
    <3>1. m = from + 1
      BY <1>1, <1>3, <2>1
    <3> QED
      BY <1>2, <3>1 DEF Fair
  <2>2. CASE Sum(w)[from] * n >= t * l
    <3> DEFINE a == Sum(w)[m - 1]
               b == Sum(w)[from]
    <3>1. m \in 1..Len(w) /\ m - 1 \in 0..Len(w) /\ from \in 0..Len(w)
      BY <1>1, <1>5
    <3>2. a \in Nat /\ b \in Nat /\ a < t
      BY <3>1, SumFacts
    <3>3. b * n >= t * (n - 1)
      BY <1>3, <2>2
    <3> HIDE DEF a, b, t
    <3>4. (a - b) * n = a * n - b * n /\ t * (n - 1) = t * n - t
      BY <1>1, <3>2
    <3>5. a * n < t * n /\ a * n \in Nat /\ b * n \in Nat /\ t * n \in Nat
      BY <1>1, <3>2
    <3>6. (a - b) * n < t
      BY <1>1, <3>3, <3>4, <3>5
    <3> HIDE DEF f, from
    <3> QED
      BY <1>2, <3>6 DEF Fair, a, b
  <2> QED
    BY <1>4, <2>1, <2>2
<1>8. \A k \in 1..l : f[k] \in 0..m
  <2>1. \A k \in 1..l : f[k] = e[k] /\ e[k] \in Nat /\ e[k] <= m
    BY <1>1, ElementOfSeq, AppendProperties DEF Rising
  <2> QED
    BY <1>1, <2>1
<1> HIDE DEF f, t
<1>9. \A k \in 1..n : k \in 1..l \/ k = l + 1
  BY <1>1, <1>3
<1>10. \A k \in 1..n : Fair(w, f, t, n, k) /\ f[k] \in 0..m
  BY <1>1, <1>2, <1>6, <1>7, <1>8, <1>9
<1> QED
  BY <1>10 DEF f, t

(* What is written is balanced so far, and what is checked is balanced     *)
(* unless it is rejected.                                                  *)
Balancing ==
    \A p \in Preparers :
        /\ pc[p] = "write" =>
              Going(wrote[p], ends[p], Len(scan[p]), Bytes(scan[p]), count[p])
        /\ pc[p] \in {"check", "publish"} /\ wrote[p] = scan[p] /\ WellCut(ends[p], count[p]) =>
              \A k \in 1..count[p] :
                  /\ Fair(wrote[p], ends[p], Bytes(scan[p]), count[p], k)
                  /\ ends[p][k] \in 0..Len(wrote[p])

LEMMA BalancingNext ==
    ASSUME IInv, Balancing, NEW p \in Preparers, Prepare(p) \/ Kill(p)
    PROVE  Balancing'
<1> SUFFICES ASSUME NEW q \in Preparers
             PROVE  /\ pc'[q] = "write" =>
                          Going(wrote'[q], ends'[q], Len(scan'[q]), Bytes(scan'[q]), count'[q])
                    /\ pc'[q] \in {"check", "publish"} /\ wrote'[q] = scan'[q]
                           /\ WellCut(ends'[q], count'[q]) =>
                          \A k \in 1..count'[q] :
                              /\ Fair(wrote'[q], ends'[q], Bytes(scan'[q]), count'[q], k)
                              /\ ends'[q][k] \in 0..Len(wrote'[q])
  BY DEF Balancing
<1>1. CASE q # p
  BY <1>1, Others DEF Balancing
<1>2. CASE q = p
  <2>0. /\ wrote[p] \in Seq(Records) /\ scan[p] \in Seq(Records) /\ feed[p] \in Seq(Records)
        /\ ends[p] \in Seq(Nat) /\ count[p] \in Nat \ {0} /\ p \in DOMAIN pc /\ p \in DOMAIN ends
        /\ p \in DOMAIN wrote /\ p \in DOMAIN scan
    BY Numbers DEF IInv, TypeOK
  <2>1. CASE Start(p) \/ Publish(p) \/ Kill(p)
    <3>1. pc'[p] \notin {"write", "check", "publish"}
      BY <2>0, <2>1 DEF Start, Publish, Kill, Goto
    <3> QED
      BY <1>2, <3>1
  <2>2. CASE Scan(p)
    <3>1. UNCHANGED <<wrote, ends, count>> /\ wrote[p] = << >> /\ ends[p] = << >>
      BY <2>2 DEF Scan, IInv, Writing
    <3>2. pc'[p] \notin {"check", "publish"}
      BY <2>0, <2>2 DEF Scan, Goto
    <3>3. ASSUME pc'[p] = "write"
          PROVE  Going(<< >>, << >>, Len(scan'[p]), Bytes(scan'[p]), count[p])
      <4>1. scan'[p] \in Seq(Records)
        <5>1. TypeOK'
          BY <2>2, TypeNext DEF Prepare
        <5> QED
          BY <5>1 DEF TypeOK
      <4>2. Bytes(scan'[p]) \in Nat
        BY <4>1, SumFacts
      <4>3. << >> \in Seq(Records) /\ Len(<< >>) = 0
        OBVIOUS
      <4>4. Sum(<< >>)[0] = 0
        BY <4>3, SumFacts
      <4>5. From(<< >>, 1) = 0
        BY DEF From
      <4>6. 0 * count[p] = 0 /\ Bytes(scan'[p]) * 0 = 0
        BY <2>0, <4>2
      <4> HIDE DEF Going
      <4>7. Sum(<< >>)[From(<< >>, Len(<< >>) + 1)] * count[p] >= Bytes(scan'[p]) * Len(<< >>)
        BY <4>3, <4>4, <4>5, <4>6
      <4>8. ~(Len(<< >>) > From(<< >>, Len(<< >>) + 1)) /\ 1..Len(<< >>) = {}
        BY <4>3, <4>5
      <4> QED
        BY <4>7, <4>8 DEF Going
    <3> QED
      BY <1>2, <3>1, <3>2, <3>3
  <2>3. CASE Write(p)
    <3> DEFINE rows == Append(wrote[p], Head(feed[p]))
    <3>1. /\ pc[p] = "write" /\ pc'[p] = "write" /\ UNCHANGED <<scan, count>>
          /\ wrote'[p] = rows /\ feed[p] # << >>
          /\ IF ~IsLast(p) /\ (CrossedTarget(p, rows) \/ MustSplit(p, rows))
             THEN ends'[p] = Append(ends[p], Len(rows)) ELSE ends'[p] = ends[p]
      <4>1. /\ wrote' = [wrote EXCEPT ![p] = rows]
            /\ IF ~IsLast(p) /\ (CrossedTarget(p, rows) \/ MustSplit(p, rows))
               THEN ends' = [ends EXCEPT ![p] = Append(ends[p], Len(rows))] ELSE ends' = ends
        BY <2>3 DEF Write
      <4> HIDE DEF rows
      <4> QED
        BY <2>0, <2>3, <4>1 DEF Write
    <3>2. /\ Rising(ends[p], Len(wrote[p])) /\ Len(ends[p]) <= count[p] - 1
          /\ Going(wrote[p], ends[p], Len(scan[p]), Bytes(scan[p]), count[p])
      BY <3>1 DEF IInv, Writing, Balancing
    <3>3. Head(feed[p]) \in Records /\ Len(scan[p]) \in Nat /\ Bytes(scan[p]) \in Nat
      BY <2>0, <3>1, HeadTailProperties, LenProperties, SumFacts
    <3>4. Len(ends[p]) \in Nat /\ (~IsLast(p) <=> Len(ends[p]) # count[p] - 1)
      BY <2>0, <3>2, LenProperties DEF IsLast
    <3>5. IF Len(ends[p]) # count[p] - 1
                /\ \/ Bytes(rows) * count[p] >= Bytes(scan[p]) * (Len(ends[p]) + 1)
                   \/ Len(scan[p]) - Len(rows) = count[p] - Len(ends[p]) - 1
          THEN ends'[p] = Append(ends[p], Len(rows)) ELSE ends'[p] = ends[p]
      BY <3>1, <3>4 DEF CrossedTarget, MustSplit
    <3>6. Going(rows, ends'[p], Len(scan[p]), Bytes(scan[p]), count[p])
      <4> HIDE DEF Going
      <4> QED
        BY <2>0, <3>2, <3>3, <3>5, GoingWrite
    <3> QED
      BY <1>2, <3>1, <3>6
  <2>4. CASE Close(p)
    <3>1. /\ pc[p] = "write" /\ pc'[p] = "check" /\ UNCHANGED <<scan, count, wrote>>
          /\ ends'[p] = Append(ends[p], Len(wrote[p]))
      BY <2>0, <2>4 DEF Close, Goto
    <3>2. /\ Rising(ends[p], Len(wrote[p]))
          /\ Going(wrote[p], ends[p], Len(scan[p]), Bytes(scan[p]), count[p])
      BY <3>1 DEF IInv, Writing, Balancing
    <3>3. ASSUME wrote[p] = scan[p], WellCut(Append(ends[p], Len(wrote[p])), count[p])
          PROVE  \A k \in 1..count[p] :
                     /\ Fair(wrote[p], Append(ends[p], Len(wrote[p])), Bytes(scan[p]),
                             count[p], k)
                     /\ Append(ends[p], Len(wrote[p]))[k] \in 0..Len(wrote[p])
      BY <2>0, <3>2, <3>3, GoingClose
    <3> QED
      BY <1>2, <3>1, <3>3
  <2>5. CASE Check(p)
    <3>1. pc[p] = "check" /\ UNCHANGED <<scan, count, wrote, ends>> /\ pc'[p] # "write"
      BY <2>0, <2>5 DEF Check, Goto
    <3> QED
      BY <1>2, <3>1 DEF Balancing
  <2> QED
    BY <2>1, <2>2, <2>3, <2>4, <2>5 DEF Prepare
<1> QED
  BY <1>1, <1>2

LEMMA BalancedNext ==
    ASSUME IInv, Balancing, JobBalanced, NEW p \in Preparers, Prepare(p) \/ Kill(p)
    PROVE  JobBalanced'
<1>1. CASE UNCHANGED job
  BY <1>1 DEF JobBalanced
<1>2. CASE Publish(p) /\ job = NoJob
  <2> DEFINE e == ends[p]
             n == count[p]
             w == scan[p]
  <2>1. /\ job' = Staged(p) /\ pc[p] = "publish"
        /\ w \in Seq(Records) /\ e \in Seq(Nat) /\ n \in Nat \ {0}
    BY <1>2, Numbers DEF Publish, IInv, TypeOK
  <2>2. wrote[p] = w /\ WellCut(e, n)
    BY <2>1 DEF IInv, Closed
  <2>3. \A k \in 1..n : Fair(w, e, Bytes(w), n, k) /\ e[k] \in 0..Len(w)
    BY <2>1, <2>2 DEF Balancing
  <2>4. job'.numShards = n /\ job'.rows = w /\ job'.ends = e
    BY <2>1 DEF Staged
  <2> HIDE DEF e, n, w
  <2>5. ASSUME NEW k \in 1..n
        PROVE  \/ e[k] = From(e, k) + 1
               \/ Bytes(SubSeq(w, From(e, k) + 1, e[k] - 1)) * n < Bytes(w)
    <3>1. Len(w) \in Nat /\ Len(e) = n /\ n \in Nat
      BY <2>1, <2>2, LenProperties DEF WellCut
    <3>2. From(e, k) \in 0..Len(w) /\ From(e, k) < e[k] /\ e[k] \in 0..Len(w)
      <4>1. CASE k = 1
        BY <2>2, <2>3, <3>1, <4>1 DEF From, WellCut
      <4>2. CASE k # 1
        <5>1. k - 1 \in 1..n /\ e[k - 1] \in 0..Len(w) /\ e[k] > e[k - 1] /\ e[k] \in 0..Len(w)
          BY <2>2, <2>3, <3>1, <4>2 DEF WellCut
        <5> QED
          BY <3>1, <4>2, <5>1 DEF From
      <4> QED
        BY <4>1, <4>2
    <3>3. e[k] - 1 \in From(e, k)..Len(w)
      BY <3>1, <3>2
    <3>4. Bytes(SubSeq(w, From(e, k) + 1, e[k] - 1)) = Sum(w)[e[k] - 1] - Sum(w)[From(e, k)]
      BY <2>1, <3>2, <3>3, BytesOfPart
    <3> QED
      BY <2>3, <3>4 DEF Fair
  <2>6. JobBalanced' <=>
          (job' # NoJob =>
              \A k \in 1..n :
                  \/ e[k] = From(e, k) + 1
                  \/ Bytes(SubSeq(w, From(e, k) + 1, e[k] - 1)) * n < Bytes(w))
    BY <2>4 DEF JobBalanced, From
  <2> QED
    BY <2>5, <2>6
<1> QED
  BY <1>1, <1>2 DEF Prepare, Kill, Start, Scan, Write, Close, Check, Publish

(* For any records of any sizes, inputs, shard counts and processes: each  *)
(* shard of a published job is one record, or within its share of the      *)
(* bytes but for its last record (_write_shards).                          *)
THEOREM PublishedBalanced == Spec => []JobBalanced
<1>1. Init => Balancing /\ JobBalanced
  BY DEF Init, Balancing, JobBalanced
<1>2. IInv /\ Balancing /\ JobBalanced /\ [Next]_vars => Balancing' /\ JobBalanced'
  <2> SUFFICES ASSUME IInv, Balancing, JobBalanced, [Next]_vars
               PROVE  Balancing' /\ JobBalanced'
    OBVIOUS
  <2>1. CASE UNCHANGED vars
    BY <2>1 DEF vars, Balancing, JobBalanced
  <2> QED
    BY <2>1, BalancingNext, BalancedNext DEF Next
<1>3. Spec => [](IInv /\ Balancing /\ JobBalanced)
  BY <1>1, <1>2, IInvInit, IInvNext, PTL DEF Spec
<1> QED
  BY <1>3, PTL
=============================================================================
