--------------------------- MODULE GpuProbeProofs ---------------------------
(***************************************************************************)
(* Proofs about GpuProbe: a timed out probe had not finished, actors       *)
(* that Ray packs onto a GPU by their shares fit into its memory, also     *)
(* with shares measured on another GPU of nearly the same size, and what   *)
(* is measured is a batch of what the operator would see in the job.       *)
(***************************************************************************)
EXTENDS GpuProbe, SequenceTheorems, FiniteSetTheorems, WellFoundedInduction, TLAPS

(***************************************************************************)
(* Sums.                                                                   *)
(***************************************************************************)

(* Of the subsets of a finite set that some set T names, one is smallest.  *)
LEMMA SmallestSubset ==
    ASSUME NEW D, IsFiniteSet(D), NEW T \in SUBSET (SUBSET D), T # {}
    PROVE  \E U \in T : \A V \in T : V \subseteq U => V = U
<1>1. T \subseteq FiniteSubsetsOf(D)
  BY FS_Subset DEF FiniteSubsetsOf
<1>2. IsWellFoundedOn(StrictSubsetOrdering(D), FiniteSubsetsOf(D))
  BY FS_StrictSubsetOrderingWellFounded
<1>3. PICK U \in T : \A V \in T : ~(<<V, U>> \in StrictSubsetOrdering(D))
  BY <1>1, <1>2, WFMin
<1> QED
  BY <1>3 DEF StrictSubsetOrdering

(* The running totals of a sum over D, by the sets already added.          *)
Picked(s) == CHOOSE x \in s : TRUE
Totals(f, D, n, each) ==
    f = [s \in SUBSET D |->
            IF s = {} THEN 0 ELSE f[s \ {Picked(s)}] + n[Picked(s)] * each[Picked(s)]]

(* Totals over the same finite set agree on what they have in common.      *)
LEMMA TotalsAgree ==
    ASSUME NEW D, IsFiniteSet(D), NEW A \in SUBSET D, NEW B \in SUBSET D, NEW n, NEW each,
           NEW f, NEW g, Totals(f, A, n, each), Totals(g, B, n, each)
    PROVE  \A s \in SUBSET (A \cap B) : f[s] = g[s]
<1> DEFINE T == {s \in SUBSET (A \cap B) : f[s] # g[s]}
<1> SUFFICES ASSUME T # {} PROVE FALSE
  OBVIOUS
<1>1. IsFiniteSet(A \cap B)
  BY FS_Subset
<1>2. PICK U \in T : \A V \in T : V \subseteq U => V = U
  <2> T \in SUBSET (SUBSET (A \cap B))
    OBVIOUS
  <2> HIDE DEF T
  <2> QED
    BY <1>1, SmallestSubset
<1>3. U # {}
  BY <1>2 DEF Totals
<1>4. Picked(U) \in U
  BY <1>3 DEF Picked
<1>5. f[U \ {Picked(U)}] = g[U \ {Picked(U)}]
  BY <1>2, <1>4
<1>6. /\ f[U] = f[U \ {Picked(U)}] + n[Picked(U)] * each[Picked(U)]
      /\ g[U] = g[U \ {Picked(U)}] + n[Picked(U)] * each[Picked(U)]
  BY <1>2, <1>3 DEF Totals
<1> QED
  BY <1>2, <1>5, <1>6

(* There are totals over every finite set.                                 *)
LEMMA TotalsExist ==
    ASSUME NEW D, IsFiniteSet(D), NEW n, NEW each
    PROVE  \E f : Totals(f, D, n, each)
<1> DEFINE T == {S \in SUBSET D : ~ \E f : Totals(f, S, n, each)}
<1> SUFFICES ASSUME T # {} PROVE FALSE
  OBVIOUS
<1>1. PICK U \in T : \A V \in T : V \subseteq U => V = U
  <2> T \in SUBSET (SUBSET D)
    OBVIOUS
  <2> HIDE DEF T
  <2> QED
    BY SmallestSubset
<1> DEFINE Part(S) == CHOOSE f : Totals(f, S, n, each)
           g == [s \in SUBSET U |->
                    IF s = {} THEN 0
                    ELSE Part(s \ {Picked(s)})[s \ {Picked(s)}] + n[Picked(s)] * each[Picked(s)]]
<1>2. ASSUME NEW S \in SUBSET U, S # U PROVE Totals(Part(S), S, n, each)
  BY <1>1, <1>2
<1>3. ASSUME NEW s \in SUBSET U, s # {}
      PROVE  s \ {Picked(s)} \in SUBSET U /\ s \ {Picked(s)} # U
  BY <1>3 DEF Picked
<1>4. ASSUME NEW s \in SUBSET U, s # U PROVE Part(s)[s] = g[s]
  <2> DEFINE r == s \ {Picked(s)}
  <2>1. Totals(Part(s), s, n, each)
    BY <1>2, <1>4
  <2>2. CASE s = {}
    BY <2>1, <2>2 DEF Totals
  <2>3. CASE s # {}
    <3>1. r \in SUBSET U /\ r # U /\ r \in SUBSET s
      BY <1>3, <2>3
    <3>2. Totals(Part(r), r, n, each)
      BY <1>2, <3>1
    <3>3. Part(s)[s] = Part(s)[r] + n[Picked(s)] * each[Picked(s)]
      BY <2>1, <2>3 DEF Totals
    <3>4. s \in SUBSET D /\ r \in SUBSET D
      BY <3>1
    <3>5. \A t \in SUBSET (s \cap r) : Part(s)[t] = Part(r)[t]
      <4> HIDE DEF Part, r
      <4> QED
        BY <2>1, <3>2, <3>4, TotalsAgree
    <3>6. Part(s)[r] = Part(r)[r]
      BY <3>1, <3>5
    <3>7. g[s] = Part(r)[r] + n[Picked(s)] * each[Picked(s)]
      BY <2>3
    <3> QED
      BY <3>3, <3>6, <3>7
  <2> QED
    BY <2>2, <2>3
<1>5. Totals(g, U, n, each)
  <2>1. ASSUME NEW s \in SUBSET U, s # {}
        PROVE  Part(s \ {Picked(s)})[s \ {Picked(s)}] = g[s \ {Picked(s)}]
    BY <1>3, <1>4, <2>1
  <2>2. \A s \in SUBSET U : g[s] =
            IF s = {} THEN 0 ELSE g[s \ {Picked(s)}] + n[Picked(s)] * each[Picked(s)]
    <3> TAKE s \in SUBSET U
    <3>1. CASE s = {}
      BY <3>1
    <3>2. CASE s # {}
      <4>1. g[s] = Part(s \ {Picked(s)})[s \ {Picked(s)}] + n[Picked(s)] * each[Picked(s)]
        BY <3>2
      <4>2. Part(s \ {Picked(s)})[s \ {Picked(s)}] = g[s \ {Picked(s)}]
        BY <2>1, <3>2
      <4> HIDE DEF g, Part
      <4> QED
        BY <3>2, <4>1, <4>2
    <3> QED
      BY <3>1, <3>2
  <2>3. g = [s \in SUBSET U |-> g[s]]
    OBVIOUS
  <2>4. g = [s \in SUBSET U |->
                IF s = {} THEN 0
                ELSE g[s \ {Picked(s)}] + n[Picked(s)] * each[Picked(s)]]
    <3> HIDE DEF g
    <3> QED
      BY <2>2, <2>3
  <2> HIDE DEF g
  <2> QED
    BY <2>4 DEF Totals
<1> QED
  BY <1>1, <1>5

(* A sum is the last of its totals.                                        *)
LEMMA TotalIsLast ==
    ASSUME NEW D, IsFiniteSet(D), NEW n, NEW each, DOMAIN each = D
    PROVE  \E f : Totals(f, D, n, each) /\ Total(n, each) = f[D]
<1> DEFINE f == CHOOSE g : Totals(g, D, n, each)
<1>1. Totals(f, D, n, each)
  BY TotalsExist
<1>2. Total(n, each) = f[D]
  BY DEF Total, FoldSet, MapThenFoldSet, Totals, Picked
<1> HIDE DEF f
<1> QED
  BY <1>1, <1>2

Scaled(a, b, c, d) == a * c <= b * d

LEMMA ScaledStep ==
    ASSUME NEW a \in Nat, NEW b \in Nat, NEW c \in Nat, NEW d \in Nat,
           NEW k \in Nat, NEW q \in Nat, NEW v \in Nat,
           Scaled(a, b, c, d), Scaled(q, v, c, d)
    PROVE  /\ a + k * q \in Nat /\ b + k * v \in Nat
           /\ Scaled(a + k * q, b + k * v, c, d)
<1>1. k * q \in Nat /\ k * v \in Nat /\ q * c \in Nat /\ v * d \in Nat
  OBVIOUS
<1>2. (a + k * q) * c = a * c + k * (q * c) /\ (b + k * v) * d = b * d + k * (v * d)
  OBVIOUS
<1>3. k * (q * c) <= k * (v * d)
  BY <1>1 DEF Scaled
<1> QED
  BY <1>1, <1>2, <1>3 DEF Scaled

(* If c p is at most d w for each operator, c times the sum of the p is at *)
(* most d times the sum of the w.                                          *)
LEMMA TotalsCompare ==
    ASSUME NEW D, IsFiniteSet(D), NEW n \in [D -> Nat],
           NEW p \in [D -> Nat], NEW w \in [D -> Nat],
           NEW c \in Nat, NEW d \in Nat, \A i \in D : p[i] * c <= w[i] * d
    PROVE  /\ Total(n, p) \in Nat /\ Total(n, w) \in Nat
           /\ Total(n, p) * c <= Total(n, w) * d
<1>1. PICK f : Totals(f, D, n, p) /\ Total(n, p) = f[D]
  BY TotalIsLast
<1>2. PICK g : Totals(g, D, n, w) /\ Total(n, w) = g[D]
  BY TotalIsLast
<1> DEFINE Fine(s) == f[s] \in Nat /\ g[s] \in Nat /\ f[s] * c <= g[s] * d
           T == {s \in SUBSET D : ~Fine(s)}
<1>3. ASSUME T # {} PROVE FALSE
  <2>1. PICK U \in T : \A V \in T : V \subseteq U => V = U
    <3> T \in SUBSET (SUBSET D)
      OBVIOUS
    <3> HIDE DEF T
    <3> QED
      BY <1>3, SmallestSubset
  <2>2. CASE U = {}
    <3>1. f[{}] = 0 /\ g[{}] = 0
      BY <1>1, <1>2 DEF Totals
    <3>2. Fine(U)
      BY <2>2, <3>1
    <3> QED
      BY <3>2
  <2>3. CASE U # {}
    <3> DEFINE x == Picked(U)
               r == U \ {x}
    <3>1. x \in U /\ U \in SUBSET D
      BY <2>3 DEF Picked
    <3>2. Fine(r)
      BY <2>1, <3>1
    <3>3. f[U] = f[r] + n[x] * p[x] /\ g[U] = g[r] + n[x] * w[x]
      BY <1>1, <1>2, <2>3, <3>1 DEF Totals
    <3>4. n[x] \in Nat /\ p[x] \in Nat /\ w[x] \in Nat /\ p[x] * c <= w[x] * d
      BY <3>1
    <3>5. f[r] \in Nat /\ g[r] \in Nat /\ Scaled(f[r], g[r], c, d) /\ Scaled(p[x], w[x], c, d)
      BY <3>2, <3>4 DEF Scaled
    <3>6. /\ f[r] + n[x] * p[x] \in Nat /\ g[r] + n[x] * w[x] \in Nat
          /\ Scaled(f[r] + n[x] * p[x], g[r] + n[x] * w[x], c, d)
      <4> HIDE DEF x, r
      <4> QED
        BY <3>4, <3>5, ScaledStep
    <3>7. Fine(U)
      BY <3>3, <3>6 DEF Scaled
    <3> QED
      BY <3>7
  <2> QED
    BY <2>2, <2>3
<1>4. Fine(D)
  BY <1>3
<1> QED
  BY <1>1, <1>2, <1>4
(***************************************************************************)
(* Shares of a GPU.                                                        *)
(***************************************************************************)

LEMMA Numbers == MaxWorkers \in Nat \ {0} /\ Limit \in Nat \ {0}
  BY WorkersAssumption

LEMMA CeilFacts ==
    ASSUME NEW m \in Nat, NEW k \in Nat \ {0}
    PROVE  Ceil(m, k) \in Nat /\ m <= Ceil(m, k) * k
<1> DEFINE a == m + k - 1
           q == a \div k
           r == a % k
<1>1. a \in Nat
  OBVIOUS
<1>2. q \in Nat /\ r \in 0..(k - 1) /\ a = k * q + r
  <2> HIDE DEF a
  <2> QED
    BY <1>1
<1>3. Ceil(m, k) = q
  BY DEF Ceil
<1>4. k * q = q * k /\ k * q \in Nat
  <2> HIDE DEF q
  <2> QED
    BY <1>2
<1>5. m <= k * q
  <2> DEFINE z == k * q
  <2>1. z \in Nat /\ m + k - 1 = z + r
    BY <1>2, <1>4
  <2> HIDE DEF z, r, q
  <2> QED
    BY <1>2, <2>1 DEF z
<1> HIDE DEF q
<1> QED
  BY <1>2, <1>3, <1>4, <1>5

(* The share that an operator is given of a GPU with total MiB.            *)
Demand(op, total) == Larger(1, Ceil(100 * Planned(op), total)) * MaxWorkers

(* Any GPU has a size, and its tolerance of 16 MiB is within the margin of *)
(* a tenth.                                                                *)
GpusLarge == \A g \in Gpus : g.total \in Nat /\ g.total >= 160

(* A share suffices on every GPU that is at most 16 MiB smaller than the   *)
(* one it was measured on.                                                 *)
LEMMA DemandSuffices ==
    ASSUME NEW op \in Operator, NEW total \in Nat, NEW here \in Nat,
           total >= 160, here >= 160, total - here \in -16..16
    PROVE  Demand(op, total) \in Nat /\ op.peak * Whole <= Demand(op, total) * here
<1> DEFINE P == Planned(op)
           S == Larger(1, Ceil(100 * P, total))
<1>1. op.peak \in Nat
  BY DEF Operator
<1>2. P \in Nat /\ 11 * op.peak <= P * 10
  BY <1>1, CeilFacts DEF Planned
<1>3. S \in Nat /\ 100 * P <= S * total
  <2> DEFINE C == Ceil(100 * P, total)
  <2>1. 100 * P \in Nat
    BY <1>2
  <2>2. C \in Nat /\ 100 * P <= C * total
    <3> HIDE DEF P
    <3> QED
      BY <2>1, CeilFacts
  <2>3. S = IF 1 > C THEN 1 ELSE C
    BY DEF Larger
  <2> HIDE DEF C, S, P
  <2>4. CASE 1 > C
    <3>1. C = 0 /\ S = 1
      BY <2>2, <2>3, <2>4
    <3> QED
      BY <2>1, <2>2, <3>1
  <2>5. CASE ~(1 > C)
    BY <2>2, <2>3, <2>5
  <2> QED
    BY <2>4, <2>5
<1>4. 10 * (S * total) <= 11 * (S * here)
  <2> HIDE DEF S
  <2>1. 10 * total <= 11 * here
    OBVIOUS
  <2>2. S * (10 * total) <= S * (11 * here)
    BY <1>3, <2>1
  <2> QED
    BY <1>3, <2>2
<1>5. S * here \in Nat /\ S * total \in Nat
  BY <1>3
<1>6. 100 * op.peak <= S * here
  <2> HIDE DEF S, P
  <2> DEFINE A == S * here
             B == S * total
             q == op.peak
  <2>1. q \in Nat /\ 11 * q <= P * 10 /\ 100 * P <= B /\ 10 * B <= 11 * A
    BY <1>1, <1>2, <1>3, <1>4
  <2>2. A \in Nat /\ B \in Nat /\ P \in Nat
    BY <1>2, <1>5
  <2> HIDE DEF A, B, q
  <2>3. 100 * q <= A
    BY <2>1, <2>2
  <2> QED
    BY <2>3 DEF A, q
<1>7. (100 * op.peak) * MaxWorkers <= (S * here) * MaxWorkers
  <2> HIDE DEF S
  <2> QED
    BY <1>1, <1>5, <1>6, Numbers
<1>8. Demand(op, total) = S * MaxWorkers /\ Demand(op, total) \in Nat
  <2> HIDE DEF S
  <2>1. S * MaxWorkers \in Nat
    BY <1>3, Numbers
  <2> QED
    BY <2>1 DEF Demand, S
<1>9. (100 * op.peak) * MaxWorkers = op.peak * Whole /\ (S * here) * MaxWorkers = (S * MaxWorkers) * here
  <2> HIDE DEF S
  <2> QED
    BY <1>1, <1>3, Numbers DEF Whole
<1> QED
  BY <1>7, <1>8, <1>9
(***************************************************************************)
(* Time-outs.                                                              *)
(***************************************************************************)

LEMMA FirstOfQueue == \A q, m : First(q, m) \subseteq q
  BY DEF First

LEMMA WithFacts ==
    ASSUME NEW f, NEW g
    PROVE  /\ DOMAIN With(f, g) = DOMAIN f \cup DOMAIN g
           /\ \A i \in DOMAIN f : With(f, g)[i] = f[i]
           /\ \A i \in DOMAIN g \ DOMAIN f : With(f, g)[i] = g[i]
  BY DEF With

(* While the driver waits it has given up nothing, and what is queued does *)
(* not run.  What was overdue at a look was running then; once everything  *)
(* that had ended is received, it had not ended.                           *)
TimeoutInv ==
    /\ pc \in {"wait", "drain", "check"} => blamed = {} /\ jobs \cap DOMAIN workers = {}
    /\ pc = "drain" => overdue \subseteq DOMAIN workers
    /\ pc = "check" => known \cap overdue \cap DOMAIN workers = {}
    /\ TimeoutHonest

LEMMA TimeoutNext == TimeoutInv /\ [Next]_vars => TimeoutInv'
<1> SUFFICES ASSUME TimeoutInv, [Next]_vars PROVE TimeoutInv'
  OBVIOUS
<1> USE DEF TimeoutInv, TimeoutHonest
<1>1. CASE Start
  <2> PICK r \in Recipes, g \in Gpus : \E reused \in Reusable(r, g) : Resolve(r, g, reused)
    BY <1>1 DEF Start
  <2> PICK reused \in Reusable(r, g) : Resolve(r, g, reused)
    OBVIOUS
  <2> DEFINE queue == Waiting(r, Candidates(r) \ reused)
  <2>1. blamed' = {} /\ known' = {} /\ pc' \in {"failed", "ready", "replay", "wait"}
    BY DEF Resolve
  <2>2. ASSUME pc' = "wait"
        PROVE  jobs' = queue \ First(queue, Limit) /\ workers' = Submitted(First(queue, Limit))
    BY <2>2 DEF Resolve
  <2> QED
    BY <2>1, <2>2 DEF Submitted
<1>2. CASE WorkerEnds
  <2>1. DOMAIN workers' = DOMAIN workers
    BY <1>2 DEF WorkerEnds
  <2> QED
    BY <1>2, <2>1 DEF WorkerEnds
<1>3. CASE GetsLate
  <2>1. DOMAIN workers' = DOMAIN workers
    BY <1>3 DEF GetsLate
  <2> QED
    BY <1>3, <2>1 DEF GetsLate
<1>4. CASE Look
  BY <1>4 DEF Look, Late
<1>5. CASE Drain
  <2>1. CASE pc' = "failed"
    BY <1>5, <2>1 DEF Drain
  <2>2. CASE pc' # "failed"
    <3> DEFINE more == First(jobs, Cardinality(Ready))
               left == [i \in DOMAIN workers \ Ready |-> workers[i]]
    <3>1. /\ pc = "drain" /\ pc' = "check"
          /\ overdue' = overdue /\ blamed' = blamed /\ known' = Ended(workers)
          /\ jobs' = jobs \ more /\ workers' = With(Submitted(more), left)
      BY <1>5, <2>2 DEF Drain, Fail
    <3>2. DOMAIN workers' = more \cup (DOMAIN workers \ Ready)
      BY <3>1, WithFacts DEF Submitted
    <3>3. more \subseteq jobs /\ Ready = Ended(workers) /\ Ended(workers) \subseteq DOMAIN workers
      BY FirstOfQueue DEF Ready, Ended
    <3> QED
      BY <3>1, <3>2, <3>3
  <2> QED
    BY <2>1, <2>2
<1>6. CASE TimeOut
  BY <1>6 DEF TimeOut, Fail
<1>7. CASE Continue
  BY <1>7 DEF Continue
<1>8. CASE Collect
  BY <1>8 DEF Collect, Fail, probing
<1>9. CASE Stage
  BY <1>9 DEF Stage, probing
<1>10. CASE StageFails
  BY <1>10 DEF StageFails, Fail
<1>11. CASE Save
  BY <1>11 DEF Save, probing
<1>12. CASE Kill
  BY <1>12 DEF Kill
<1>13. CASE UNCHANGED vars
  BY <1>13 DEF vars
<1> QED
  BY <1>1, <1>2, <1>3, <1>4, <1>5, <1>6, <1>7, <1>8, <1>9, <1>10, <1>11, <1>12, <1>13 DEF Next

(* For any recipes, GPUs, limits and faults: what the driver reports as    *)
(* timed out had not ended at its last look.                               *)
THEOREM TimeoutsHonest == Spec => []TimeoutHonest
<1>1. Init => TimeoutInv
  BY DEF Init, TimeoutInv, TimeoutHonest
<1>2. TimeoutInv => TimeoutHonest
  BY DEF TimeoutInv
<1> QED
  BY <1>1, <1>2, TimeoutNext, PTL DEF Spec
(***************************************************************************)
(* Packing.                                                                *)
(***************************************************************************)

(* The operators at hand are those of the recipe.                          *)
RunInv ==
    /\ recipe \in Seq(Operator)
    /\ pc # "off" => gpu \in Gpus
    /\ pending \subseteq DOMAIN recipe
    /\ jobs \subseteq DOMAIN recipe
    /\ DOMAIN workers \subseteq DOMAIN recipe
    /\ DOMAIN results \subseteq DOMAIN recipe

(* A record holds what its operator was measured to need of its GPU.       *)
Sound(e) ==
    /\ e.op \in Operator /\ e.gpu \in Gpus
    /\ e.num_gpus \in Nat /\ e.num_gpus >= Demand(e.op, e.gpu.total)

Near(g, h) == g.total - h.total \in -16..16

(* A record of this start is of the recipe's operator and of a GPU like    *)
(* this one.                                                               *)
Usable(i, e, r, g) == i \in DOMAIN r /\ Sound(e) /\ e.op = r[i] /\ Near(e.gpu, g)

RecordsInv ==
    /\ \A i \in DOMAIN report : Sound(report[i])
    /\ \A i \in DOMAIN found : Usable(i, found[i], recipe, gpu)

ShareInv == RunInv /\ RecordsInv

LEMMA ShareInit == Init => ShareInv
<1> SUFFICES ASSUME Init PROVE ShareInv
  OBVIOUS
<1>1. recipe = << >> /\ << >> \in Seq(Operator)
  BY DEF Init
<1>2. DOMAIN Nothing = {}
  BY DEF Nothing
<1> QED
  BY <1>1, <1>2 DEF Init, ShareInv, RunInv, RecordsInv

LEMMA StartRuns ==
    ASSUME ShareInv, Start
    PROVE  ShareInv'
<1> PICK r \in Recipes, g \in Gpus : \E reused \in Reusable(r, g) : Resolve(r, g, reused)
  BY DEF Start
<1> PICK reused \in Reusable(r, g) : Resolve(r, g, reused)
  OBVIOUS
<1> DEFINE todo == Candidates(r) \ reused
           queue == Waiting(r, todo)
<1>1. r \in Seq(Operator)
  BY RecipesAssumption
<1>2. \A i \in reused : /\ i \in DOMAIN r /\ i \in DOMAIN report
                       /\ report[i].op = r[i] /\ Near(report[i].gpu, g)
  BY DEF Reusable, Matching, SameGpu, Near, Candidates
<1>3. /\ recipe' = r /\ gpu' = g /\ pending' = todo /\ report' = report
      /\ found' = [i \in reused |-> report[i]] /\ results' = Nothing
  BY DEF Resolve
<1>4. queue \subseteq DOMAIN r /\ todo \subseteq DOMAIN r /\ First(queue, Limit) \subseteq queue
  BY FirstOfQueue DEF Waiting, Candidates
<1>5. jobs' \subseteq DOMAIN r /\ DOMAIN workers' \subseteq DOMAIN r
  <2>1. \/ jobs' = {} /\ workers' = Nothing
        \/ jobs' = queue \ First(queue, Limit) /\ workers' = Submitted(First(queue, Limit))
    BY DEF Resolve
  <2>2. DOMAIN Nothing = {} /\ DOMAIN Submitted(First(queue, Limit)) = First(queue, Limit)
    BY DEF Nothing, Submitted
  <2> HIDE DEF queue
  <2> QED
    BY <1>4, <2>1, <2>2
<1>6. RunInv'
  <2>1. DOMAIN results' = {}
    BY <1>3 DEF Nothing
  <2> HIDE DEF todo
  <2> QED
    BY <1>1, <1>3, <1>4, <1>5, <2>1 DEF RunInv
<1>7. RecordsInv'
  BY <1>2, <1>3 DEF RecordsInv, ShareInv, Usable, Sound
<1> QED
  BY <1>6, <1>7 DEF ShareInv

(* What is measured now is usable now.                                     *)
LEMMA RecordUsable ==
    ASSUME GpusLarge, ShareInv, gpu \in Gpus, NEW i \in DOMAIN recipe, NEW batch
    PROVE  Usable(i, Record(i, batch), recipe, gpu)
<1>1. recipe[i] \in Operator
  BY DEF ShareInv, RunInv
<1>2. gpu.total \in Nat /\ gpu.total >= 160
  BY DEF GpusLarge
<1>3. Share(recipe[i]) = Demand(recipe[i], gpu.total)
  BY DEF Share, Demand
<1>4. gpu.total - gpu.total = 0
  BY <1>2
<1>5. Demand(recipe[i], gpu.total) \in Nat
  BY <1>1, <1>2, <1>4, DemandSuffices
<1>6. recipe[i].hint \in Nat
  <2>1. recipe[i].hint \in {0} \cup 1..(100 * MaxWorkers)
    BY <1>1 DEF Operator
  <2> QED
    BY <2>1, Numbers
<1> DEFINE d == Demand(recipe[i], gpu.total)
           h == recipe[i].hint
<1>7. \A a, b \in Nat : Larger(a, b) \in Nat /\ Larger(a, b) >= a
  BY DEF Larger
<1>8. Scheduled(recipe[i]) = Larger(d, IF h > 0 THEN h ELSE Larger(d, 100))
  BY <1>3 DEF Scheduled, AutoShare
<1>9. Scheduled(recipe[i]) \in Nat /\ Scheduled(recipe[i]) >= d
  <2> DEFINE asked == IF h > 0 THEN h ELSE Larger(d, 100)
  <2>1. d \in Nat /\ h \in Nat /\ 100 \in Nat
    BY <1>5, <1>6
  <2>2. Scheduled(recipe[i]) = Larger(d, asked)
    BY <1>8
  <2> HIDE DEF d, h
  <2>3. asked \in Nat
    <3>1. Larger(d, 100) \in Nat
      BY <1>7, <2>1
    <3> QED
      BY <2>1, <3>1
  <2> HIDE DEF asked
  <2> QED
    BY <1>7, <2>1, <2>2, <2>3
<1> QED
  BY <1>1, <1>4, <1>9 DEF Usable, Sound, Record, Near
LEMMA DrainRuns ==
    ASSUME ShareInv, Drain
    PROVE  ShareInv'
<1>1. CASE pc' = "failed"
  <2>1. jobs' = {} /\ workers' = Nothing /\ UNCHANGED <<report, recipe, gpu, pending, found, results>>
    BY <1>1 DEF Drain, Fail
  <2> QED
    BY <1>1, <2>1 DEF Drain, ShareInv, RunInv, RecordsInv, Nothing
<1>2. CASE pc' # "failed"
  <2> DEFINE more == First(jobs, Cardinality(Ready))
             left == [i \in DOMAIN workers \ Ready |-> workers[i]]
             received == [i \in Ready |-> workers[i].end]
  <2>1. /\ pc = "drain" /\ pc' = "check"
        /\ results' = With(received, results)
        /\ jobs' = jobs \ more /\ workers' = With(Submitted(more), left)
        /\ UNCHANGED <<report, recipe, gpu, pending, found>>
    BY <1>2 DEF Drain, Fail
  <2>2. DOMAIN workers' = more \cup (DOMAIN workers \ Ready)
    BY <2>1 DEF With, Submitted
  <2>3. DOMAIN results' = Ready \cup DOMAIN results
    BY <2>1 DEF With
  <2>4. more \subseteq jobs /\ Ready \subseteq DOMAIN workers
    BY FirstOfQueue DEF Ready, Ended
  <2>5. RunInv'
    <3> HIDE DEF more
    <3> QED
      BY <2>1, <2>2, <2>3, <2>4 DEF ShareInv, RunInv
  <2> QED
    BY <2>1, <2>5 DEF ShareInv, RecordsInv
<1> QED
  BY <1>1, <1>2

LEMMA CollectRuns ==
    ASSUME GpusLarge, ShareInv, Collect
    PROVE  ShareInv'
<1>1. CASE pc' = "failed"
  <2>1. jobs' = {} /\ workers' = Nothing /\ UNCHANGED <<report, recipe, gpu, pending, found, results>>
    BY <1>1 DEF Collect, Fail
  <2> QED
    BY <1>1, <2>1 DEF Collect, ShareInv, RunInv, RecordsInv, Nothing
<1>2. CASE pc' # "failed"
  <2> DEFINE new == [i \in DOMAIN results |->
                        Record(i, Fill(AncestorRows(recipe, i, rows), recipe[i].batch))]
  <2>1. /\ pc = "collect" /\ pc' \in {"save", "replay"} /\ found' = With(new, found)
        /\ UNCHANGED <<report, recipe, gpu, pending, jobs, workers, results>>
    BY <1>2 DEF Collect, Fail, probing
  <2>2. gpu \in Gpus /\ DOMAIN results \subseteq DOMAIN recipe
    BY <2>1 DEF ShareInv, RunInv
  <2>3. \A i \in DOMAIN results : Usable(i, new[i], recipe, gpu)
    BY <2>2, RecordUsable
  <2>4. DOMAIN found' = DOMAIN new \cup DOMAIN found /\ DOMAIN new = DOMAIN results
    BY <2>1 DEF With
  <2>5. ASSUME NEW i \in DOMAIN found' PROVE Usable(i, found'[i], recipe, gpu)
    <3>1. CASE i \in DOMAIN new
      BY <2>1, <2>3, <3>1, WithFacts
    <3>2. CASE i \in DOMAIN found \ DOMAIN new
      BY <2>1, <3>2 DEF With, ShareInv, RecordsInv
    <3> QED
      BY <2>4, <3>1, <3>2
  <2>6. RunInv'
    BY <2>1, <2>2 DEF ShareInv, RunInv
  <2>7. RecordsInv'
    BY <2>1, <2>5 DEF ShareInv, RecordsInv
  <2> QED
    BY <2>6, <2>7 DEF ShareInv
<1> QED
  BY <1>1, <1>2

LEMMA StageRuns ==
    ASSUME GpusLarge, ShareInv, Stage
    PROVE  ShareInv'
<1> DEFINE new == [i \in {at} |-> Record(i, Fill(rows, Op.batch))]
<1>1. /\ pc = "replay" /\ pc' \in {"save", "replay"}
      /\ found' = IF IsTarget THEN With(new, found) ELSE found
      /\ UNCHANGED <<report, recipe, gpu, pending, jobs, workers, results>>
  BY DEF Stage, probing
<1>2. RunInv'
  BY <1>1 DEF ShareInv, RunInv
<1>3. CASE ~IsTarget
  BY <1>1, <1>2, <1>3 DEF ShareInv, RecordsInv
<1>4. CASE IsTarget
  <2>1. gpu \in Gpus /\ at \in DOMAIN recipe
    BY <1>1, <1>4 DEF ShareInv, RunInv, IsTarget, Serial
  <2>2. Usable(at, new[at], recipe, gpu)
    BY <2>1, RecordUsable
  <2>3. DOMAIN found' = {at} \cup DOMAIN found
    BY <1>1, <1>4 DEF With
  <2>4. ASSUME NEW i \in DOMAIN found' PROVE Usable(i, found'[i], recipe, gpu)
    <3>1. CASE i = at
      <4>1. found'[at] = new[at]
        BY <1>1, <1>4 DEF With
      <4> QED
        BY <2>2, <3>1, <4>1
    <3>2. CASE i \in DOMAIN found \ {at}
      BY <1>1, <1>4, <3>2 DEF With, ShareInv, RecordsInv
    <3> QED
      BY <2>3, <3>1, <3>2
  <2> QED
    BY <1>1, <1>2, <2>4 DEF ShareInv, RecordsInv
<1> QED
  BY <1>3, <1>4

LEMMA ShareNext == GpusLarge /\ ShareInv /\ [Next]_vars => ShareInv'
<1> SUFFICES ASSUME GpusLarge, ShareInv, [Next]_vars PROVE ShareInv'
  OBVIOUS
<1> DOMAIN Nothing = {}
  BY DEF Nothing
<1> USE DEF ShareInv, RunInv, RecordsInv
<1>1. CASE Start
  BY <1>1, StartRuns
<1>2. CASE WorkerEnds
  <2>1. DOMAIN workers' = DOMAIN workers
    BY <1>2 DEF WorkerEnds
  <2> QED
    BY <1>2, <2>1 DEF WorkerEnds
<1>3. CASE GetsLate
  <2>1. DOMAIN workers' = DOMAIN workers
    BY <1>3 DEF GetsLate
  <2> QED
    BY <1>3, <2>1 DEF GetsLate
<1>4. CASE Look
  BY <1>4 DEF Look
<1>5. CASE Drain
  BY <1>5, DrainRuns
<1>6. CASE TimeOut
  BY <1>6 DEF TimeOut, Fail
<1>7. CASE Continue
  BY <1>7 DEF Continue
<1>8. CASE Collect
  BY <1>8, CollectRuns
<1>9. CASE Stage
  BY <1>9, StageRuns
<1>10. CASE StageFails
  BY <1>10 DEF StageFails, Fail
<1>11. CASE Save
  BY <1>11 DEF Save, probing, Usable
<1>12. CASE Kill
  BY <1>12 DEF Kill
<1>13. CASE UNCHANGED vars
  BY <1>13 DEF vars
<1> QED
  BY <1>1, <1>2, <1>3, <1>4, <1>5, <1>6, <1>7, <1>8, <1>9, <1>10, <1>11, <1>12, <1>13 DEF Next

(* Usable records make actors fit.                                         *)
LEMMA UsableFits == GpusLarge /\ ShareInv => DeviceFits
<1> SUFFICES ASSUME GpusLarge, ShareInv, pc = "ready", NEW n \in [DOMAIN found -> 0..MaxActors],
                    Total(n, [i \in DOMAIN found |-> found[i].num_gpus]) <= Whole
             PROVE  Total(n, [i \in DOMAIN found |-> recipe[i].peak]) <= gpu.total
  BY DEF DeviceFits
<1> DEFINE D == DOMAIN found
           p == [i \in D |-> recipe[i].peak]
           w == [i \in D |-> found[i].num_gpus]
           here == gpu.total
<1>1. D \subseteq DOMAIN recipe /\ DOMAIN recipe = 1..Len(recipe) /\ Len(recipe) \in Nat
  BY DEF ShareInv, RunInv, RecordsInv, Usable
<1>2. IsFiniteSet(D)
  <2>1. IsFiniteSet(1..Len(recipe))
    BY <1>1, FS_Interval
  <2>2. D \in SUBSET (1..Len(recipe))
    BY <1>1
  <2> HIDE DEF D
  <2> QED
    BY <2>1, <2>2, FS_Subset
<1>3. here \in Nat /\ here >= 160
  BY DEF ShareInv, RunInv, GpusLarge
<1>4. Whole \in Nat /\ Whole > 0
  BY Numbers DEF Whole
<1>5. ASSUME NEW i \in D
      PROVE  p[i] \in Nat /\ w[i] \in Nat /\ p[i] * Whole <= w[i] * here
  <2> DEFINE e == found[i]
             d == Demand(e.op, e.gpu.total)
  <2>1. Usable(i, e, recipe, gpu)
    BY DEF ShareInv, RecordsInv
  <2>2. /\ e.op \in Operator /\ e.op = recipe[i] /\ e.gpu.total \in Nat /\ e.gpu.total >= 160
        /\ e.gpu.total - here \in -16..16 /\ e.num_gpus \in Nat /\ e.num_gpus >= d
    BY <2>1 DEF Usable, Sound, Near, GpusLarge
  <2>3. d \in Nat /\ e.op.peak * Whole <= d * here
    <3> HIDE DEF e, here
    <3> QED
      BY <1>3, <2>2, DemandSuffices
  <2>4. d * here <= e.num_gpus * here
    <3> HIDE DEF d, e, here
    <3> QED
      BY <1>3, <2>2, <2>3
  <2>5. e.op.peak \in Nat /\ p[i] = e.op.peak /\ w[i] = e.num_gpus
    BY <2>2 DEF Operator
  <2>6. e.op.peak * Whole \in Nat /\ d * here \in Nat /\ e.num_gpus * here \in Nat
    <3> HIDE DEF d, e, here
    <3> QED
      BY <1>3, <1>4, <2>2, <2>3, <2>5
  <2>7. e.op.peak * Whole <= e.num_gpus * here
    <3> HIDE DEF d, e, here
    <3> QED
      BY <2>3, <2>4, <2>6
  <2> HIDE DEF e, here, p, w
  <2> QED
    BY <2>2, <2>5, <2>7
<1>6. n \in [D -> Nat] /\ p \in [D -> Nat] /\ w \in [D -> Nat]
  <2>1. n \in [D -> Nat]
    BY BoundsAssumption
  <2> HIDE DEF D
  <2> QED
    BY <1>5, <2>1
<1>7. /\ Total(n, p) \in Nat /\ Total(n, w) \in Nat
      /\ Total(n, p) * Whole <= Total(n, w) * here
  <2> HIDE DEF D, p, w, here
  <2> QED
    BY <1>2, <1>3, <1>4, <1>5, <1>6, TotalsCompare
<1> DEFINE a == Total(n, p)
           b == Total(n, w)
<1>8. a \in Nat /\ b \in Nat /\ b <= Whole /\ a * Whole <= b * here
  BY <1>7
<1> HIDE DEF a, b, here
<1>9. b * here <= Whole * here
  BY <1>3, <1>4, <1>8
<1>10. a * Whole <= here * Whole
  BY <1>3, <1>4, <1>8, <1>9
<1>11. a <= here
  BY <1>3, <1>4, <1>8, <1>10
<1> QED
  BY <1>11 DEF a, here

(* On GPUs of 160 MiB or more: whatever mix of actors Ray packs onto a GPU *)
(* by their shares, their measured peaks fit into its memory, for any      *)
(* recipes, hints, numbers of workers per GPU and records of earlier       *)
(* starts.  The margin of a tenth covers the 16 MiB by which the GPU of a  *)
(* reused record may differ; on a smaller GPU it need not.                 *)
THEOREM SharesFit == GpusLarge => (Spec => []DeviceFits)
<1> SUFFICES ASSUME GpusLarge PROVE Spec => []DeviceFits
  OBVIOUS
<1> QED
  BY ShareInit, ShareNext, UsableFits, PTL DEF Spec
(***************************************************************************)
(* Rows through operators.                                                 *)
(***************************************************************************)

(* The largest of some numbers.                                            *)
LEMMA LargestOf ==
    ASSUME NEW D, IsFiniteSet(D), D # {}, \A i \in D : i \in Nat
    PROVE  Max(D) \in D /\ \A i \in D : i <= Max(D)
<1> DEFINE T == {{j \in D : j >= m} : m \in D}
<1>1. T \in SUBSET (SUBSET D) /\ T # {}
  <2>1. PICK m \in D : TRUE
    OBVIOUS
  <2>2. {j \in D : j >= m} \in T
    OBVIOUS
  <2>3. \A W \in T : W \subseteq D
    OBVIOUS
  <2> HIDE DEF T
  <2> QED
    BY <2>2, <2>3
<1>2. PICK U \in T : \A W \in T : W \subseteq U => W = U
  <2> HIDE DEF T
  <2> QED
    BY <1>1, SmallestSubset
<1>3. PICK m \in D : U = {j \in D : j >= m}
  BY <1>2
<1>4. ASSUME NEW k \in D PROVE m >= k
  <2> SUFFICES ASSUME k > m PROVE FALSE
    OBVIOUS
  <2> DEFINE W == {j \in D : j >= k}
  <2>1. W \in T /\ m \notin W
    OBVIOUS
  <2>2. m \in U
    BY <1>3
  <2>3. W \subseteq U
    <3>1. \A j \in D : j >= k => j >= m
      OBVIOUS
    <3> QED
      BY <1>3, <3>1
  <2> HIDE DEF T, W
  <2> QED
    BY <1>2, <2>1, <2>2, <2>3
<1>5. Max(D) \in D /\ \A y \in D : Max(D) >= y
  BY <1>4 DEF Max
<1> QED
  BY <1>5

LEMMA LargestPlace ==
    ASSUME NEW n \in Nat, NEW D \in SUBSET (1..n), D # {}
    PROVE  Max(D) \in D /\ \A i \in D : i <= Max(D)
<1>1. IsFiniteSet(1..n)
  BY FS_Interval
<1>2. IsFiniteSet(D)
  BY <1>1, FS_Subset
<1>3. D \in SUBSET Nat
  OBVIOUS
<1> QED
  BY <1>2, <1>3, LargestOf

(* Induction over 0..n, with a set for the predicate.                      *)
LEMMA UpFromZero ==
    ASSUME NEW n \in Nat, NEW S \in SUBSET (0..n), 0 \in S,
           \A k \in 1..n : k - 1 \in S => k \in S
    PROVE  S = 0..n
<1> SUFFICES ASSUME (0..n) \ S # {} PROVE FALSE
  OBVIOUS
<1> DEFINE D == 0..n
           T == {0..m : m \in D \ S}
<1>1. T \in SUBSET (SUBSET D) /\ T # {}
  OBVIOUS
<1>2. PICK U \in T : \A V \in T : V \subseteq U => V = U
  <2>1. IsFiniteSet(D)
    BY FS_Interval
  <2> HIDE DEF D, T
  <2> QED
    BY <1>1, <2>1, SmallestSubset
<1>3. PICK m \in (0..n) \ S : U = 0..m
  BY <1>2
<1>4. m \in 1..n /\ m - 1 \in (0..n) \ S
  OBVIOUS
<1>5. 0..(m - 1) \in T /\ 0..(m - 1) \subseteq U /\ m \in U /\ m \notin 0..(m - 1)
  BY <1>3, <1>4
<1> HIDE DEF T
<1> QED
  BY <1>2, <1>5

(* A finite set of numbers has a k-th element.                             *)
LEMMA KthInSet ==
    ASSUME NEW n \in Nat, NEW S \in SUBSET (1..n), NEW k \in 1..Cardinality(S)
    PROVE  Kth(S, k) \in S
<1> DEFINE Below(i) == {j \in S : j < i}
           rank == [i \in S |-> Cardinality(Below(i))]
           c == Cardinality(S)
           R == 0..(c - 1)
<1>1. IsFiniteSet(S) /\ c \in Nat
  <2>1. IsFiniteSet(1..n)
    BY FS_Interval
  <2>2. IsFiniteSet(S)
    BY <2>1, FS_Subset
  <2> QED
    BY <2>2, FS_CardinalityType
<1>2. ASSUME NEW i \in S
      PROVE  IsFiniteSet(Below(i)) /\ Cardinality(Below(i)) \in R
  <2>1. Below(i) \in SUBSET (S \ {i})
    OBVIOUS
  <2>2. IsFiniteSet(S \ {i}) /\ Cardinality(S \ {i}) = c - 1
    BY <1>1, FS_RemoveElement
  <2>3. IsFiniteSet(Below(i)) /\ Cardinality(Below(i)) <= c - 1
    <3> HIDE DEF Below
    <3> QED
      BY <2>1, <2>2, FS_Subset
  <2>4. Cardinality(Below(i)) \in Nat
    BY <2>3, FS_CardinalityType
  <2> HIDE DEF Below, c
  <2> QED
    BY <1>1, <2>3, <2>4
<1>3. ASSUME NEW i \in S, NEW j \in S, i < j
      PROVE  Cardinality(Below(i)) < Cardinality(Below(j))
  <2>1. Below(i) \in SUBSET Below(j) /\ i \in Below(j) /\ i \notin Below(i)
    <3>1. \A l \in S : l \in Nat
      OBVIOUS
    <3>2. \A l \in S : l < i => l < j
      BY <1>3, <3>1
    <3>3. ~(i < i)
      BY <3>1
    <3> QED
      BY <1>3, <3>2, <3>3, Zenon
  <2>2. Cardinality(Below(i)) <= Cardinality(Below(j)) /\ Cardinality(Below(i)) # Cardinality(Below(j))
    <3>1. IsFiniteSet(Below(j)) /\ Below(i) # Below(j)
      BY <1>2, <2>1
    <3> HIDE DEF Below
    <3> QED
      BY <2>1, <3>1, FS_Subset
  <2>3. Cardinality(Below(i)) \in Nat /\ Cardinality(Below(j)) \in Nat
    BY <1>2, FS_CardinalityType
  <2> HIDE DEF Below
  <2> QED
    BY <2>2, <2>3
<1>4. rank \in Injection(S, R)
  <2>1. rank \in [S -> R]
    <3> HIDE DEF Below, R
    <3> QED
      BY <1>2
  <2>2. ASSUME NEW i \in S, NEW j \in S, rank[i] = rank[j] PROVE i = j
    <3>1. Cardinality(Below(i)) = Cardinality(Below(j))
      BY <2>2
    <3>2. Cardinality(Below(i)) \in Int /\ Cardinality(Below(j)) \in Int
      BY <1>2
    <3> HIDE DEF Below, rank
    <3>3. ~(i < j) /\ ~(j < i)
      BY <1>3, <3>1, <3>2
    <3> QED
      BY <3>3
  <2> HIDE DEF rank, R
  <2> QED
    BY <2>1, <2>2 DEF Injection, IsInjective
<1>5. IsFiniteSet(R) /\ Cardinality(R) = c
  <2>1. 0 \in Int /\ c - 1 \in Int /\ (IF 0 > c - 1 THEN 0 ELSE (c - 1) - 0 + 1) = c
    BY <1>1
  <2> QED
    BY <2>1, FS_Interval
<1>6. rank \in Surjection(S, R)
  <2> HIDE DEF rank, R
  <2> QED
    BY <1>1, <1>4, <1>5, FS_Injection
<1>7. \E i \in S : Cardinality(Below(i)) = k - 1
  <2>1. k - 1 \in R
    BY <1>1
  <2>2. \E i \in S : rank[i] = k - 1
    <3> HIDE DEF rank, R
    <3> QED
      BY <1>6, <2>1 DEF Surjection
  <2> HIDE DEF Below
  <2> QED
    BY <2>2
<1> QED
  BY <1>7 DEF Kth

(* Of all places the k-th is k.                                            *)
LEMMA KthOfAll ==
    ASSUME NEW n \in Nat, NEW k \in 1..n
    PROVE  Kth(1..n, k) = k
<1>1. ASSUME NEW i \in 1..n
      PROVE  Cardinality({j \in 1..n : j < i}) = i - 1
  <2>1. {j \in 1..n : j < i} = 1..(i - 1)
    OBVIOUS
  <2>2. Cardinality(1..(i - 1)) = i - 1
    <3>1. 1 \in Int /\ i - 1 \in Int /\ (IF 1 > i - 1 THEN 0 ELSE (i - 1) - 1 + 1) = i - 1
      OBVIOUS
    <3> QED
      BY <3>1, FS_Interval
  <2> QED
    BY <2>1, <2>2
<1>2. \A i \in 1..n : Cardinality({j \in 1..n : j < i}) = k - 1 <=> i = k
  BY <1>1
<1> QED
  BY <1>2 DEF Kth

Row == [id : Range(Dataset), val : [Columns -> SUBSET Names]]

(* Row for row the same in the columns G.                                  *)
Same(G, u, v) == u.id = v.id /\ \A c \in G : u.val[c] = v.val[c]
Agree(G, rs, ts) ==
    /\ Len(rs) = Len(ts)
    /\ \A k \in 1..Len(rs) : Same(G, rs[k], ts[k])

LEMMA OperatorParts ==
    ASSUME NEW op \in Operator
    PROVE  /\ op.name \in Names /\ op.batch \in Nat \ {0} /\ op.batch \in Nat
           /\ op.uses \subseteq Columns /\ op.makes \subseteq Columns
           /\ Touched(op) \subseteq Columns
           /\ op.uses \subseteq Touched(op) /\ op.makes \subseteq Touched(op)
<1>1. op.uses \in SUBSET Columns /\ op.makes \in SUBSET Columns
  BY DEF Operator
<1>2. op.name \in Names /\ op.batch \in Nat \ {0}
  BY DEF Operator
<1> QED
  BY <1>1, <1>2 DEF Touched

LEMMA ProcessedRow ==
    ASSUME NEW op \in Operator, NEW row \in Row
    PROVE  /\ Processed(op, row) \in Row
           /\ Processed(op, row).id = row.id
           /\ \A c \in op.makes :
                 Processed(op, row).val[c] = {op.name} \cup History(row, Touched(op))
           /\ \A c \in Columns \ op.makes : Processed(op, row).val[c] = row.val[c]
<1> DEFINE val == [c \in Columns |->
                      IF c \in op.makes THEN {op.name} \cup History(row, Touched(op))
                      ELSE row.val[c]]
<1>1. row.id \in Range(Dataset) /\ row.val \in [Columns -> SUBSET Names]
      /\ row = [id |-> row.id, val |-> row.val]
  BY DEF Row
<1>2. Processed(op, row) = [id |-> row.id, val |-> val]
  <2>1. Processed(op, row) = [row EXCEPT !.val = val]
    BY DEF Processed
  <2>2. \A x, y, z : [[id |-> x, val |-> y] EXCEPT !.val = z] = [id |-> x, val |-> z]
    OBVIOUS
  <2> HIDE DEF val
  <2> QED
    BY <1>1, <2>1, <2>2
<1>3. val \in [Columns -> SUBSET Names]
  <2>1. \A c \in Columns : row.val[c] \in SUBSET Names
    BY <1>1
  <2>2. History(row, Touched(op)) \in SUBSET Names
    BY <2>1, OperatorParts DEF History
  <2>3. {op.name} \cup History(row, Touched(op)) \in SUBSET Names
    BY <2>2, OperatorParts
  <2> QED
    BY <2>1, <2>3
<1> HIDE DEF val
<1>4. Processed(op, row) \in Row /\ Processed(op, row).id = row.id /\ Processed(op, row).val = val
  BY <1>1, <1>2, <1>3 DEF Row
<1>5. op.makes \subseteq Columns
  BY OperatorParts
<1>6. \A c \in op.makes : val[c] = {op.name} \cup History(row, Touched(op))
  BY <1>5 DEF val
<1>7. \A c \in Columns \ op.makes : val[c] = row.val[c]
  BY DEF val
<1> QED
  BY <1>4, <1>6, <1>7

Kept(op, rs) == {i \in DOMAIN rs : Keeps(op, rs, i)}

LEMMA RunFacts ==
    ASSUME NEW op \in Operator, NEW rs \in Seq(Row)
    PROVE  /\ Run(op, rs) \in Seq(Row) /\ Len(Run(op, rs)) = Cardinality(Kept(op, rs))
           /\ \A k \in 1..Len(Run(op, rs)) :
                 /\ Kth(Kept(op, rs), k) \in 1..Len(rs)
                 /\ Run(op, rs)[k] = Processed(op, rs[Kth(Kept(op, rs), k)])
<1> DEFINE K == Kept(op, rs)
           n == Cardinality(K)
<1>1. Len(rs) \in Nat /\ DOMAIN rs = 1..Len(rs) /\ K \in SUBSET (1..Len(rs))
  BY DEF Kept
<1>2. n \in Nat
  <2>1. IsFiniteSet(1..Len(rs))
    BY <1>1, FS_Interval
  <2>2. IsFiniteSet(K)
    <3> HIDE DEF K
    <3> QED
      BY <1>1, <2>1, FS_Subset
  <2> QED
    BY <2>2, FS_CardinalityType
<1>3. Run(op, rs) = [k \in 1..n |-> Processed(op, rs[Kth(K, k)])]
  BY DEF Run, Kept
<1> HIDE DEF K
<1>4. \A k \in 1..n : Kth(K, k) \in 1..Len(rs)
  BY <1>1, KthInSet
<1>5. \A k \in 1..n : Processed(op, rs[Kth(K, k)]) \in Row
  <2>1. \A i \in 1..Len(rs) : rs[i] \in Row
    BY ElementOfSeq
  <2> QED
    BY <1>4, <2>1, ProcessedRow
<1> HIDE DEF n
<1>6. Run(op, rs) \in [1..n -> Row]
  BY <1>3, <1>5
<1>7. Run(op, rs) \in Seq(Row) /\ Len(Run(op, rs)) = n
  BY <1>2, <1>6
<1> QED
  BY <1>3, <1>4, <1>7 DEF n, K

(* Rows that agree in what an operator touches, agree after it.            *)
LEMMA RunAgrees ==
    ASSUME NEW op \in Operator, NEW rs \in Seq(Row), NEW ts \in Seq(Row),
           NEW G \in SUBSET Columns, Touched(op) \subseteq G, Agree(G, rs, ts)
    PROVE  Agree(G, Run(op, rs), Run(op, ts))
<1>1. /\ Len(rs) \in Nat /\ Len(ts) = Len(rs)
      /\ DOMAIN rs = 1..Len(rs) /\ DOMAIN ts = 1..Len(rs)
      /\ \A i \in 1..Len(rs) : rs[i] \in Row /\ ts[i] \in Row /\ Same(G, rs[i], ts[i])
  BY ElementOfSeq DEF Agree
<1>2. ASSUME NEW i \in 1..Len(rs), NEW C \in SUBSET G
      PROVE  History(rs[i], C) = History(ts[i], C)
  <2>1. \A c \in C : rs[i].val[c] = ts[i].val[c]
    BY <1>1 DEF Same
  <2> QED
    BY <2>1 DEF History
<1>3. \A i \in 1..Len(rs) : Dropped(op, rs[i]) <=> Dropped(op, ts[i])
  <2> TAKE i \in 1..Len(rs)
  <2>1. rs[i].id = ts[i].id
    BY <1>1 DEF Same
  <2>2. op.uses \in SUBSET G
    BY OperatorParts
  <2>3. History(rs[i], op.uses) = History(ts[i], op.uses)
    BY <1>2, <2>2
  <2> QED
    BY <2>1, <2>3 DEF Dropped
<1>4. Kept(op, rs) = Kept(op, ts)
  <2>1. ASSUME NEW i \in 1..Len(rs) PROVE Keeps(op, rs, i) <=> Keeps(op, ts, i)
    <3>1. \A j \in 1..(i - 1) : j \in 1..Len(rs)
      BY <1>1
    <3>2. (\E j \in 1..(i - 1) : Dropped(op, rs[j])) <=> (\E j \in 1..(i - 1) : Dropped(op, ts[j]))
      BY <1>3, <3>1
    <3> QED
      BY <1>3, <3>2 DEF Keeps
  <2> QED
    BY <1>1, <2>1 DEF Kept
<1> DEFINE P(k) == Kth(Kept(op, rs), k)
<1>5. /\ Len(Run(op, ts)) = Len(Run(op, rs))
      /\ \A k \in 1..Len(Run(op, rs)) :
            /\ P(k) \in 1..Len(rs)
            /\ Run(op, rs)[k] = Processed(op, rs[P(k)])
            /\ Run(op, ts)[k] = Processed(op, ts[P(k)])
  BY <1>1, <1>4, RunFacts
<1>6. ASSUME NEW i \in 1..Len(rs)
      PROVE  Same(G, Processed(op, rs[i]), Processed(op, ts[i]))
  <2>1. rs[i] \in Row /\ ts[i] \in Row /\ Same(G, rs[i], ts[i])
    BY <1>1
  <2>2. History(rs[i], Touched(op)) = History(ts[i], Touched(op))
    BY <1>2
  <2>3. ASSUME NEW c \in G PROVE Processed(op, rs[i]).val[c] = Processed(op, ts[i]).val[c]
    <3>1. c \in Columns /\ rs[i].val[c] = ts[i].val[c]
      BY <2>1 DEF Same
    <3>2. CASE c \in op.makes
      <4>1. /\ Processed(op, rs[i]).val[c] = {op.name} \cup History(rs[i], Touched(op))
            /\ Processed(op, ts[i]).val[c] = {op.name} \cup History(ts[i], Touched(op))
        BY <2>1, <3>2, ProcessedRow
      <4> QED
        BY <2>2, <4>1, Zenon
    <3>3. CASE c \notin op.makes
      BY <2>1, <3>1, <3>3, ProcessedRow
    <3> QED
      BY <3>2, <3>3
  <2>4. Processed(op, rs[i]).id = Processed(op, ts[i]).id
    BY <2>1, ProcessedRow DEF Same
  <2> QED
    BY <2>3, <2>4 DEF Same
<1> HIDE DEF P
<1> QED
  BY <1>5, <1>6 DEF Agree

(* A mapper keeps rows and their order.                                    *)
LEMMA MapperRun ==
    ASSUME NEW op \in Operator, op.kind = "mapper", NEW rs \in Seq(Row)
    PROVE  /\ Run(op, rs) \in Seq(Row) /\ Len(Run(op, rs)) = Len(rs)
           /\ \A k \in 1..Len(rs) : Run(op, rs)[k] = Processed(op, rs[k])
<1>1. Len(rs) \in Nat /\ DOMAIN rs = 1..Len(rs)
  OBVIOUS
<1>2. Kept(op, rs) = 1..Len(rs)
  <2>1. \A i \in DOMAIN rs : Keeps(op, rs, i)
    BY DEF Keeps
  <2> QED
    BY <1>1, <2>1 DEF Kept
<1>3. Cardinality(1..Len(rs)) = Len(rs)
  <2> DEFINE n == Len(rs)
  <2>1. n \in Nat /\ 1 \in Int /\ n \in Int /\ (IF 1 > n THEN 0 ELSE n - 1 + 1) = n
    BY <1>1
  <2> HIDE DEF n
  <2>2. Cardinality(1..n) = n
    BY <2>1, FS_Interval
  <2> QED
    BY <2>2 DEF n
<1>4. \A k \in 1..Len(rs) : Kth(1..Len(rs), k) = k
  BY <1>1, KthOfAll
<1> QED
  BY <1>2, <1>3, <1>4, RunFacts

(* It changes what it makes only.                                          *)
LEMMA MapperElsewhere ==
    ASSUME NEW op \in Operator, op.kind = "mapper", NEW rs \in Seq(Row),
           NEW G \in SUBSET Columns, G \cap op.makes = {}
    PROVE  Agree(G, Run(op, rs), rs)
<1>1. Len(Run(op, rs)) = Len(rs) /\ \A k \in 1..Len(rs) : Run(op, rs)[k] = Processed(op, rs[k])
  BY MapperRun
<1>2. \A k \in 1..Len(rs) : Same(G, Processed(op, rs[k]), rs[k])
  <2>1. \A k \in 1..Len(rs) : rs[k] \in Row
    BY ElementOfSeq
  <2>2. \A c \in G : c \in Columns \ op.makes
    OBVIOUS
  <2> QED
    BY <2>1, <2>2, ProcessedRow DEF Same
<1> QED
  BY <1>1, <1>2 DEF Agree

LEMMA AgreeFacts ==
    ASSUME NEW G, NEW rs, NEW ts
    PROVE  /\ Agree(G, rs, rs)
           /\ Agree(G, rs, ts) => Agree(G, ts, rs)
           /\ \A us : Agree(G, rs, ts) /\ Agree(G, ts, us) => Agree(G, rs, us)
           /\ \A F \in SUBSET G : Agree(G, rs, ts) => Agree(F, rs, ts)
<1>1. Agree(G, rs, rs)
  BY DEF Agree, Same
<1>2. Agree(G, rs, ts) => Agree(G, ts, rs)
  BY DEF Agree, Same
<1>3. ASSUME NEW us, Agree(G, rs, ts), Agree(G, ts, us) PROVE Agree(G, rs, us)
  BY <1>3 DEF Agree, Same
<1>4. ASSUME NEW F \in SUBSET G, Agree(G, rs, ts) PROVE Agree(F, rs, ts)
  BY <1>4 DEF Agree, Same
<1> QED
  BY <1>1, <1>2, <1>3, <1>4

-----------------------------------------------------------------------------
(* The rows after each operator of r, of which those at S run.             *)
Through(f, r, S, rs) ==
    /\ f \in [0..Len(r) -> Seq(Row)]
    /\ f[0] = rs
    /\ \A k \in 1..Len(r) : f[k] = IF k \in S THEN Run(r[k], f[k - 1]) ELSE f[k - 1]

LEMMA RunAllThrough ==
    ASSUME NEW r \in Seq(Operator), NEW S, NEW rs \in Seq(Row)
    PROVE  \E f : Through(f, r, S, rs) /\ RunAll(r, S, rs) = f[Len(r)]
<1> DEFINE n == Len(r)
           Step(h, m) == h = [k \in 0..m |->
               IF k = 0 THEN rs ELSE IF k \in S THEN Run(r[k], h[k - 1]) ELSE h[k - 1]]
           M == {m \in 0..n : \E h : Step(h, m)}
           after == CHOOSE h : Step(h, n)
           N == {m \in 0..n : after[m] \in Seq(Row)}
<1>1. n \in Nat /\ n \in 0..n /\ \A k \in 1..n : r[k] \in Operator
  BY ElementOfSeq
<1>2. 0 \in M
  <2> DEFINE h == [k \in 0..0 |-> rs]
  <2>1. Step(h, 0)
    OBVIOUS
  <2>2. 0 \in 0..n
    BY <1>1
  <2> HIDE DEF h, Step
  <2> QED
    BY <2>1, <2>2
<1>3. ASSUME NEW m \in 1..n, m - 1 \in M PROVE m \in M
  <2>1. PICK f : Step(f, m - 1)
    BY <1>3
  <2> DEFINE last == IF m \in S THEN Run(r[m], f[m - 1]) ELSE f[m - 1]
             h == [k \in 0..m |-> IF k = m THEN last ELSE f[k]]
  <2>2. \A k \in 0..m : h[k] =
            IF k = 0 THEN rs ELSE IF k \in S THEN Run(r[k], h[k - 1]) ELSE h[k - 1]
    <3> TAKE k \in 0..m
    <3>1. CASE k = m
      <4>1. h[k] = last /\ k - 1 \in 0..m /\ k - 1 # m /\ k # 0
        BY <3>1
      <4>2. h[k - 1] = f[k - 1]
        BY <4>1
      <4> HIDE DEF h
      <4> QED
        BY <3>1, <4>1, <4>2
    <3>2. CASE k # m
      <4>1. k \in 0..(m - 1) /\ h[k] = f[k]
        BY <3>2
      <4>2. k # 0 => h[k - 1] = f[k - 1]
        BY <4>1
      <4>3. f[k] = IF k = 0 THEN rs ELSE IF k \in S THEN Run(r[k], f[k - 1]) ELSE f[k - 1]
        BY <2>1, <4>1
      <4> HIDE DEF h
      <4> QED
        BY <4>1, <4>2, <4>3
    <3> QED
      BY <3>1, <3>2
  <2>3. Step(h, m)
    <3>1. h = [k \in 0..m |-> h[k]]
      OBVIOUS
    <3> HIDE DEF h
    <3> QED
      BY <2>2, <3>1
  <2>4. m \in 0..n
    OBVIOUS
  <2> HIDE DEF Step, h
  <2> QED
    BY <2>3, <2>4
<1>4. n \in M
  <2>1. M \in SUBSET (0..n)
    OBVIOUS
  <2> HIDE DEF M
  <2> QED
    BY <1>1, <1>2, <1>3, <2>1, UpFromZero
<1>5. Step(after, n)
  <2>1. \E h : Step(h, n)
    <3> HIDE DEF Step
    <3> QED
      BY <1>4
  <2> HIDE DEF Step
  <2> QED
    BY <2>1
<1>6. RunAll(r, S, rs) = after[n]
  BY DEF RunAll
<1> HIDE DEF after
<1>7. /\ after = [k \in 0..n |-> after[k]]
      /\ \A k \in 0..n : after[k] =
            IF k = 0 THEN rs ELSE IF k \in S THEN Run(r[k], after[k - 1]) ELSE after[k - 1]
  BY <1>5
<1>8. ASSUME NEW m \in 1..n, m - 1 \in N PROVE m \in N
  <2>1. after[m - 1] \in Seq(Row) /\ r[m] \in Operator /\ m \in 0..n /\ m # 0
    BY <1>1, <1>8
  <2>2. after[m] = IF m \in S THEN Run(r[m], after[m - 1]) ELSE after[m - 1]
    BY <1>7, <2>1
  <2>3. after[m] \in Seq(Row)
    BY <2>1, <2>2, RunFacts
  <2> QED
    BY <2>1, <2>3
<1>9. N = 0..n
  <2>1. N \in SUBSET (0..n)
    OBVIOUS
  <2>2. 0 \in N
    BY <1>1, <1>7
  <2> HIDE DEF N
  <2> QED
    BY <1>1, <1>8, <2>1, <2>2, UpFromZero
<1>10. after \in [0..n -> Seq(Row)]
  BY <1>7, <1>9
<1>11. after[0] = rs
  <2>1. 0 \in 0..n
    BY <1>1
  <2> QED
    BY <1>7, <2>1
<1>12. \A k \in 1..n : after[k] = IF k \in S THEN Run(r[k], after[k - 1]) ELSE after[k - 1]
  <2>1. \A k \in 1..n : k \in 0..n /\ k # 0
    OBVIOUS
  <2> QED
    BY <1>7, <2>1
<1>13. Through(after, r, S, rs)
  BY <1>10, <1>11, <1>12 DEF Through
<1> QED
  BY <1>6, <1>13

LEMMA RunAllType ==
    ASSUME NEW r \in Seq(Operator), NEW S, NEW rs \in Seq(Row)
    PROVE  RunAll(r, S, rs) \in Seq(Row)
<1>1. PICK f : Through(f, r, S, rs) /\ RunAll(r, S, rs) = f[Len(r)]
  BY RunAllThrough
<1>2. Len(r) \in 0..Len(r)
  OBVIOUS
<1> QED
  BY <1>1, <1>2 DEF Through

-----------------------------------------------------------------------------
(* What a parallel probe runs: with an operator, everything it depends on. *)
LEMMA AncestorsClosed ==
    ASSUME NEW r \in Seq(Operator), NEW i \in 1..Len(r)
    PROVE  /\ Ancestors(r, i) \in SUBSET (1..(i - 1))
           /\ \A j \in Ancestors(r, i) \cup {i} :
                 r[j].declared => DependsOn(r, j) \subseteq Ancestors(r, i)
<1> DEFINE direct == [k \in 1..i |-> IF r[k].declared THEN DependsOn(r, k) ELSE {}]
           Step(h, m) == h = [k \in 1..m |-> direct[k] \cup UNION {h[j] : j \in direct[k]}]
           M == {m \in 0..i : \E h : Step(h, m)}
           closure == CHOOSE h : Step(h, i)
           Closed(k) == /\ closure[k] \subseteq 1..(k - 1)
                        /\ \A j \in closure[k] \cup {k} : direct[j] \subseteq closure[k]
           N == {m \in 0..i : \A k \in 1..m : Closed(k)}
<1>1. i \in Nat /\ i \in 1..i /\ i \in 0..i
  OBVIOUS
<1>2. \A k \in 1..i : direct[k] \in SUBSET (1..(k - 1))
  BY DEF DependsOn
<1>3. 0 \in M
  <2> DEFINE h == [k \in 1..0 |-> {}]
  <2>1. Step(h, 0)
    OBVIOUS
  <2>2. 0 \in 0..i
    BY <1>1
  <2> HIDE DEF h, Step
  <2> QED
    BY <2>1, <2>2
<1>4. ASSUME NEW m \in 1..i, m - 1 \in M PROVE m \in M
  <2>1. PICK f : Step(f, m - 1)
    BY <1>4
  <2> DEFINE last == direct[m] \cup UNION {f[j] : j \in direct[m]}
             h == [k \in 1..m |-> IF k = m THEN last ELSE f[k]]
  <2>2. \A k \in 1..m : h[k] = direct[k] \cup UNION {h[j] : j \in direct[k]}
    <3> TAKE k \in 1..m
    <3>1. ASSUME NEW j \in direct[k] PROVE h[j] = f[j]
      <4>1. j \in 1..(k - 1)
        <5>1. k \in 1..i
          OBVIOUS
        <5> HIDE DEF direct
        <5> QED
          BY <1>2, <3>1, <5>1
      <4>2. j \in 1..m /\ j # m
        BY <4>1
      <4> QED
        BY <4>2
    <3> HIDE DEF direct
    <3>2. UNION {h[j] : j \in direct[k]} = UNION {f[j] : j \in direct[k]}
      <4> HIDE DEF h
      <4> QED
        BY <3>1
    <3>3. CASE k = m
      <4>1. h[k] = last
        BY <3>3
      <4> HIDE DEF h
      <4> QED
        BY <3>2, <3>3, <4>1
    <3>4. CASE k # m
      <4>1. k \in 1..(m - 1) /\ h[k] = f[k]
        BY <3>4
      <4>2. f[k] = direct[k] \cup UNION {f[j] : j \in direct[k]}
        BY <2>1, <4>1
      <4> HIDE DEF h
      <4> QED
        BY <3>2, <4>1, <4>2
    <3> QED
      BY <3>3, <3>4
  <2>3. Step(h, m)
    <3>1. h = [k \in 1..m |-> h[k]]
      OBVIOUS
    <3> HIDE DEF h, direct
    <3> QED
      BY <2>2, <3>1
  <2>4. m \in 0..i
    OBVIOUS
  <2> HIDE DEF Step, h
  <2> QED
    BY <2>3, <2>4
<1>5. i \in M
  <2>1. M \in SUBSET (0..i)
    OBVIOUS
  <2> HIDE DEF M
  <2> QED
    BY <1>1, <1>3, <1>4, <2>1, UpFromZero
<1>6. Step(closure, i)
  <2>1. \E h : Step(h, i)
    <3> HIDE DEF Step
    <3> QED
      BY <1>5
  <2> HIDE DEF Step
  <2> QED
    BY <2>1
<1>7. Ancestors(r, i) = closure[i]
  BY DEF Ancestors
<1> HIDE DEF closure, direct
<1>8. \A k \in 1..i : closure[k] = direct[k] \cup UNION {closure[j] : j \in direct[k]}
  BY <1>6
<1>9. 0 \in N
  BY <1>1
<1>10. ASSUME NEW m \in 1..i, m - 1 \in N PROVE m \in N
  <2>1. \A k \in 1..(m - 1) : Closed(k)
    BY <1>10
  <2>2. direct[m] \in SUBSET (1..(m - 1))
    BY <1>2
  <2>3. closure[m] = direct[m] \cup UNION {closure[j] : j \in direct[m]}
    BY <1>8
  <2>4. ASSUME NEW j \in closure[m] PROVE j \in 1..(m - 1) /\ direct[j] \subseteq closure[m]
    <3>1. CASE j \in direct[m]
      <4>1. j \in 1..(m - 1)
        BY <2>2, <3>1
      <4>2. direct[j] \subseteq closure[j]
        BY <2>1, <4>1
      <4>3. closure[j] \subseteq closure[m]
        BY <2>3, <3>1
      <4> QED
        BY <4>1, <4>2, <4>3
    <3>2. CASE j \notin direct[m]
      <4>1. PICK l \in direct[m] : j \in closure[l]
        BY <2>3, <2>4, <3>2
      <4>2. l \in 1..(m - 1)
        BY <2>2, <4>1
      <4>3. j \in 1..(l - 1) /\ direct[j] \subseteq closure[l]
        BY <2>1, <4>1, <4>2
      <4>4. closure[l] \subseteq closure[m]
        BY <2>3, <4>1
      <4>5. j \in 1..(m - 1)
        BY <4>2, <4>3
      <4> QED
        BY <4>3, <4>4, <4>5
    <3> QED
      BY <3>1, <3>2
  <2>5. direct[m] \subseteq closure[m]
    BY <2>3
  <2>6. Closed(m)
    BY <2>4, <2>5
  <2>7. \A k \in 1..m : k \in 1..(m - 1) \/ k = m
    OBVIOUS
  <2>8. m \in 0..i
    OBVIOUS
  <2> HIDE DEF Closed
  <2> QED
    BY <2>1, <2>6, <2>7, <2>8
<1>11. Closed(i)
  <2>1. N \in SUBSET (0..i)
    OBVIOUS
  <2> HIDE DEF Closed
  <2>2. N = 0..i
    <3> HIDE DEF N
    <3> QED
      BY <1>1, <1>9, <1>10, <2>1, UpFromZero
  <2> QED
    BY <1>1, <2>2
<1>12. ASSUME NEW j \in closure[i] \cup {i}, r[j].declared
       PROVE  DependsOn(r, j) \subseteq closure[i]
  <2>1. j \in 1..i
    BY <1>1, <1>11
  <2>2. direct[j] = DependsOn(r, j)
    BY <1>12, <2>1 DEF direct
  <2> QED
    BY <1>11, <2>2
<1> QED
  BY <1>7, <1>11, <1>12

(* In the columns it touches, an operator with its ancestors only sees     *)
(* what it sees after all operators before it.                             *)
LEMMA AncestorsAgree ==
    ASSUME NEW r \in Seq(Operator), NEW i \in 1..Len(r), Parallel(r, i), NEW sample \in Seq(Row)
    PROVE  Agree(Touched(r[i]), RunAll(r, Ancestors(r, i), sample), RunAll(r, 1..(i - 1), sample))
<1> DEFINE A == Ancestors(r, i)
           B == 1..(i - 1)
           n == Len(r)
           Intact(p) == {c \in Columns : \A k \in 1..p : k \in B /\ c \in r[k].makes => k \in A}
<1>1. n \in Nat /\ i \in 1..n /\ \A k \in 1..n : r[k] \in Operator
  BY ElementOfSeq
<1>2. A \in SUBSET B /\ \A j \in A \cup {i} : r[j].declared => DependsOn(r, j) \subseteq A
  BY AncestorsClosed
<1>3. \A j \in 1..i : r[j].declared
  BY DEF Parallel
<1>4. \A j \in A \cup {i} : j \in 1..i /\ DependsOn(r, j) \subseteq A
  <2>1. \A j \in A \cup {i} : j \in 1..i
    BY <1>1, <1>2
  <2> HIDE DEF A
  <2> QED
    BY <1>2, <1>3, <2>1
<1>5. PICK f : Through(f, r, A, sample) /\ RunAll(r, A, sample) = f[n]
  BY RunAllThrough
<1>6. PICK g : Through(g, r, B, sample) /\ RunAll(r, B, sample) = g[n]
  BY RunAllThrough
<1>7. /\ f \in [0..n -> Seq(Row)] /\ f[0] = sample
      /\ \A k \in 1..n : f[k] = IF k \in A THEN Run(r[k], f[k - 1]) ELSE f[k - 1]
  BY <1>5 DEF Through
<1>8. /\ g \in [0..n -> Seq(Row)] /\ g[0] = sample
      /\ \A k \in 1..n : g[k] = IF k \in B THEN Run(r[k], g[k - 1]) ELSE g[k - 1]
  BY <1>6 DEF Through
<1> HIDE DEF A
<1>9. ASSUME NEW j \in A \cup {i}, NEW p \in 0..n, p < j
      PROVE  Touched(r[j]) \subseteq Intact(p)
  <2>1. j \in 1..i /\ j \in 1..n /\ r[j] \in Operator
    BY <1>1, <1>4
  <2>2. Touched(r[j]) \subseteq Columns
    BY <2>1, OperatorParts
  <2>3. ASSUME NEW c \in Touched(r[j]), NEW k \in 1..p, k \in B, c \in r[k].makes
        PROVE  k \in A
    <3>1. k \in 1..(j - 1) /\ k \in 1..i
      BY <1>1, <1>9, <2>1, <2>3
    <3>2. r[k].declared /\ r[k].makes \cap Touched(r[j]) # {}
      BY <1>3, <2>3, <3>1
    <3>3. k \in DependsOn(r, j)
      BY <3>1, <3>2 DEF DependsOn
    <3> QED
      BY <1>4, <3>3
  <2> HIDE DEF B
  <2> QED
    BY <2>2, <2>3
<1> DEFINE M == {p \in 0..n : Agree(Intact(p), f[p], g[p])}
<1>10. 0 \in M
  <2>1. Agree(Intact(0), sample, sample)
    <3> HIDE DEF Intact
    <3> QED
      BY AgreeFacts
  <2> HIDE DEF Intact
  <2> QED
    BY <1>1, <1>7, <1>8, <2>1
<1>11. ASSUME NEW p \in 1..n, p - 1 \in M PROVE p \in M
  <2>1. /\ p - 1 \in 0..n /\ p \in 0..n /\ p - 1 < p
        /\ r[p] \in Operator /\ f[p - 1] \in Seq(Row) /\ g[p - 1] \in Seq(Row)
    <3>1. p - 1 \in 0..n /\ p \in 0..n /\ p - 1 < p
      OBVIOUS
    <3> HIDE DEF n
    <3> QED
      BY <1>1, <1>7, <1>8, <3>1
  <2>2. Agree(Intact(p - 1), f[p - 1], g[p - 1])
    BY <1>11
  <2>3. Intact(p) \in SUBSET Intact(p - 1) /\ Intact(p - 1) \in SUBSET Columns /\ Intact(p) \in SUBSET Columns
    <3>1. \A k \in 1..(p - 1) : k \in 1..p
      OBVIOUS
    <3> HIDE DEF B
    <3> QED
      BY <3>1
  <2>4. Agree(Intact(p), f[p - 1], g[p - 1])
    <3> HIDE DEF Intact
    <3> QED
      BY <2>2, <2>3, AgreeFacts
  <2>5. CASE p \in A
    <3>1. p \in B /\ f[p] = Run(r[p], f[p - 1]) /\ g[p] = Run(r[p], g[p - 1])
      <4>1. p \in B
        BY <1>2, <2>5
      <4> HIDE DEF n, B
      <4> QED
        BY <1>7, <1>8, <2>5, <4>1
    <3>2. Touched(r[p]) \subseteq Intact(p - 1)
      <4> HIDE DEF Intact
      <4> QED
        BY <1>9, <2>1, <2>5
    <3>3. Agree(Intact(p - 1), f[p], g[p])
      <4> HIDE DEF Intact
      <4> QED
        BY <2>1, <2>2, <2>3, <3>1, <3>2, RunAgrees
    <3>4. Agree(Intact(p), f[p], g[p])
      <4> HIDE DEF Intact
      <4> QED
        BY <2>3, <3>3, AgreeFacts
    <3> QED
      BY <2>1, <3>4
  <2>6. CASE p \in B \ A
    <3>1. f[p] = f[p - 1] /\ g[p] = Run(r[p], g[p - 1])
      <4> HIDE DEF n, B
      <4> QED
        BY <1>7, <1>8, <2>6
    <3>2. r[p].kind = "mapper"
      <4>1. r[p].kind # "mapper" => p \in DependsOn(r, i)
        BY <2>6 DEF DependsOn
      <4>2. DependsOn(r, i) \subseteq A
        BY <1>4
      <4> QED
        BY <2>6, <4>1, <4>2
    <3>3. Intact(p) \cap r[p].makes = {}
      <4>1. p \in 1..p
        OBVIOUS
      <4> HIDE DEF B
      <4> QED
        BY <2>6, <4>1
    <3>4. Agree(Intact(p), g[p], g[p - 1])
      <4> HIDE DEF Intact
      <4> QED
        BY <2>1, <2>3, <3>1, <3>2, <3>3, MapperElsewhere
    <3>5. Agree(Intact(p), f[p], g[p])
      <4> HIDE DEF Intact
      <4>1. Agree(Intact(p), g[p - 1], g[p])
        BY <3>4, AgreeFacts
      <4> QED
        BY <2>4, <3>1, <4>1, AgreeFacts
    <3> QED
      BY <2>1, <3>5
  <2>7. CASE p \notin B
    <3>1. f[p] = f[p - 1] /\ g[p] = g[p - 1]
      <4>1. p \notin A
        BY <1>2, <2>7
      <4> HIDE DEF n, B
      <4> QED
        BY <1>7, <1>8, <2>7, <4>1
    <3>2. Agree(Intact(p), f[p], g[p])
      <4> HIDE DEF Intact
      <4> QED
        BY <2>4, <3>1
    <3> QED
      BY <2>1, <3>2
  <2> QED
    BY <2>5, <2>6, <2>7
<1>12. Agree(Intact(n), f[n], g[n])
  <2>1. M \in SUBSET (0..n)
    OBVIOUS
  <2>2. n \in 0..n
    BY <1>1
  <2> HIDE DEF Intact
  <2>3. n \in M
    <3> HIDE DEF M, n
    <3> QED
      BY <1>1, <1>10, <1>11, <2>1, <2>2, UpFromZero
  <2> QED
    BY <2>3
<1>13. Touched(r[i]) \subseteq Intact(n)
  <2>1. i - 1 \in 0..n /\ i - 1 < i
    BY <1>1
  <2>2. Touched(r[i]) \subseteq Intact(i - 1)
    <3> HIDE DEF Intact
    <3> QED
      BY <1>9, <2>1
  <2>3. \A k \in 1..n : k \in B => k \in 1..(i - 1)
    OBVIOUS
  <2> HIDE DEF B
  <2> QED
    BY <2>2, <2>3
<1>14. Agree(Touched(r[i]), f[n], g[n])
  <2> HIDE DEF Intact
  <2> QED
    BY <1>12, <1>13, AgreeFacts
<1> QED
  BY <1>5, <1>6, <1>14 DEF A

(* xs is the first m of ys.                                                *)
Opens(m, xs, ys) == Len(xs) = m /\ \A k \in 1..m : xs[k] = ys[k]

(* Mappers do to the first rows what they do to all.                       *)
LEMMA OpeningKept ==
    ASSUME NEW r \in Seq(Operator), NEW A, \A j \in A \cap (1..Len(r)) : r[j].kind = "mapper",
           NEW sample \in Seq(Row), NEW m \in 0..Len(sample)
    PROVE  /\ Len(RunAll(r, A, sample)) = Len(sample)
           /\ Opens(m, RunAll(r, A, SubSeq(sample, 1, m)), RunAll(r, A, sample))
<1> DEFINE n == Len(r)
           front == SubSeq(sample, 1, m)
<1>1. n \in Nat /\ Len(sample) \in Nat /\ \A k \in 1..n : r[k] \in Operator
  BY ElementOfSeq
<1>2. front \in Seq(Row) /\ Opens(m, front, sample)
  <2>1. m <= Len(sample) /\ m \in Nat
    OBVIOUS
  <2>2. front \in Seq(Row) /\ Len(front) = m /\ \A k \in 1..m : front[k] = sample[k]
    BY <2>1
  <2> QED
    BY <2>2 DEF Opens
<1> HIDE DEF front
<1>3. PICK f : Through(f, r, A, front) /\ RunAll(r, A, front) = f[n]
  BY <1>2, RunAllThrough
<1>4. PICK g : Through(g, r, A, sample) /\ RunAll(r, A, sample) = g[n]
  BY RunAllThrough
<1>5. /\ f \in [0..n -> Seq(Row)] /\ f[0] = front
      /\ \A k \in 1..n : f[k] = IF k \in A THEN Run(r[k], f[k - 1]) ELSE f[k - 1]
  BY <1>3 DEF Through
<1>6. /\ g \in [0..n -> Seq(Row)] /\ g[0] = sample
      /\ \A k \in 1..n : g[k] = IF k \in A THEN Run(r[k], g[k - 1]) ELSE g[k - 1]
  BY <1>4 DEF Through
<1> DEFINE M == {p \in 0..n : Len(g[p]) = Len(sample) /\ Opens(m, f[p], g[p])}
<1>7. 0 \in M
  BY <1>1, <1>2, <1>5, <1>6
<1>8. ASSUME NEW p \in 1..n, p - 1 \in M PROVE p \in M
  <2>1. /\ p \in 0..n /\ f[p - 1] \in Seq(Row) /\ g[p - 1] \in Seq(Row) /\ r[p] \in Operator
        /\ Len(g[p - 1]) = Len(sample) /\ Opens(m, f[p - 1], g[p - 1])
    <3>1. p - 1 \in 0..n /\ p \in 0..n
      OBVIOUS
    <3>2. Len(g[p - 1]) = Len(sample) /\ Opens(m, f[p - 1], g[p - 1])
      BY <1>8
    <3> HIDE DEF n, M
    <3> QED
      BY <1>1, <1>5, <1>6, <3>1, <3>2
  <2>2. CASE p \notin A
    <3>1. f[p] = f[p - 1] /\ g[p] = g[p - 1]
      BY <1>5, <1>6, <2>2
    <3> QED
      BY <2>1, <3>1
  <2>3. CASE p \in A
    <3>1. f[p] = Run(r[p], f[p - 1]) /\ g[p] = Run(r[p], g[p - 1]) /\ r[p].kind = "mapper"
      BY <1>5, <1>6, <2>3
    <3>2. /\ Len(f[p]) = Len(f[p - 1]) /\ Len(g[p]) = Len(g[p - 1])
          /\ \A k \in 1..Len(f[p - 1]) : f[p][k] = Processed(r[p], f[p - 1][k])
          /\ \A k \in 1..Len(g[p - 1]) : g[p][k] = Processed(r[p], g[p - 1][k])
      BY <2>1, <3>1, MapperRun
    <3>3. \A k \in 1..m : k \in 1..Len(sample)
      OBVIOUS
    <3>4. Opens(m, f[p], g[p])
      BY <2>1, <3>2, <3>3 DEF Opens
    <3> QED
      BY <2>1, <3>2, <3>4
  <2> QED
    BY <2>2, <2>3
<1>9. n \in M
  <2>1. M \in SUBSET (0..n) /\ n \in 0..n
    BY <1>1
  <2> HIDE DEF M, n
  <2> QED
    BY <1>1, <1>7, <1>8, <2>1, UpFromZero
<1> QED
  BY <1>3, <1>4, <1>9 DEF front

LEMMA SmallRemainder ==
    ASSUME NEW a \in Nat, NEW b \in Nat, a < b
    PROVE  a % b = a
<1> DEFINE q == a \div b
           s == a % b
<1>1. q \in Nat /\ s \in 0..(b - 1) /\ a = b * q + s
  OBVIOUS
<1> HIDE DEF q, s
<1>2. CASE q = 0
  BY <1>1, <1>2 DEF s
<1>3. CASE q # 0
  <2>1. q - 1 \in Nat /\ b * q = b * (q - 1) + b /\ b * (q - 1) \in Nat
    BY <1>1, <1>3
  <2> DEFINE z == b * (q - 1)
  <2>2. z \in Nat /\ a = z + b + s
    BY <1>1, <2>1
  <2> HIDE DEF z
  <2> QED
    BY <1>1, <2>2
<1> QED
  BY <1>2, <1>3

LEMMA FillFacts ==
    ASSUME NEW rs \in Seq(Row), Len(rs) > 0, NEW n \in Nat
    PROVE  /\ DOMAIN Fill(rs, n) = 1..n
           /\ \A k \in 1..n : /\ ((k - 1) % Len(rs)) + 1 \in 1..Len(rs)
                              /\ Fill(rs, n)[k] = rs[((k - 1) % Len(rs)) + 1]
<1>1. Len(rs) \in Nat
  OBVIOUS
<1>2. \A k \in 1..n : (k - 1) % Len(rs) \in 0..(Len(rs) - 1)
  <2> DEFINE l == Len(rs)
  <2>1. \A a \in Nat : a % l \in 0..(l - 1)
    <3>1. l \in Nat /\ l > 0
      BY <1>1
    <3> HIDE DEF l
    <3> QED
      BY <3>1
  <2>2. \A k \in 1..n : k - 1 \in Nat
    OBVIOUS
  <2> QED
    BY <2>1, <2>2
<1>3. \A a \in 0..(Len(rs) - 1) : a + 1 \in 1..Len(rs)
  BY <1>1
<1> QED
  BY <1>2, <1>3 DEF Fill

(* What an operator sees of a batch is what it sees of the rows.           *)
LEMMA FillSeen ==
    ASSUME NEW op, NEW xs \in Seq(Row), NEW ys \in Seq(Row), NEW n \in Nat,
           Agree(Touched(op), xs, ys)
    PROVE  AsSeenBy(op, Fill(xs, n)) = AsSeenBy(op, Fill(ys, n))
<1>1. Len(xs) \in Nat /\ Len(ys) = Len(xs)
  BY DEF Agree
<1>2. CASE Len(xs) = 0
  <2>1. xs = ys
    BY <1>1, <1>2
  <2> QED
    BY <2>1
<1>3. CASE Len(xs) # 0
  <2>1. Len(xs) > 0 /\ Len(ys) > 0
    BY <1>1, <1>3
  <2> DEFINE X == Fill(xs, n)
             Y == Fill(ys, n)
             I(k) == ((k - 1) % Len(xs)) + 1
  <2>2. DOMAIN X = 1..n /\ DOMAIN Y = 1..n
    BY <2>1, FillFacts
  <2>3. \A k \in 1..n : I(k) \in 1..Len(xs) /\ X[k] = xs[I(k)] /\ Y[k] = ys[I(k)]
    <3>1. \A k \in 1..n : I(k) \in 1..Len(xs) /\ X[k] = xs[I(k)]
      BY <2>1, FillFacts
    <3>2. \A k \in 1..n : Y[k] = ys[((k - 1) % Len(ys)) + 1]
      BY <2>1, FillFacts
    <3>3. \A k \in 1..n : Y[k] = ys[I(k)]
      BY <1>1, <3>2
    <3> QED
      BY <3>1, <3>3
  <2> HIDE DEF X, Y, I
  <2>4. \A k \in 1..n : Same(Touched(op), X[k], Y[k])
    BY <2>3 DEF Agree
  <2>5. \A k \in 1..n : <<X[k].id, [c \in Touched(op) |-> X[k].val[c]]>> =
                        <<Y[k].id, [c \in Touched(op) |-> Y[k].val[c]]>>
    <3> TAKE k \in 1..n
    <3>1. X[k].id = Y[k].id /\ \A c \in Touched(op) : X[k].val[c] = Y[k].val[c]
      BY <2>4 DEF Same
    <3>2. [c \in Touched(op) |-> X[k].val[c]] = [c \in Touched(op) |-> Y[k].val[c]]
      BY <3>1
    <3> QED
      BY <3>1, <3>2
  <2>6. AsSeenBy(op, X) = AsSeenBy(op, Y)
    BY <2>2, <2>5 DEF AsSeenBy
  <2> QED
    BY <2>6 DEF X, Y
<1> QED
  BY <1>2, <1>3

(* A batch of the first rows is a batch of the rows.                       *)
LEMMA FillOpening ==
    ASSUME NEW xs \in Seq(Row), NEW ys \in Seq(Row), NEW n \in Nat \ {0}, n < Len(ys),
           Opens(n, xs, ys)
    PROVE  Fill(xs, n) = Fill(ys, n)
<1>1. Len(xs) = n /\ Len(ys) \in Nat /\ \A k \in 1..n : xs[k] = ys[k]
  BY DEF Opens
<1>2. \A k \in 1..n : (k - 1) % Len(xs) = k - 1 /\ (k - 1) % Len(ys) = k - 1
  <2>1. \A k \in 1..n : k - 1 \in Nat /\ k - 1 < Len(xs) /\ k - 1 < Len(ys)
    BY <1>1
  <2> QED
    BY <1>1, <2>1, SmallRemainder
<1>3. \A k \in 1..n : (k - 1) + 1 = k
  OBVIOUS
<1>4. \A k \in 1..n : xs[((k - 1) % Len(xs)) + 1] = ys[((k - 1) % Len(ys)) + 1]
  BY <1>1, <1>2, <1>3
<1> QED
  BY <1>4 DEF Fill

(* A parallel probe measures its target on what the target sees after all  *)
(* operators before it.                                                    *)
LEMMA ParallelMeasured ==
    ASSUME NEW r \in Seq(Operator), NEW i \in 1..Len(r), Parallel(r, i), NEW sample \in Seq(Row)
    PROVE  AsSeenBy(r[i], Fill(AncestorRows(r, i, sample), r[i].batch))
               = AsSeenBy(r[i], Fill(RunAll(r, 1..(i - 1), sample), r[i].batch))
<1> DEFINE A == Ancestors(r, i)
           b == r[i].batch
           all == RunAll(r, A, sample)
           m == IF b < Len(sample) THEN b ELSE Len(sample)
           front == SubSeq(sample, 1, m)
<1>1. r[i] \in Operator /\ b \in Nat \ {0} /\ Len(sample) \in Nat /\ Len(r) \in Nat
  <2>1. r[i] \in Operator
    BY ElementOfSeq
  <2> QED
    BY <2>1, OperatorParts
<1>2. all \in Seq(Row) /\ RunAll(r, 1..(i - 1), sample) \in Seq(Row)
  BY RunAllType
<1>3. AsSeenBy(r[i], Fill(all, b)) = AsSeenBy(r[i], Fill(RunAll(r, 1..(i - 1), sample), b))
  BY <1>1, <1>2, AncestorsAgree, FillSeen
<1>4. CASE \E j \in A : r[j].kind = "filter"
  <2>1. AncestorRows(r, i, sample) = all
    BY <1>4 DEF AncestorRows
  <2> QED
    BY <1>3, <2>1
<1>5. CASE ~ \E j \in A : r[j].kind = "filter"
  <2>1. AncestorRows(r, i, sample) = RunAll(r, A, front)
    BY <1>5 DEF AncestorRows
  <2>2. \A j \in A : r[j].kind = "mapper"
    BY <1>5 DEF Parallel
  <2>3. m \in 0..Len(sample) /\ m <= Len(sample)
    BY <1>1
  <2>4. Len(all) = Len(sample) /\ Opens(m, RunAll(r, A, front), all)
    <3> HIDE DEF A, m
    <3> QED
      BY <2>2, <2>3, OpeningKept
  <2>5. CASE b < Len(sample)
    <3>1. m = b
      BY <2>5
    <3>2. front \in Seq(Row)
      <4> HIDE DEF m
      <4> QED
        BY <1>1, <2>3
    <3>3. RunAll(r, A, front) \in Seq(Row)
      <4> HIDE DEF front, A
      <4> QED
        BY <3>2, RunAllType
    <3>4. Fill(RunAll(r, A, front), b) = Fill(all, b)
      <4> HIDE DEF front, A, all, b, m
      <4> QED
        BY <1>1, <1>2, <2>4, <2>5, <3>1, <3>3, FillOpening
    <3> QED
      BY <1>3, <2>1, <3>4
  <2>6. CASE ~(b < Len(sample))
    <3>1. m = Len(sample)
      BY <2>6
    <3>2. front = sample
      BY <3>1
    <3> QED
      BY <1>3, <2>1, <3>2
  <2> QED
    BY <2>5, <2>6
<1> QED
  BY <1>4, <1>5

LEMMA RunNone ==
    ASSUME NEW r \in Seq(Operator), NEW rs \in Seq(Row)
    PROVE  RunAll(r, {}, rs) = rs
<1> DEFINE n == Len(r)
<1>1. PICK f : Through(f, r, {}, rs) /\ RunAll(r, {}, rs) = f[n]
  BY RunAllThrough
<1> DEFINE M == {k \in 0..n : f[k] = rs}
<1>2. n \in Nat /\ n \in 0..n /\ 0 \in 0..n
  OBVIOUS
<1>3. 0 \in M
  BY <1>1, <1>2 DEF Through
<1>4. ASSUME NEW k \in 1..n, k - 1 \in M PROVE k \in M
  <2>1. f[k] = f[k - 1] /\ k \in 0..n
    BY <1>1 DEF Through
  <2> QED
    BY <1>4, <2>1
<1>5. M = 0..n
  <2>1. M \in SUBSET (0..n)
    OBVIOUS
  <2> HIDE DEF M, n
  <2> QED
    BY <1>2, <1>3, <1>4, <2>1, UpFromZero
<1> QED
  BY <1>1, <1>2, <1>5

LEMMA RunOneMore ==
    ASSUME NEW r \in Seq(Operator), NEW rs \in Seq(Row), NEW p \in 1..Len(r)
    PROVE  RunAll(r, 1..p, rs) = Run(r[p], RunAll(r, 1..(p - 1), rs))
<1> DEFINE n == Len(r)
<1>1. PICK f : Through(f, r, 1..p, rs) /\ RunAll(r, 1..p, rs) = f[n]
  BY RunAllThrough
<1>2. PICK g : Through(g, r, 1..(p - 1), rs) /\ RunAll(r, 1..(p - 1), rs) = g[n]
  BY RunAllThrough
<1> DEFINE M == {k \in 0..n : f[k] = IF k < p THEN g[k] ELSE Run(r[p], g[k])}
<1>3. n \in Nat /\ n \in 0..n /\ 0 \in 0..n /\ p \in 1..n
  OBVIOUS
<1>4. 0 \in M
  BY <1>1, <1>2, <1>3 DEF Through
<1>5. ASSUME NEW k \in 1..n, k - 1 \in M PROVE k \in M
  <2>1. /\ k \in 0..n
        /\ f[k] = IF k \in 1..p THEN Run(r[k], f[k - 1]) ELSE f[k - 1]
        /\ g[k] = IF k \in 1..(p - 1) THEN Run(r[k], g[k - 1]) ELSE g[k - 1]
    BY <1>1, <1>2 DEF Through
  <2>2. f[k - 1] = IF k - 1 < p THEN g[k - 1] ELSE Run(r[p], g[k - 1])
    BY <1>5
  <2>3. f[k] = IF k < p THEN g[k] ELSE Run(r[p], g[k])
    <3>1. CASE k < p
      <4>1. k \in 1..p /\ k \in 1..(p - 1) /\ k - 1 < p
        BY <1>3, <3>1
      <4> QED
        BY <2>1, <2>2, <3>1, <4>1
    <3>2. CASE k = p
      <4>1. k \in 1..p /\ k \notin 1..(p - 1) /\ k - 1 < p /\ ~(k < p)
        BY <1>3, <3>2
      <4> QED
        BY <2>1, <2>2, <3>2, <4>1
    <3>3. CASE k > p
      <4>1. k \notin 1..p /\ k \notin 1..(p - 1) /\ ~(k - 1 < p) /\ ~(k < p)
        BY <1>3, <3>3
      <4> QED
        BY <2>1, <2>2, <4>1
    <3> QED
      BY <3>1, <3>2, <3>3
  <2> QED
    BY <2>1, <2>3
<1>6. n \in M
  <2>1. M \in SUBSET (0..n)
    OBVIOUS
  <2> HIDE DEF M, n
  <2> QED
    BY <1>3, <1>4, <1>5, <2>1, UpFromZero
<1> QED
  BY <1>1, <1>2, <1>3, <1>6

LEMMA SampleType ==
    ASSUME NEW r \in Seq(Operator), NEW S \in SUBSET DOMAIN r, S # {}
    PROVE  Sample(SampleCount(r, S)) \in Seq(Row)
<1> DEFINE D == {r[i].batch : i \in S}
           n == Max(D)
           m == IF n < Len(Dataset) THEN n ELSE Len(Dataset)
<1>1. DOMAIN r = 1..Len(r) /\ Len(r) \in Nat /\ \A i \in S : r[i].batch \in Nat
  <2>1. DOMAIN r = 1..Len(r) /\ Len(r) \in Nat /\ \A i \in 1..Len(r) : r[i] \in Operator
    BY ElementOfSeq
  <2> QED
    BY <2>1, OperatorParts
<1>2. IsFiniteSet(S)
  <2>1. IsFiniteSet(1..Len(r)) /\ S \in SUBSET (1..Len(r))
    BY <1>1, FS_Interval
  <2> QED
    BY <2>1, FS_Subset
<1>3. IsFiniteSet(D)
  <2> DEFINE f == [i \in S |-> r[i].batch]
  <2>1. f \in Surjection(S, D)
    BY DEF Surjection
  <2> HIDE DEF D, f
  <2> QED
    BY <1>2, <2>1, FS_Surjection
<1>4. n \in Nat
  <2>1. D \in SUBSET Nat /\ D # {}
    BY <1>1
  <2> HIDE DEF D
  <2> QED
    BY <1>3, <2>1, LargestOf
<1>5. Len(Dataset) \in Nat /\ \A i \in 1..Len(Dataset) : Dataset[i] \in Range(Dataset)
  BY DatasetAssumption, ElementOfSeq
<1> HIDE DEF n
<1>6. m \in Nat /\ \A i \in 1..m : i \in 1..Len(Dataset)
  BY <1>4, <1>5
<1>7. Sample(SampleCount(r, S)) = [i \in 1..m |-> [Start0 EXCEPT !.id = Dataset[i]]]
  BY DEF Sample, SampleCount, n
<1>8. \A x \in Range(Dataset) : [Start0 EXCEPT !.id = x] \in Row
  <2>1. \A x : [Start0 EXCEPT !.id = x] = [id |-> x, val |-> [c \in Columns |-> {}]]
    <3>1. \A x, y, z : [[id |-> x, val |-> y] EXCEPT !.id = z] = [id |-> z, val |-> y]
      OBVIOUS
    <3> QED
      BY <3>1 DEF Start0
  <2>2. [c \in Columns |-> {}] \in [Columns -> SUBSET Names]
    OBVIOUS
  <2> QED
    BY <2>1, <2>2 DEF Row
<1> HIDE DEF m
<1>9. \A i \in 1..m : [Start0 EXCEPT !.id = Dataset[i]] \in Row
  BY <1>5, <1>6, <1>8
<1>10. Sample(SampleCount(r, S)) \in [1..m -> Row]
  BY <1>7, <1>9
<1> QED
  BY <1>6, <1>10

LEMMA SerialLast ==
    ASSUME NEW r \in Seq(Operator), NEW S \in SUBSET DOMAIN r, Serial(r, S) # {}
    PROVE  /\ Max(Serial(r, S)) \in 1..Len(r)
           /\ \A i \in Serial(r, S) : i \in 1..Max(Serial(r, S))
<1>1. Len(r) \in Nat /\ Serial(r, S) \in SUBSET (1..Len(r))
  BY DEF Serial
<1>2. Max(Serial(r, S)) \in Serial(r, S) /\ \A i \in Serial(r, S) : i <= Max(Serial(r, S))
  BY <1>1, LargestPlace
<1> QED
  BY <1>1, <1>2

-----------------------------------------------------------------------------
(* Parallel probes run the sample, the replay has what the operators so    *)
(* far have made of it.                                                    *)
InParallel == {"wait", "drain", "check", "collect"}
LineageInv ==
    /\ recipe \in Seq(Operator) /\ pending \subseteq DOMAIN recipe
    /\ pc \in InParallel \cup {"replay"} => pending # {}
    /\ pc \in InParallel =>
           /\ at = 1 /\ rows = Sample(SampleCount(recipe, pending))
           /\ jobs \cup DOMAIN workers \cup DOMAIN results \subseteq Waiting(recipe, pending)
    /\ pc = "replay" =>
           /\ Serial(recipe, pending) # {} /\ at \in 1..LastSerial
           /\ rows = Fed(at)
    /\ LineageMeasured

LEMMA LineageKept ==
    ASSUME LineageMeasured, UNCHANGED <<recipe, pending, found>>
    PROVE  LineageMeasured'
BY DEF LineageMeasured, Fed

LEMMA FedFirst ==
    ASSUME recipe \in Seq(Operator), pending \subseteq DOMAIN recipe, pending # {}
    PROVE  Sample(SampleCount(recipe, pending)) = Fed(1)
<1>1. 1..(1 - 1) = {}
  OBVIOUS
<1>2. Sample(SampleCount(recipe, pending)) \in Seq(Row)
  BY SampleType
<1> QED
  BY <1>1, <1>2, RunNone DEF Fed

LEMMA LineageStart ==
    ASSUME LineageInv, Start
    PROVE  LineageInv'
<1> PICK r \in Recipes, g \in Gpus : \E reused \in Reusable(r, g) : Resolve(r, g, reused)
  BY DEF Start
<1> PICK reused \in Reusable(r, g) : Resolve(r, g, reused)
  OBVIOUS
<1> DEFINE todo == Candidates(r) \ reused
           queue == Waiting(r, todo)
<1>1. r \in Seq(Operator)
  BY RecipesAssumption
<1>2. todo \subseteq DOMAIN r /\ queue \subseteq todo /\ First(queue, Limit) \subseteq queue
  BY FirstOfQueue DEF Waiting, Candidates
<1>3. /\ recipe' = r /\ pending' = todo /\ at' = 1 /\ results' = Nothing
      /\ found' = [i \in reused |-> report[i]]
  BY DEF Resolve
<1>4. LineageMeasured'
  <2>1. DOMAIN found' \cap pending' = {}
    BY <1>3
  <2> HIDE DEF todo
  <2> QED
    BY <2>1 DEF LineageMeasured
<1>5. CASE pc' \in {"failed", "ready"}
  BY <1>1, <1>2, <1>3, <1>4, <1>5 DEF LineageInv, InParallel
<1>6. CASE pc' \notin {"failed", "ready"}
  <2>1. /\ todo # {}
        /\ jobs' = queue \ First(queue, Limit) /\ workers' = Submitted(First(queue, Limit))
        /\ rows' = Sample(SampleCount(r, todo))
        /\ pc' = IF queue = {} THEN "replay" ELSE "wait"
    BY <1>6 DEF Resolve
  <2>2. (jobs \cup DOMAIN workers \cup DOMAIN results)' \subseteq queue
    <3>1. DOMAIN workers' = First(queue, Limit) /\ DOMAIN results' = {}
      BY <1>3, <2>1 DEF Submitted, Nothing
    <3> HIDE DEF queue
    <3> QED
      BY <1>2, <2>1, <3>1
  <2>3. CASE queue # {}
    <3>1. pc' = "wait" /\ Waiting(recipe, pending)' = queue
      BY <1>3, <2>1, <2>3
    <3>2. rows' = Sample(SampleCount(recipe, pending))'
      BY <1>3, <2>1
    <3> HIDE DEF queue, todo
    <3> QED
      BY <1>1, <1>2, <1>3, <1>4, <2>1, <2>2, <3>1, <3>2 DEF LineageInv, InParallel
  <2>4. CASE queue = {}
    <3>1. pc' = "replay"
      BY <2>1, <2>4
    <3>2. Serial(r, todo) = todo
      BY <2>4 DEF Serial, Waiting
    <3>3. Serial(recipe, pending)' # {} /\ (at \in 1..LastSerial)'
      <4>1. /\ Max(Serial(r, todo)) \in 1..Len(r) /\ Len(r) \in Nat
        <5> HIDE DEF todo
        <5> QED
          BY <1>1, <1>2, <2>1, <3>2, SerialLast
      <4>2. 1 \in 1..Max(Serial(r, todo))
        <5> HIDE DEF todo
        <5> QED
          BY <4>1
      <4> HIDE DEF todo
      <4> QED
        BY <1>3, <2>1, <3>2, <4>2 DEF LastSerial
    <3>4. rows' = Fed(1)'
      <4>1. Sample(SampleCount(r, todo)) \in Seq(Row)
        <5> HIDE DEF todo
        <5> QED
          BY <1>1, <1>2, <2>1, SampleType
      <4>2. RunAll(r, 1..(1 - 1), Sample(SampleCount(r, todo))) = Sample(SampleCount(r, todo))
        <5>1. 1..(1 - 1) = {}
          OBVIOUS
        <5> HIDE DEF todo
        <5> QED
          BY <1>1, <4>1, <5>1, RunNone
      <4> HIDE DEF todo
      <4> QED
        BY <1>3, <2>1, <4>2 DEF Fed
    <3>5. rows' = Fed(at)'
      <4>1. Fed(at)' = Fed(1)'
        BY <1>3 DEF Fed
      <4> QED
        BY <3>4, <4>1
    <3> HIDE DEF queue, todo
    <3> QED
      BY <1>1, <1>2, <1>3, <1>4, <2>1, <3>1, <3>3, <3>5 DEF LineageInv, InParallel
  <2> QED
    BY <2>3, <2>4
<1> QED
  BY <1>5, <1>6

LEMMA LineageFail ==
    ASSUME LineageInv, Fail
    PROVE  LineageInv'
<1>1. pc' = "failed" /\ UNCHANGED <<recipe, pending, found>>
  BY DEF Fail
<1>2. LineageMeasured'
  BY <1>1, LineageKept DEF LineageInv
<1> QED
  BY <1>1, <1>2 DEF LineageInv, InParallel

LEMMA LineageDrain ==
    ASSUME LineageInv, Drain
    PROVE  LineageInv'
<1>1. CASE Fail
  BY <1>1, LineageFail
<1>2. CASE ~Fail
  <2> DEFINE more == First(jobs, Cardinality(Ready))
             left == [i \in DOMAIN workers \ Ready |-> workers[i]]
             received == [i \in Ready |-> workers[i].end]
  <2>1. /\ pc = "drain" /\ pc' = "check"
        /\ results' = With(received, results)
        /\ jobs' = jobs \ more /\ workers' = With(Submitted(more), left)
        /\ UNCHANGED <<recipe, pending, found, at, rows>>
    BY <1>2 DEF Drain, replay
  <2>2. DOMAIN workers' = more \cup (DOMAIN workers \ Ready)
    BY <2>1 DEF With, Submitted
  <2>3. DOMAIN results' = Ready \cup DOMAIN results
    BY <2>1 DEF With
  <2>4. more \subseteq jobs /\ Ready \subseteq DOMAIN workers
    BY FirstOfQueue DEF Ready, Ended
  <2>5. LineageMeasured'
    BY <2>1, LineageKept DEF LineageInv
  <2> HIDE DEF more, left, received
  <2>6. (jobs \cup DOMAIN workers \cup DOMAIN results)' \subseteq Waiting(recipe, pending)
    BY <2>1, <2>2, <2>3, <2>4 DEF LineageInv, InParallel
  <2> QED
    BY <2>1, <2>5, <2>6 DEF LineageInv, InParallel
<1> QED
  BY <1>1, <1>2

LEMMA LineageCollect ==
    ASSUME LineageInv, Collect
    PROVE  LineageInv'
<1>1. CASE Fail
  BY <1>1, LineageFail
<1>2. CASE ~Fail
  <2> DEFINE new == [i \in DOMAIN results |->
                        Record(i, Fill(AncestorRows(recipe, i, rows), recipe[i].batch))]
             sample == Sample(SampleCount(recipe, pending))
  <2>1. /\ pc = "collect" /\ found' = With(new, found)
        /\ pc' = IF Serial(recipe, pending) = {} THEN "save" ELSE "replay"
        /\ UNCHANGED <<recipe, pending, at, rows>>
    BY <1>2 DEF Collect, replay
  <2>2. /\ recipe \in Seq(Operator) /\ pending \subseteq DOMAIN recipe /\ pending # {}
        /\ at = 1 /\ rows = sample /\ DOMAIN results \subseteq Waiting(recipe, pending)
        /\ LineageMeasured
    BY <2>1 DEF LineageInv, InParallel
  <2>3. sample \in Seq(Row)
    BY <2>2, SampleType
  <2>4. ASSUME NEW i \in DOMAIN results
        PROVE  AsSeenBy(recipe[i], new[i].batch) = AsSeenBy(recipe[i], Fill(Fed(i), recipe[i].batch))
    <3>1. i \in 1..Len(recipe) /\ Parallel(recipe, i)
      BY <2>2 DEF Waiting
    <3>2. new[i].batch = Fill(AncestorRows(recipe, i, rows), recipe[i].batch)
      BY DEF Record
    <3> HIDE DEF new
    <3> QED
      BY <2>2, <2>3, <3>1, <3>2, ParallelMeasured DEF Fed
  <2>5. LineageMeasured'
    <3> SUFFICES ASSUME NEW i \in DOMAIN found' \cap pending
                 PROVE  AsSeenBy(recipe[i], found'[i].batch)
                            = AsSeenBy(recipe[i], Fill(Fed(i), recipe[i].batch))
      BY <2>1 DEF LineageMeasured, Fed
    <3>1. DOMAIN found' = DOMAIN results \cup DOMAIN found
      BY <2>1 DEF With
    <3>2. CASE i \in DOMAIN results
      <4>1. DOMAIN new = DOMAIN results /\ found' = With(new, found)
        BY <2>1
      <4> HIDE DEF new
      <4>2. found'[i] = new[i]
        BY <3>2, <4>1 DEF With
      <4> QED
        BY <2>4, <3>2, <4>2
    <3>3. CASE i \in DOMAIN found \ DOMAIN results
      <4>1. DOMAIN new = DOMAIN results /\ found' = With(new, found)
        BY <2>1
      <4>2. found'[i] = found[i]
        <5> HIDE DEF new
        <5>1. i \in DOMAIN found \ DOMAIN new
          BY <3>3, <4>1
        <5>2. With(new, found)[i] = found[i]
          BY <5>1 DEF With
        <5> QED
          BY <4>1, <5>2
      <4> QED
        BY <2>2, <3>3, <4>2 DEF LineageMeasured
    <3> QED
      BY <3>1, <3>2, <3>3
  <2>6. CASE Serial(recipe, pending) = {}
    <3>1. pc' = "save"
      BY <2>1, <2>6
    <3> QED
      BY <2>1, <2>2, <2>5, <3>1 DEF LineageInv, InParallel
  <2>7. CASE Serial(recipe, pending) # {}
    <3>1. pc' = "replay"
      BY <2>1, <2>7
    <3>2. 1 \in 1..LastSerial
      BY <2>2, <2>7, SerialLast DEF LastSerial
    <3>3. rows = Fed(1)
      BY <2>2, FedFirst
    <3>4. /\ Serial(recipe, pending)' = Serial(recipe, pending)
          /\ LastSerial' = LastSerial /\ Fed(at)' = Fed(1) /\ at' = 1
      BY <2>1, <2>2 DEF LastSerial, Fed
    <3> HIDE DEF new, sample
    <3> QED
      BY <2>1, <2>2, <2>5, <2>7, <3>1, <3>2, <3>3, <3>4 DEF LineageInv, InParallel
  <2> QED
    BY <2>6, <2>7
<1> QED
  BY <1>1, <1>2

LEMMA FullBatch ==
    ASSUME NEW rs \in Seq(Row), NEW n \in Nat, Len(rs) = n
    PROVE  Fill(rs, n) = rs
<1>1. n \in Nat /\ DOMAIN rs = 1..n /\ rs = [k \in 1..n |-> rs[k]]
  OBVIOUS
<1>2. \A k \in 1..n : ((k - 1) % n) + 1 = k
  <2> TAKE k \in 1..n
  <2>1. k - 1 \in Nat /\ k - 1 < n
    OBVIOUS
  <2>2. (k - 1) % n = k - 1
    BY <2>1, SmallRemainder
  <2> QED
    BY <2>2
<1> QED
  BY <1>1, <1>2 DEF Fill

LEMMA LineageStage ==
    ASSUME LineageInv, Stage
    PROVE  LineageInv'
<1> DEFINE new == [i \in {at} |-> Record(i, Fill(rows, Op.batch))]
<1>1. /\ pc = "replay"
      /\ found' = IF IsTarget THEN With(new, found) ELSE found
      /\ rows' = Onward /\ at' = at + 1
      /\ pc' = IF at = LastSerial THEN "save" ELSE "replay"
      /\ UNCHANGED <<recipe, pending>>
  BY DEF Stage
<1>2. /\ recipe \in Seq(Operator) /\ pending \subseteq DOMAIN recipe /\ pending # {}
      /\ Serial(recipe, pending) # {} /\ at \in 1..LastSerial /\ rows = Fed(at)
      /\ LineageMeasured
  BY <1>1 DEF LineageInv
<1>3. /\ LastSerial \in 1..Len(recipe) /\ Len(recipe) \in Nat
      /\ at \in 1..Len(recipe) /\ at \in Nat /\ recipe[at] \in Operator
  <2>1. LastSerial \in 1..Len(recipe) /\ Len(recipe) \in Nat
    BY <1>2, SerialLast DEF LastSerial
  <2>2. at \in 1..Len(recipe)
    BY <1>2, <2>1
  <2> QED
    BY <1>2, <2>1, <2>2, ElementOfSeq
<1>4. rows \in Seq(Row)
  BY <1>2, SampleType, RunAllType DEF Fed
<1>5. LineageMeasured'
  <2> SUFFICES ASSUME NEW i \in DOMAIN found' \cap pending
               PROVE  AsSeenBy(recipe[i], found'[i].batch)
                          = AsSeenBy(recipe[i], Fill(Fed(i), recipe[i].batch))
    BY <1>1 DEF LineageMeasured, Fed
  <2>1. CASE IsTarget /\ i = at
    <3>1. found'[i] = new[i]
      BY <1>1, <2>1, WithFacts
    <3>2. new[i].batch = Fill(rows, recipe[at].batch)
      BY <2>1 DEF Record, Op
    <3> QED
      BY <1>2, <2>1, <3>1, <3>2
  <2>2. CASE ~(IsTarget /\ i = at)
    <3>1. i \in DOMAIN found /\ found'[i] = found[i]
      <4>1. CASE ~IsTarget
        BY <1>1, <4>1
      <4>2. CASE IsTarget
        <5>1. DOMAIN new = {at} /\ found' = With(new, found) /\ i # at
          BY <1>1, <2>2, <4>2
        <5> HIDE DEF new
        <5>2. DOMAIN found' = {at} \cup DOMAIN found
          BY <5>1, WithFacts
        <5>3. i \in DOMAIN found \ DOMAIN new
          BY <5>1, <5>2
        <5>4. With(new, found)[i] = found[i]
          BY <5>3 DEF With
        <5> QED
          BY <5>1, <5>3, <5>4
      <4> QED
        BY <4>1, <4>2
    <3> QED
      BY <1>2, <3>1 DEF LineageMeasured
  <2> QED
    BY <2>1, <2>2
<1>6. CASE at = LastSerial
  <2>1. pc' = "save"
    BY <1>1, <1>6
  <2> QED
    BY <1>1, <1>2, <1>5, <2>1 DEF LineageInv, InParallel
<1>7. CASE at # LastSerial
  <2>1. pc' = "replay" /\ at < LastSerial /\ at + 1 \in 1..LastSerial
    BY <1>1, <1>2, <1>3, <1>7
  <2>2. Onward = Run(recipe[at], rows)
    <3>1. CASE Len(rows) # Op.batch
      BY <2>1, <3>1 DEF Onward, Op
    <3>2. CASE Len(rows) = Op.batch
      <4>1. Op.batch \in Nat
        BY <1>3, OperatorParts DEF Op
      <4>2. Fill(rows, Op.batch) = rows
        BY <1>4, <3>2, <4>1, FullBatch
      <4> QED
        BY <4>2 DEF Onward, Op
    <3> QED
      BY <3>1, <3>2
  <2>3. rows' = Fed(at)'
    <3> DEFINE sample == Sample(SampleCount(recipe, pending))
    <3>1. sample \in Seq(Row)
      BY <1>2, SampleType
    <3>2. RunAll(recipe, 1..at, sample) = Run(recipe[at], RunAll(recipe, 1..(at - 1), sample))
      <4> HIDE DEF sample
      <4> QED
        BY <1>2, <1>3, <3>1, RunOneMore
    <3>3. (at + 1) - 1 = at
      BY <1>3
    <3>4. Fed(at)' = RunAll(recipe, 1..at, sample)
      BY <1>1, <3>3 DEF Fed
    <3>5. rows = RunAll(recipe, 1..(at - 1), sample)
      BY <1>2 DEF Fed
    <3> HIDE DEF sample
    <3> QED
      BY <1>1, <2>2, <3>2, <3>4, <3>5
  <2>4. Serial(recipe, pending)' = Serial(recipe, pending) /\ LastSerial' = LastSerial
    BY <1>1 DEF LastSerial
  <2> HIDE DEF new
  <2> QED
    BY <1>1, <1>2, <1>5, <2>1, <2>3, <2>4 DEF LineageInv, InParallel
<1> QED
  BY <1>6, <1>7

LEMMA LineageInit == Init => LineageInv
<1> SUFFICES ASSUME Init PROVE LineageInv
  OBVIOUS
<1>1. << >> \in Seq(Operator) /\ DOMAIN Nothing = {}
  BY DEF Nothing
<1> QED
  BY <1>1 DEF Init, LineageInv, InParallel, LineageMeasured

LEMMA LineageNext == LineageInv /\ [Next]_vars => LineageInv'
<1> SUFFICES ASSUME LineageInv, [Next]_vars PROVE LineageInv'
  OBVIOUS
<1>1. CASE Start
  BY <1>1, LineageStart
<1>2. ASSUME UNCHANGED <<recipe, pending, found, at, rows>>,
             jobs' = jobs, DOMAIN workers' = DOMAIN workers, results' = results,
             pc' \in InParallel => pc \in InParallel,
             pc' = "replay" => pc = "replay"
      PROVE  LineageInv'
  <2>1. LineageMeasured'
    BY <1>2, LineageKept DEF LineageInv
  <2>2. /\ Serial(recipe, pending)' = Serial(recipe, pending)
        /\ Waiting(recipe, pending)' = Waiting(recipe, pending)
        /\ LastSerial' = LastSerial /\ Fed(at)' = Fed(at)
        /\ Sample(SampleCount(recipe, pending))' = Sample(SampleCount(recipe, pending))
    BY <1>2 DEF LastSerial, Fed
  <2> QED
    BY <1>2, <2>1, <2>2 DEF LineageInv
<1>3. CASE WorkerEnds
  <2>1. DOMAIN workers' = DOMAIN workers
    BY <1>3 DEF WorkerEnds
  <2> QED
    BY <1>2, <1>3, <2>1 DEF WorkerEnds, replay
<1>4. CASE GetsLate
  <2>1. DOMAIN workers' = DOMAIN workers
    BY <1>4 DEF GetsLate
  <2> QED
    BY <1>2, <1>4, <2>1 DEF GetsLate, replay
<1>5. CASE Look
  BY <1>2, <1>5 DEF Look, replay, InParallel
<1>6. CASE Drain
  BY <1>6, LineageDrain
<1>7. CASE TimeOut
  BY <1>7, LineageFail DEF TimeOut
<1>8. CASE Continue
  BY <1>2, <1>8 DEF Continue, replay, InParallel
<1>9. CASE Collect
  BY <1>9, LineageCollect
<1>10. CASE Stage
  BY <1>10, LineageStage
<1>11. CASE StageFails
  BY <1>11, LineageFail DEF StageFails
<1>12. CASE Save
  BY <1>2, <1>12 DEF Save, probing, replay, InParallel
<1>13. CASE Kill
  <2>1. pc' = "off" /\ UNCHANGED <<recipe, pending, found>>
    BY <1>13 DEF Kill
  <2>2. LineageMeasured'
    BY <2>1, LineageKept DEF LineageInv
  <2> QED
    BY <2>1, <2>2 DEF LineageInv, InParallel
<1>14. CASE UNCHANGED vars
  BY <1>2, <1>14 DEF vars
<1> QED
  BY <1>1, <1>3, <1>4, <1>5, <1>6, <1>7, <1>8, <1>9, <1>10, <1>11, <1>12, <1>13, <1>14 DEF Next

(* For any recipes, columns, batch sizes, samples, limits and faults: an   *)
(* operator is measured on a full batch of what it would see in the job,   *)
(* whether it is probed in parallel with its ancestors only or in the      *)
(* ordered replay, after batches that were padded or cut                   *)
(* (plan_parallel_probe_jobs, _run_parallel_probe_job, resolve).            *)
THEOREM LineageAlwaysMeasured == Spec => []LineageMeasured
<1>1. LineageInv => LineageMeasured
  BY DEF LineageInv
<1> QED
  BY <1>1, LineageInit, LineageNext, PTL DEF Spec
=============================================================================
