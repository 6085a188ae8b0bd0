------------------------ MODULE LocalExecutorProofs ------------------------
(***************************************************************************)
(* The default executor exports what its recipe means (OutputCorrect),     *)
(* with checkpoints that agree with their record (CheckpointSound) and     *)
(* keep what ended before an operator raised (ProgressKept).               *)
(*                                                                         *)
(* Running operators batch by batch, all in one, is running them one after *)
(* the other on all rows (BatchesAgree); so a stage does what its          *)
(* operators mean (StagesAgree), and a fused process list what the process *)
(* list means (FusionAgrees).  The invariants of the executor rest on      *)
(* these.                                                                  *)
(***************************************************************************)
EXTENDS LocalExecutor, SequenceTheorems, FiniteSetTheorems,
        WellFoundedInduction, TLAPS

-----------------------------------------------------------------------------
(* Values that are computed one from the other, n times.                   *)

LEMMA LeastOf ==
    ASSUME NEW n \in Nat, NEW S \in SUBSET (0..n), S # {}
    PROVE  \E m \in S : \A k \in S : m <= k
<1> DEFINE T == {0..m : m \in S}
<1>1. T \in SUBSET FiniteSubsetsOf(0..n) /\ T # {}
  <2>1. IsFiniteSet(0..n)
    BY FS_Interval
  <2>2. \A m \in S : 0..m \in SUBSET (0..n)
    OBVIOUS
  <2>3. \A m \in S : 0..m \in FiniteSubsetsOf(0..n)
    BY <2>1, <2>2, FS_FiniteSubsetsOfFinite
  <2> QED
    BY <2>3
<1>2. PICK U \in T : \A V \in T : ~(<<V, U>> \in StrictSubsetOrdering(0..n))
  <2> HIDE DEF T
  <2> QED
    BY <1>1, FS_StrictSubsetOrderingWellFounded, FS_Interval, WFMin
<1>3. PICK m \in S : U = 0..m
  BY <1>2
<1>4. ASSUME NEW k \in S, k < m PROVE FALSE
  <2>1. 0..k \in T /\ 0..k \subseteq U /\ 0..k # U
    BY <1>3, <1>4
  <2>2. U \in SUBSET (0..n) /\ 0..k \in SUBSET (0..n)
    BY <1>3, <1>4
  <2> HIDE DEF T
  <2> QED
    BY <1>2, <2>1, <2>2 DEF StrictSubsetOrdering
<1> QED
  BY <1>4

(* Induction over 0..n, with a set for the predicate.                      *)
LEMMA UpFromZero ==
    ASSUME NEW n \in Nat, NEW S \in SUBSET (0..n), 0 \in S,
           \A k \in 1..n : k - 1 \in S => k \in S
    PROVE  S = 0..n
<1> SUFFICES ASSUME (0..n) \ S # {} PROVE FALSE
  OBVIOUS
<1>1. PICK m \in (0..n) \ S : \A k \in (0..n) \ S : m <= k
  BY LeastOf
<1>2. m \in 1..n /\ m - 1 \in 0..n /\ m - 1 < m
  BY <1>1
<1> QED
  BY <1>1, <1>2

(* f is x, and then what each function of g makes of the value before.     *)
Chain(f, n, g, x) == f = [i \in 0..n |-> IF i = 0 THEN x ELSE g[i][f[i - 1]]]

LEMMA ChainsExist ==
    ASSUME NEW n \in Nat, NEW X, NEW x \in X, NEW g \in [1..n -> [X -> X]]
    PROVE  \E f \in [0..n -> X] : Chain(f, n, g, x)
<1> DEFINE S == {k \in 0..n : \E f \in [0..k -> X] : Chain(f, k, g, x)}
<1>1. 0 \in S
  <2> DEFINE f == [i \in 0..0 |-> x]
  <2>1. f \in [0..0 -> X] /\ Chain(f, 0, g, x)
    BY DEF Chain
  <2> QED
    BY <2>1
<1>2. ASSUME NEW k \in 1..n, k - 1 \in S PROVE k \in S
  <2>1. PICK f \in [0..(k - 1) -> X] : Chain(f, k - 1, g, x)
    BY <1>2
  <2> DEFINE h == [i \in 0..k |-> IF i = k THEN g[k][f[k - 1]] ELSE f[i]]
  <2>2. f[k - 1] \in X /\ g[k] \in [X -> X]
    OBVIOUS
  <2>3. h \in [0..k -> X]
    <3>1. \A i \in 0..k : i # k => i \in 0..(k - 1)
      OBVIOUS
    <3> QED
      BY <2>2, <3>1
  <2>4. \A i \in 0..k : h[i] = IF i = 0 THEN x ELSE g[i][h[i - 1]]
    <3> TAKE i \in 0..k
    <3>1. CASE i = k
      <4>1. h[i - 1] = f[k - 1] /\ i # 0
        BY <3>1
      <4> QED
        BY <3>1, <4>1
    <3>2. CASE i # k
      <4>1. i \in 0..(k - 1) /\ h[i] = f[i]
        BY <3>2
      <4>2. i # 0 => h[i - 1] = f[i - 1]
        BY <4>1
      <4>3. f[i] = IF i = 0 THEN x ELSE g[i][f[i - 1]]
        BY <2>1, <4>1 DEF Chain
      <4> QED
        BY <4>1, <4>2, <4>3
    <3> QED
      BY <3>1, <3>2
  <2>5. Chain(h, k, g, x)
    <3>1. h = [i \in 0..k |-> h[i]]
      OBVIOUS
    <3> HIDE DEF h
    <3>2. h = [i \in 0..k |-> IF i = 0 THEN x ELSE g[i][h[i - 1]]]
      BY <2>4, <3>1
    <3> QED
      BY <3>2 DEF Chain
  <2> QED
    BY <2>3, <2>5
<1>3. S = 0..n
  <2> HIDE DEF S
  <2>1. S \in SUBSET (0..n)
    BY DEF S
  <2> QED
    BY <1>1, <1>2, <2>1, UpFromZero
<1> QED
  BY <1>3

LEMMA ChainsAgree ==
    ASSUME NEW n \in Nat, NEW g, NEW x, NEW f, NEW h,
           Chain(f, n, g, x), Chain(h, n, g, x)
    PROVE  f = h
<1> DEFINE S == {k \in 0..n : f[k] = h[k]}
<1>1. f = [i \in 0..n |-> f[i]] /\ h = [i \in 0..n |-> h[i]]
  BY DEF Chain
<1>2. \A i \in 0..n : /\ f[i] = IF i = 0 THEN x ELSE g[i][f[i - 1]]
                      /\ h[i] = IF i = 0 THEN x ELSE g[i][h[i - 1]]
  BY DEF Chain
<1>3. 0 \in S
  BY <1>2
<1>4. ASSUME NEW k \in 1..n, k - 1 \in S PROVE k \in S
  BY <1>2, <1>4
<1>5. S = 0..n
  <2> HIDE DEF S
  <2>1. S \in SUBSET (0..n)
    BY DEF S
  <2> QED
    BY <1>3, <1>4, <2>1, UpFromZero
<1> QED
  BY <1>1, <1>5

-----------------------------------------------------------------------------
(* Concatenating many sequences.                                           *)

Joins(f, ss) ==
    /\ f[0] = << >>
    /\ \A i \in 1..Len(ss) : f[i] = f[i - 1] \o ss[i]

LEMMA JoinExists ==
    ASSUME NEW X, NEW ss \in Seq(Seq(X))
    PROVE  \E f \in [0..Len(ss) -> Seq(X)] : Joins(f, ss)
<1> DEFINE n == Len(ss)
           g == [i \in 1..n |-> [y \in Seq(X) |-> y \o ss[i]]]
<1>1. n \in Nat /\ << >> \in Seq(X) /\ \A i \in 1..n : ss[i] \in Seq(X)
  BY ElementOfSeq
<1>2. g \in [1..n -> [Seq(X) -> Seq(X)]]
  <2>1. \A i \in 1..n : \A y \in Seq(X) : y \o ss[i] \in Seq(X)
    BY <1>1
  <2> QED
    BY <2>1
<1>3. PICK f \in [0..n -> Seq(X)] : Chain(f, n, g, << >>)
  <2> HIDE DEF n, g
  <2> QED
    BY <1>1, <1>2, ChainsExist
<1>4. \A i \in 0..n : f[i] = IF i = 0 THEN << >> ELSE g[i][f[i - 1]]
  <2> HIDE DEF g
  <2> QED
    BY <1>3 DEF Chain
<1>5. ASSUME NEW i \in 1..n PROVE f[i] = f[i - 1] \o ss[i]
  <2>1. f[i - 1] \in Seq(X)
    <3>1. i - 1 \in 0..n /\ f \in [0..n -> Seq(X)]
      BY <1>1
    <3> HIDE DEF n, g
    <3> QED
      BY <3>1
  <2>2. g[i][f[i - 1]] = f[i - 1] \o ss[i]
    BY <2>1
  <2>3. f[i] = g[i][f[i - 1]]
    <3>1. i \in 0..n /\ i # 0
      BY <1>1
    <3> HIDE DEF n, g
    <3> QED
      BY <3>1, <1>4
  <2> QED
    BY <2>2, <2>3
<1>6. f[0] = << >>
  <2>1. 0 \in 0..n
    BY <1>1
  <2> HIDE DEF n, g
  <2> QED
    BY <1>4, <2>1
<1> QED
  BY <1>3, <1>5, <1>6 DEF Joins

LEMMA FlattenIs ==
    ASSUME NEW X, NEW ss \in Seq(Seq(X)),
           NEW f \in [0..Len(ss) -> Seq(X)], Joins(f, ss)
    PROVE  FlattenSeq(ss) = f[Len(ss)]
<1> DEFINE n == Len(ss)
           Joined(h) == h = [i \in 1..n |-> IF i = 1 THEN ss[i] ELSE h[i - 1] \o ss[i]]
           k == [i \in 1..n |-> f[i]]
<1>0. n \in Nat /\ \A i \in 1..n : ss[i] \in Seq(X)
  BY ElementOfSeq
<1>1. CASE n = 0
  BY <1>1 DEF FlattenSeq, Joins
<1>2. CASE n # 0
  <2>1. \A i \in 1..n : k[i] = IF i = 1 THEN ss[i] ELSE k[i - 1] \o ss[i]
    <3> TAKE i \in 1..n
    <3>1. f[i] = f[i - 1] \o ss[i]
      BY DEF Joins
    <3>2. CASE i = 1
      <4>1. f[i - 1] = << >>
        BY <3>2 DEF Joins
      <4> QED
        BY <1>0, <3>1, <3>2, <4>1
    <3>3. CASE i # 1
      <4>1. k[i] = f[i] /\ i - 1 \in 1..n
        BY <1>0, <3>3
      <4>2. k[i - 1] = f[i - 1]
        BY <4>1
      <4> HIDE DEF k, n
      <4> QED
        BY <3>1, <3>3, <4>1, <4>2
    <3> QED
      BY <3>2, <3>3
  <2>2. Joined(k)
    <3>1. k = [i \in 1..n |-> k[i]]
      OBVIOUS
    <3> HIDE DEF k
    <3> QED
      BY <2>1, <3>1
  <2>3. ASSUME NEW h, Joined(h) PROVE h[n] = k[n]
    <3> DEFINE S == {i \in 0..(n - 1) : h[i + 1] = k[i + 1]}
    <3>1. \A i \in 1..n : h[i] = IF i = 1 THEN ss[i] ELSE h[i - 1] \o ss[i]
      BY <2>3
    <3>2. n - 1 \in Nat /\ S \in SUBSET (0..(n - 1))
      BY <1>0, <1>2
    <3>3. 0 \in S
      <4>1. 1 \in 1..n
        BY <1>0, <1>2
      <4>2. h[1] = ss[1] /\ k[1] = ss[1]
        BY <4>1, <3>1, <2>1
      <4> HIDE DEF k
      <4> QED
        BY <3>2, <4>2
    <3>4. ASSUME NEW i \in 1..(n - 1), i - 1 \in S PROVE i \in S
      <4>1. i \in 1..n /\ i + 1 \in 1..n /\ i + 1 # 1 /\ (i + 1) - 1 = i /\ (i - 1) + 1 = i
        BY <1>0
      <4>2. h[i + 1] = h[i] \o ss[i + 1] /\ k[i + 1] = k[i] \o ss[i + 1]
        BY <4>1, <3>1, <2>1
      <4> HIDE DEF k
      <4>3. h[i] = k[i]
        BY <3>4, <4>1
      <4>4. i \in 0..(n - 1)
        OBVIOUS
      <4> HIDE DEF n
      <4> QED
        BY <4>2, <4>3, <4>4
    <3>5. n - 1 \in S
      <4> HIDE DEF S, n
      <4>1. S = 0..(n - 1)
        BY <3>2, <3>3, <3>4, UpFromZero
      <4> QED
        BY <3>2, <4>1
    <3> HIDE DEF k
    <3> QED
      BY <1>0, <3>5
  <2>4. Joined(CHOOSE h : Joined(h))
    <3> HIDE DEF k
    <3> QED
      BY <2>2
  <2>5. FlattenSeq(ss) = (CHOOSE h : Joined(h))[n]
    BY <1>2 DEF FlattenSeq
  <2>6. (CHOOSE h : Joined(h))[n] = k[n]
    <3> HIDE DEF Joined, k
    <3> QED
      BY <2>3, <2>4
  <2>7. k[n] = f[n]
    BY <1>0, <1>2
  <2> QED
    BY <2>5, <2>6, <2>7
<1> QED
  BY <1>1, <1>2

LEMMA FlattenType ==
    ASSUME NEW X, NEW ss \in Seq(Seq(X))
    PROVE  FlattenSeq(ss) \in Seq(X)
<1>1. PICK f \in [0..Len(ss) -> Seq(X)] : Joins(f, ss)
  BY JoinExists
<1>2. FlattenSeq(ss) = f[Len(ss)]
  BY <1>1, FlattenIs
<1>3. Len(ss) \in 0..Len(ss)
  OBVIOUS
<1> QED
  BY <1>2, <1>3

LEMMA FlattenConcat ==
    ASSUME NEW X, NEW ss \in Seq(Seq(X)), NEW tt \in Seq(Seq(X))
    PROVE  FlattenSeq(ss \o tt) = FlattenSeq(ss) \o FlattenSeq(tt)
<1>1. PICK f \in [0..Len(ss) -> Seq(X)] : Joins(f, ss)
  BY JoinExists
<1>2. PICK g \in [0..Len(tt) -> Seq(X)] : Joins(g, tt)
  BY JoinExists
<1> DEFINE m == Len(ss)
           n == Len(tt)
           h == [i \in 0..(m + n) |-> IF i <= m THEN f[i] ELSE f[m] \o g[i - m]]
<1>3. m \in Nat /\ n \in Nat /\ ss \o tt \in Seq(Seq(X)) /\ Len(ss \o tt) = m + n
  OBVIOUS
<1>4. h \in [0..(m + n) -> Seq(X)]
  <2>1. ASSUME NEW i \in 0..(m + n) PROVE h[i] \in Seq(X)
    <3>0. f \in [0..m -> Seq(X)] /\ g \in [0..n -> Seq(X)]
      OBVIOUS
    <3>1. CASE i <= m
      <4>1. i \in 0..m /\ h[i] = f[i]
        BY <1>3, <3>1
      <4> HIDE DEF m, n, h
      <4> QED
        BY <3>0, <4>1
    <3>2. CASE ~(i <= m)
      <4>1. f[m] \in Seq(X) /\ g[i - m] \in Seq(X)
        <5>1. m \in 0..m /\ i - m \in 0..n
          BY <1>3, <3>2
        <5> HIDE DEF m, n, h
        <5> QED
          BY <3>0, <5>1
      <4> QED
        BY <1>3, <3>2, <4>1
    <3> QED
      BY <3>1, <3>2
  <2> QED
    BY <2>1
<1>5. Joins(h, ss \o tt)
  <2>1. h[0] = << >>
    BY <1>1, <1>3 DEF Joins
  <2>2. ASSUME NEW i \in 1..(m + n) PROVE h[i] = h[i - 1] \o (ss \o tt)[i]
    <3>1. CASE i <= m
      <4>1. i \in 1..m /\ (ss \o tt)[i] = ss[i] /\ h[i] = f[i] /\ h[i - 1] = f[i - 1]
        BY <1>3, <3>1
      <4> QED
        BY <1>1, <4>1 DEF Joins
    <3>2. CASE ~(i <= m)
      <4>1. i - m \in 1..n /\ (ss \o tt)[i] = tt[i - m] /\ h[i] = f[m] \o g[i - m]
        BY <1>3, <3>2
      <4>2. g[i - m] = g[(i - m) - 1] \o tt[i - m]
        BY <1>2, <4>1 DEF Joins
      <4>3. h[i - 1] = f[m] \o g[(i - m) - 1]
        <5>1. CASE i - 1 = m
          <6>1. g[(i - m) - 1] = << >> /\ f[m] \in Seq(X)
            BY <1>2, <1>3, <5>1 DEF Joins
          <6>2. h[i - 1] = f[m]
            BY <1>3, <5>1
          <6> QED
            BY <6>1, <6>2
        <5>2. CASE i - 1 # m
          <6>1. ~(i - 1 <= m) /\ (i - 1) - m = (i - m) - 1 /\ i - 1 \in 0..(m + n)
            BY <1>3, <3>2, <5>2
          <6> QED
            BY <6>1
        <5> QED
          BY <5>1, <5>2
      <4>4. f[m] \in Seq(X) /\ g[(i - m) - 1] \in Seq(X) /\ tt[i - m] \in Seq(X)
        <5>1. (i - m) - 1 \in 0..n /\ m \in 0..m
          BY <1>3, <4>1
        <5>2. tt[i - m] \in Seq(X)
          BY <4>1, ElementOfSeq
        <5>3. f \in [0..m -> Seq(X)] /\ g \in [0..n -> Seq(X)]
          OBVIOUS
        <5> HIDE DEF h, m, n
        <5>4. f[m] \in Seq(X)
          BY <5>1, <5>3
        <5>5. g[(i - m) - 1] \in Seq(X)
          BY <5>1, <5>3
        <5> QED
          BY <5>2, <5>4, <5>5
      <4>5. f[m] \o (g[(i - m) - 1] \o tt[i - m]) = (f[m] \o g[(i - m) - 1]) \o tt[i - m]
        <5>1. \A x, y, z \in Seq(X) : (x \o y) \o z = x \o (y \o z)
          BY SMTT(30)
        <5> HIDE DEF h, m, n
        <5> QED
          BY <4>4, <5>1
      <4> HIDE DEF h, m, n
      <4> QED
        BY <4>1, <4>2, <4>3, <4>5
    <3> QED
      BY <3>1, <3>2
  <2> HIDE DEF h
  <2> QED
    BY <1>3, <2>1, <2>2 DEF Joins
<1>6. FlattenSeq(ss \o tt) = h[m + n]
  <2> HIDE DEF h
  <2> QED
    BY <1>3, <1>4, <1>5, FlattenIs
<1>7. h[m + n] = f[m] \o g[n]
  <2>1. CASE n = 0
    <3>1. g[n] = << >> /\ f[m] \in Seq(X) /\ h[m + n] = f[m]
      BY <1>2, <1>3, <2>1 DEF Joins
    <3> QED
      BY <3>1
  <2>2. CASE n # 0
    BY <1>3, <2>2
  <2> QED
    BY <2>1, <2>2
<1> QED
  BY <1>1, <1>2, <1>6, <1>7, FlattenIs

-----------------------------------------------------------------------------
(* Operators on rows.                                                      *)

Batches == Seq(Rows)

LEMMA ResultsType ==
    ASSUME NEW op \in Basic, NEW r \in Rows
    PROVE  Results(op, r) \in Batches
<1>1. CASE op \notin Filters
  <2>1. Makes[op] \in [Rows -> Rows]
    BY <1>1, OperatorsAssumption
  <2>2. Makes[op][r] \in Rows
    BY <2>1
  <2> QED
    BY <1>1, <2>2 DEF Results, Batches
<1>2. CASE op \in Filters
  BY <1>2 DEF Results, Batches
<1> QED
  BY <1>1, <1>2

Per(op, rows) == [i \in DOMAIN rows |-> Results(op, rows[i])]

LEMMA PerType ==
    ASSUME NEW op \in Basic, NEW rows \in Batches
    PROVE  Per(op, rows) \in Seq(Batches) /\ Len(Per(op, rows)) = Len(rows)
<1>1. DOMAIN rows = 1..Len(rows) /\ Len(rows) \in Nat
  BY DEF Batches
<1>2. \A i \in 1..Len(rows) : Results(op, rows[i]) \in Batches
  BY ResultsType, ElementOfSeq DEF Batches
<1>3. Per(op, rows) \in [1..Len(rows) -> Batches]
  BY <1>1, <1>2 DEF Per
<1> QED
  BY <1>1, <1>3

LEMMA ApplyType ==
    ASSUME NEW op \in Basic, NEW rows \in Batches
    PROVE  ApplyOp(op, rows) \in Batches
BY PerType, FlattenType DEF ApplyOp, Per, Batches

LEMMA ApplyEmpty ==
    ASSUME NEW op
    PROVE  ApplyOp(op, << >>) = << >>
<1>1. Per(op, << >>) = << >>
  BY DEF Per
<1> QED
  BY <1>1 DEF ApplyOp, Per, FlattenSeq

(* An operator does to a batch what it does to all rows.                   *)
LEMMA ApplyConcat ==
    ASSUME NEW op \in Basic, NEW a \in Batches, NEW b \in Batches
    PROVE  ApplyOp(op, a \o b) = ApplyOp(op, a) \o ApplyOp(op, b)
<1>1. Per(op, a \o b) = Per(op, a) \o Per(op, b)
  <2>1. /\ a \o b \in Batches /\ Len(a \o b) = Len(a) + Len(b)
        /\ Len(a) \in Nat /\ Len(b) \in Nat
        /\ DOMAIN (a \o b) = 1..(Len(a) + Len(b))
    BY DEF Batches
  <2>2. /\ Per(op, a) \in Seq(Batches) /\ Len(Per(op, a)) = Len(a)
        /\ Per(op, b) \in Seq(Batches) /\ Len(Per(op, b)) = Len(b)
        /\ Per(op, a \o b) \in Seq(Batches) /\ Len(Per(op, a \o b)) = Len(a) + Len(b)
    BY <2>1, PerType
  <2>3. /\ Per(op, a) \o Per(op, b) \in Seq(Batches)
        /\ Len(Per(op, a) \o Per(op, b)) = Len(a) + Len(b)
    <3>1. \A x, y \in Seq(Batches) : x \o y \in Seq(Batches) /\ Len(x \o y) = Len(x) + Len(y)
      BY ConcatProperties
    <3> QED
      BY <2>2, <3>1
  <2>4. ASSUME NEW i \in 1..(Len(a) + Len(b))
        PROVE  Per(op, a \o b)[i] = (Per(op, a) \o Per(op, b))[i]
    <3>1. Per(op, a \o b)[i] = Results(op, (a \o b)[i])
      BY <2>1 DEF Per
    <3>2. (Per(op, a) \o Per(op, b))[i] =
              IF i <= Len(a) THEN Per(op, a)[i] ELSE Per(op, b)[i - Len(a)]
      BY <2>2, ConcatProperties
    <3>3. (a \o b)[i] = IF i <= Len(a) THEN a[i] ELSE b[i - Len(a)]
      BY ConcatProperties DEF Batches
    <3>4. CASE i <= Len(a)
      <4>1. i \in DOMAIN a
        BY <2>1, <3>4 DEF Batches
      <4> QED
        BY <3>1, <3>2, <3>3, <3>4, <4>1 DEF Per
    <3>5. CASE ~(i <= Len(a))
      <4>1. i - Len(a) \in DOMAIN b
        BY <2>1, <3>5 DEF Batches
      <4> QED
        BY <3>1, <3>2, <3>3, <3>5, <4>1 DEF Per
    <3> QED
      BY <3>4, <3>5
  <2> QED
    BY <2>2, <2>3, <2>4, SeqEqual
<1>2. /\ Per(op, a) \in Seq(Seq(Rows)) /\ Per(op, b) \in Seq(Seq(Rows))
  BY PerType DEF Batches
<1>3. FlattenSeq(Per(op, a) \o Per(op, b)) = FlattenSeq(Per(op, a)) \o FlattenSeq(Per(op, b))
  BY <1>2, FlattenConcat
<1> QED
  BY <1>1, <1>3 DEF ApplyOp, Per

-----------------------------------------------------------------------------
(* Operators in turn.                                                      *)

(* The rows after each operator of s.                                      *)
Turns(f, s, rows) ==
    /\ f \in [0..Len(s) -> Batches]
    /\ f[0] = rows
    /\ \A i \in 1..Len(s) : f[i] = ApplyOp(s[i], f[i - 1])

Applying(s) == [i \in 1..Len(s) |-> [b \in Batches |-> ApplyOp(s[i], b)]]

LEMMA ApplyingType ==
    ASSUME NEW s \in Seq(Basic)
    PROVE  Len(s) \in Nat /\ Applying(s) \in [1..Len(s) -> [Batches -> Batches]]
<1>1. Len(s) \in Nat /\ \A i \in 1..Len(s) : s[i] \in Basic
  BY ElementOfSeq
<1>2. \A i \in 1..Len(s) : [b \in Batches |-> ApplyOp(s[i], b)] \in [Batches -> Batches]
  BY <1>1, ApplyType
<1> QED
  BY <1>1, <1>2 DEF Applying

LEMMA TurnsExist ==
    ASSUME NEW s \in Seq(Basic), NEW rows \in Batches
    PROVE  \E f : Turns(f, s, rows)
<1>1. Len(s) \in Nat /\ Applying(s) \in [1..Len(s) -> [Batches -> Batches]]
  BY ApplyingType
<1>2. PICK f \in [0..Len(s) -> Batches] : Chain(f, Len(s), Applying(s), rows)
  BY <1>1, ChainsExist
<1>3. \A i \in 0..Len(s) : f[i] = IF i = 0 THEN rows ELSE Applying(s)[i][f[i - 1]]
  BY <1>2 DEF Chain
<1>4. f[0] = rows
  BY <1>1, <1>3
<1>5. ASSUME NEW i \in 1..Len(s) PROVE f[i] = ApplyOp(s[i], f[i - 1])
  <2>1. i - 1 \in 0..Len(s) /\ i \in 0..Len(s) /\ i # 0
    BY <1>1
  <2>2. f[i - 1] \in Batches
    BY <2>1
  <2>3. f[i] = Applying(s)[i][f[i - 1]]
    BY <1>3, <2>1
  <2> QED
    BY <2>2, <2>3 DEF Applying
<1> QED
  BY <1>4, <1>5 DEF Turns

(* Whatever has the values of each turn ends with that of all of them.     *)
LEMMA TurnsEnd ==
    ASSUME NEW s \in Seq(Basic), NEW rows \in Batches, NEW f, Turns(f, s, rows)
    PROVE  InTurn(s, rows) = f[Len(s)]
<1> DEFINE n == Len(s)
           Step(h) == h = [i \in 0..n |-> IF i = 0 THEN rows ELSE ApplyOp(s[i], h[i - 1])]
<1>1. n \in Nat
  OBVIOUS
<1>2. \A i \in 0..n : f[i] = IF i = 0 THEN rows ELSE ApplyOp(s[i], f[i - 1])
  BY <1>1 DEF Turns
<1>3. Step(f)
  <2>1. f = [i \in 0..n |-> f[i]]
    BY DEF Turns
  <2> QED
    BY <1>2, <2>1
<1>4. ASSUME NEW h, Step(h) PROVE h[n] = f[n]
  <2> DEFINE S == {i \in 0..n : h[i] = f[i]}
  <2>1. \A i \in 0..n : h[i] = IF i = 0 THEN rows ELSE ApplyOp(s[i], h[i - 1])
    BY <1>4
  <2>2. 0 \in S
    BY <1>1, <1>2, <2>1
  <2>3. ASSUME NEW i \in 1..n, i - 1 \in S PROVE i \in S
    <3>1. i \in 0..n /\ i # 0 /\ h[i - 1] = f[i - 1]
      BY <1>1, <2>3
    <3> QED
      BY <1>2, <2>1, <3>1
  <2>4. S = 0..n
    <3> HIDE DEF S
    <3>1. S \in SUBSET (0..n)
      BY DEF S
    <3> QED
      BY <1>1, <2>2, <2>3, <3>1, UpFromZero
  <2> QED
    BY <1>1, <2>4
<1>5. Step(CHOOSE h : Step(h))
  <2> HIDE DEF Step
  <2> QED
    BY <1>3
<1>6. InTurn(s, rows) = (CHOOSE h : Step(h))[n]
  BY DEF InTurn
<1> HIDE DEF Step
<1> QED
  BY <1>4, <1>5, <1>6

LEMMA InTurnType ==
    ASSUME NEW s \in Seq(Basic), NEW rows \in Batches
    PROVE  InTurn(s, rows) \in Batches
<1>1. PICK f : Turns(f, s, rows)
  BY TurnsExist
<1>2. InTurn(s, rows) = f[Len(s)] /\ Len(s) \in 0..Len(s)
  BY <1>1, TurnsEnd
<1> QED
  BY <1>1, <1>2 DEF Turns

(* Operators in turn, too, do to a batch what they do to all rows.         *)
LEMMA InTurnConcat ==
    ASSUME NEW s \in Seq(Basic), NEW a \in Batches, NEW b \in Batches
    PROVE  InTurn(s, a \o b) = InTurn(s, a) \o InTurn(s, b)
<1>1. PICK f : Turns(f, s, a)
  BY TurnsExist
<1>2. PICK g : Turns(g, s, b)
  BY TurnsExist
<1> DEFINE n == Len(s)
           h == [i \in 0..n |-> f[i] \o g[i]]
<1>3. /\ n \in Nat /\ a \o b \in Batches
      /\ \A i \in 0..n : f[i] \in Batches /\ g[i] \in Batches
      /\ \A i \in 1..n : s[i] \in Basic
  <2>1. n \in Nat /\ a \o b \in Batches
    BY DEF Batches
  <2>2. \A i \in 1..n : s[i] \in Basic
    BY ElementOfSeq
  <2>3. f \in [0..n -> Batches] /\ g \in [0..n -> Batches]
    BY <1>1, <1>2 DEF Turns
  <2> HIDE DEF n
  <2> QED
    BY <2>1, <2>2, <2>3
<1>4. Turns(h, s, a \o b)
  <2>1. h \in [0..n -> Batches]
    <3>1. \A i \in 0..n : f[i] \o g[i] \in Batches
      BY <1>3 DEF Batches
    <3> QED
      BY <3>1
  <2>2. h[0] = a \o b
    BY <1>1, <1>2, <1>3 DEF Turns
  <2>3. ASSUME NEW i \in 1..n PROVE h[i] = ApplyOp(s[i], h[i - 1])
    <3>1. i \in 0..n /\ i - 1 \in 0..n
      BY <1>3
    <3>2. f[i] = ApplyOp(s[i], f[i - 1]) /\ g[i] = ApplyOp(s[i], g[i - 1])
      BY <1>1, <1>2 DEF Turns
    <3>3. ApplyOp(s[i], f[i - 1] \o g[i - 1]) = f[i] \o g[i]
      <4> HIDE DEF n
      <4>1. s[i] \in Basic /\ f[i - 1] \in Batches /\ g[i - 1] \in Batches
        BY <1>3, <3>1
      <4>2. ApplyOp(s[i], f[i - 1] \o g[i - 1]) =
                ApplyOp(s[i], f[i - 1]) \o ApplyOp(s[i], g[i - 1])
        BY <4>1, ApplyConcat
      <4> QED
        BY <3>2, <4>2
    <3> HIDE DEF n
    <3> QED
      BY <3>1, <3>3
  <2> HIDE DEF h
  <2> QED
    BY <2>1, <2>2, <2>3 DEF Turns
<1>5. InTurn(s, a) = f[n] /\ InTurn(s, b) = g[n]
  BY <1>1, <1>2, TurnsEnd
<1>6. InTurn(s, a \o b) = h[n]
  <2> HIDE DEF h
  <2> QED
    BY <1>3, <1>4, TurnsEnd
<1>7. h[n] = f[n] \o g[n]
  <2>1. n \in 0..n
    BY <1>3
  <2> HIDE DEF n
  <2> QED
    BY <2>1
<1> QED
  BY <1>5, <1>6, <1>7

LEMMA InTurnEmpty ==
    ASSUME NEW s \in Seq(Basic)
    PROVE  InTurn(s, << >>) = << >>
<1> DEFINE f == [i \in 0..Len(s) |-> << >>]
<1>1. << >> \in Batches /\ Len(s) \in Nat
  BY DEF Batches
<1>2. Turns(f, s, << >>)
  BY <1>1, ApplyEmpty DEF Turns
<1>3. InTurn(s, << >>) = f[Len(s)]
  <2> HIDE DEF f
  <2> QED
    BY <1>1, <1>2, TurnsEnd
<1> QED
  BY <1>1, <1>3

(* To stop when no row is left changes nothing.                            *)
LEMMA ExecuteBatchIs ==
    ASSUME NEW s \in Seq(Basic), NEW rows \in Batches
    PROVE  ExecuteBatch(s, rows) = InTurn(s, rows)
<1>1. PICK f : Turns(f, s, rows)
  BY TurnsExist
<1> DEFINE n == Len(s)
           Step(h) == h = [i \in 0..n |-> IF i = 0 THEN rows
                                          ELSE IF h[i - 1] = << >> THEN << >>
                                          ELSE ApplyOp(s[i], h[i - 1])]
<1>2. n \in Nat
  OBVIOUS
<1>3. \A i \in 0..n : f[i] = IF i = 0 THEN rows
                             ELSE IF f[i - 1] = << >> THEN << >>
                             ELSE ApplyOp(s[i], f[i - 1])
  <2> TAKE i \in 0..n
  <2>1. i = 0 => f[i] = rows
    BY <1>1 DEF Turns
  <2>2. i # 0 => f[i] = ApplyOp(s[i], f[i - 1])
    BY <1>1, <1>2 DEF Turns
  <2> QED
    BY <2>1, <2>2, ApplyEmpty
<1>4. Step(f)
  <2>1. f = [i \in 0..n |-> f[i]]
    BY <1>1 DEF Turns
  <2> QED
    BY <1>3, <2>1
<1>5. ASSUME NEW h, Step(h) PROVE h[n] = f[n]
  <2> DEFINE S == {i \in 0..n : h[i] = f[i]}
  <2>1. \A i \in 0..n : h[i] = IF i = 0 THEN rows
                               ELSE IF h[i - 1] = << >> THEN << >>
                               ELSE ApplyOp(s[i], h[i - 1])
    BY <1>5
  <2>2. 0 \in S
    BY <1>2, <1>3, <2>1
  <2>3. ASSUME NEW i \in 1..n, i - 1 \in S PROVE i \in S
    <3>1. i \in 0..n /\ i # 0 /\ h[i - 1] = f[i - 1]
      BY <1>2, <2>3
    <3>2. h[i] = f[i]
      <4> HIDE DEF n, S, Step
      <4> QED
        BY <1>3, <2>1, <3>1
    <3> QED
      BY <3>1, <3>2
  <2>4. S = 0..n
    <3> HIDE DEF S
    <3>1. S \in SUBSET (0..n)
      BY DEF S
    <3> QED
      BY <1>2, <2>2, <2>3, <3>1, UpFromZero
  <2> QED
    BY <1>2, <2>4
<1>6. Step(CHOOSE h : Step(h))
  <2> HIDE DEF Step
  <2> QED
    BY <1>4
<1>7. ExecuteBatch(s, rows) = (CHOOSE h : Step(h))[n]
  BY DEF ExecuteBatch
<1>8. InTurn(s, rows) = f[n]
  BY <1>1, TurnsEnd
<1> HIDE DEF Step
<1> QED
  BY <1>5, <1>6, <1>7, <1>8

(* Batches of a sequence of length m, of BatchRows each but the last.      *)
BatchCount(m) == (m + BatchRows - 1) \div BatchRows
BatchEnd(m, k) == IF k * BatchRows < m THEN k * BatchRows ELSE m

LEMMA BatchesCover ==
    ASSUME NEW m \in Nat
    PROVE  /\ BatchCount(m) \in Nat
           /\ BatchEnd(m, 0) = 0 /\ BatchEnd(m, BatchCount(m)) = m
           /\ \A k \in 1..BatchCount(m) :
                 /\ BatchEnd(m, k - 1) = (k - 1) * BatchRows
                 /\ BatchEnd(m, k - 1) \in 0..m /\ BatchEnd(m, k) \in BatchEnd(m, k - 1)..m
<1> DEFINE N == BatchCount(m)
           B == BatchRows
<1>1. B \in Nat /\ B > 0
  BY OperatorsAssumption
<1>3. PICK r \in 0..(B - 1) : m + B - 1 = B * N + r /\ N \in Nat
  <2> DEFINE a == m + B - 1
             r == a - B * (a \div B)
  <2>1. a \in Nat
    BY <1>1
  <2>2. r \in 0..(B - 1) /\ a \div B \in Nat
    <3> HIDE DEF B, a
    <3> QED
      BY <1>1, <2>1
  <2>3. B * (a \div B) \in Nat
    BY <1>1, <2>2
  <2>4. a = B * (a \div B) + r
    <3> HIDE DEF B, a
    <3> QED
      BY <2>1, <2>3
  <2> QED
    BY <2>2, <2>4 DEF BatchCount
<1> HIDE DEF N
<1>4. ASSUME NEW a \in Nat, NEW b \in Nat, a <= b
      PROVE  a * B \in Nat /\ a * B <= b * B
  <2>1. b - a \in Nat /\ b = a + (b - a)
    BY <1>4
  <2>2. PICK d \in Nat : b = a + d
    BY <2>1
  <2>3. b * B = a * B + d * B /\ d * B \in Nat /\ a * B \in Nat
    BY <1>1, <2>2
  <2> QED
    BY <2>3
<1>5. N * B >= m /\ N * B \in Nat
  <2>1. B * N = N * B /\ N * B \in Nat
    BY <1>1, <1>3
  <2> HIDE DEF B
  <2> QED
    BY <1>1, <1>3, <2>1
<1>6. ASSUME NEW k \in 1..N
      PROVE  /\ (k - 1) * B \in Nat /\ (k - 1) * B < m
             /\ k * B \in Nat /\ (k - 1) * B <= k * B
  <2>1. k - 1 \in Nat /\ N - 1 \in Nat /\ k - 1 <= N - 1 /\ k \in Nat /\ k - 1 <= k
    BY <1>3
  <2>2. (k - 1) * B \in Nat /\ (k - 1) * B <= (N - 1) * B
    BY <1>4, <2>1
  <2>3. k * B \in Nat /\ (k - 1) * B <= k * B
    BY <1>1, <1>4, <2>1
  <2>4. (N - 1) * B = B * N - B
    BY <1>1, <1>3
  <2>5. (N - 1) * B < m
    <3>1. B * N \in Nat
      BY <1>1, <1>3
    <3> HIDE DEF B
    <3> QED
      BY <1>1, <1>3, <2>4, <3>1
  <2>6. (N - 1) * B \in Nat
    BY <1>4, <2>1
  <2> DEFINE x == (k - 1) * B
             y == (N - 1) * B
  <2> HIDE DEF x, y
  <2>7. x < m
    <3>1. x \in Nat /\ y \in Nat /\ x <= y /\ y < m
      BY <2>2, <2>5, <2>6 DEF x, y
    <3> QED
      BY <3>1
  <2> QED
    BY <2>2, <2>3, <2>7 DEF x
<1>7. BatchEnd(m, 0) = 0
  <2>1. 0 * BatchRows = 0
    BY <1>1
  <2> QED
    BY <2>1 DEF BatchEnd
<1>8. BatchEnd(m, N) = m
  BY <1>5 DEF BatchEnd
<1>9. ASSUME NEW k \in 1..N
      PROVE  /\ BatchEnd(m, k - 1) = (k - 1) * BatchRows
             /\ BatchEnd(m, k - 1) \in 0..m /\ BatchEnd(m, k) \in BatchEnd(m, k - 1)..m
  BY <1>6 DEF BatchEnd
<1> QED
  BY <1>3, <1>7, <1>8, <1>9 DEF N

(* A fused operator, which runs batch by batch and stops a batch when no   *)
(* row is left, makes of the rows what its operators make of them one      *)
(* after the other.                                                        *)
THEOREM BatchesAgree ==
    ASSUME NEW s \in Seq(Basic), NEW rows \in Batches
    PROVE  InBatches(s, rows) = InTurn(s, rows)
<1> DEFINE L == Len(rows)
           N == BatchCount(L)
           End(k) == BatchEnd(L, k)
           Batch(k) == SubSeq(rows, (k - 1) * BatchRows + 1, End(k))
           done == [k \in 1..N |-> ExecuteBatch(s, Batch(k))]
           f == [k \in 0..N |-> InTurn(s, SubSeq(rows, 1, End(k)))]
<1>1. /\ L \in Nat /\ N \in Nat /\ End(0) = 0 /\ End(N) = L
      /\ \A k \in 1..N : /\ End(k - 1) = (k - 1) * BatchRows
                         /\ End(k - 1) \in 0..L /\ End(k) \in End(k - 1)..L
  <2>1. L \in Nat
    BY DEF Batches
  <2> QED
    BY <2>1, BatchesCover
<1> HIDE DEF N
<1>2. InBatches(s, rows) = FlattenSeq(done)
  BY DEF InBatches, BatchCount, BatchEnd, N
<1> HIDE DEF End
<1>3. \A i \in 1..(L + 1), j \in 0..L : SubSeq(rows, i, j) \in Batches
  <2> TAKE i \in 1..(L + 1), j \in 0..L
  <2>1. \A k \in i..j : k \in 1..L /\ rows[k] \in Rows
    BY <1>1, ElementOfSeq DEF Batches
  <2> QED
    BY <1>1, <2>1, SubSeqProperties DEF Batches
<1>4. ASSUME NEW k \in 0..N PROVE End(k) \in 0..L
  <2>1. CASE k = 0
    BY <1>1, <2>1
  <2>2. CASE k # 0
    <3>1. k \in 1..N
      BY <1>1, <2>2
    <3> QED
      BY <1>1, <3>1
  <2> QED
    BY <2>1, <2>2
<1>5. ASSUME NEW k \in 1..N PROVE Batch(k) \in Batches /\ Batch(k) = SubSeq(rows, End(k - 1) + 1, End(k))
  <2>1. (k - 1) * BatchRows + 1 = End(k - 1) + 1 /\ End(k - 1) + 1 \in 1..(L + 1) /\ End(k) \in 0..L
    BY <1>1, SMTT(30)
  <2> QED
    BY <1>3, <2>1
<1>6. done \in Seq(Batches) /\ Len(done) = N
  <2>1. \A k \in 1..N : ExecuteBatch(s, Batch(k)) \in Batches
    <3> HIDE DEF Batch
    <3> QED
      BY <1>5, ExecuteBatchIs, InTurnType
  <2>2. done \in [1..N -> Batches]
    <3> HIDE DEF Batch
    <3> QED
      BY <2>1
  <2> HIDE DEF done
  <2> QED
    BY <1>1, <2>2
<1>7. f \in [0..N -> Batches]
  <2>1. \A k \in 0..N : SubSeq(rows, 1, End(k)) \in Batches
    BY <1>1, <1>3, <1>4
  <2>2. \A k \in 0..N : InTurn(s, SubSeq(rows, 1, End(k))) \in Batches
    BY <2>1, InTurnType
  <2> QED
    BY <2>2
<1>8. Joins(f, done)
  <2>1. f[0] = << >>
    <3>1. SubSeq(rows, 1, End(0)) = << >>
      BY <1>1, SubSeqEmpty
    <3>2. 0 \in 0..N
      BY <1>1
    <3>3. f[0] = InTurn(s, SubSeq(rows, 1, End(0)))
      BY <3>2
    <3>4. InTurn(s, << >>) = << >>
      BY InTurnEmpty
    <3> HIDE DEF f
    <3> QED
      BY <3>1, <3>3, <3>4
  <2>2. ASSUME NEW k \in 1..N PROVE f[k] = f[k - 1] \o done[k]
    <3>1. SubSeq(rows, 1, End(k)) = SubSeq(rows, 1, End(k - 1)) \o Batch(k)
      <4>1. /\ 1 \in 1..(Len(rows) + 1) /\ End(k - 1) \in (1 - 1)..Len(rows)
            /\ End(k) \in End(k - 1)..Len(rows)
        BY <1>1
      <4>2. SubSeq(rows, 1, End(k - 1)) \o SubSeq(rows, End(k - 1) + 1, End(k)) = SubSeq(rows, 1, End(k))
        BY <4>1, ConcatAdjacentSubSeq DEF Batches
      <4> QED
        BY <1>5, <4>2
    <3>2. /\ SubSeq(rows, 1, End(k - 1)) \in Batches /\ Batch(k) \in Batches
      <4>1. 1 \in 1..(L + 1) /\ End(k - 1) \in 0..L
        BY <1>1
      <4> QED
        BY <1>3, <1>5, <4>1
    <3>3. done[k] = InTurn(s, Batch(k))
      <4> HIDE DEF Batch
      <4> QED
        BY <3>2, ExecuteBatchIs
    <3>4. f[k] = InTurn(s, SubSeq(rows, 1, End(k))) /\ f[k - 1] = InTurn(s, SubSeq(rows, 1, End(k - 1)))
      BY <1>1
    <3>5. InTurn(s, SubSeq(rows, 1, End(k - 1)) \o Batch(k)) =
              InTurn(s, SubSeq(rows, 1, End(k - 1))) \o InTurn(s, Batch(k))
      <4> HIDE DEF Batch
      <4> QED
        BY <3>2, InTurnConcat
    <3> HIDE DEF Batch, done, f
    <3> QED
      BY <3>1, <3>3, <3>4, <3>5
  <2> HIDE DEF f, done
  <2> QED
    BY <1>6, <2>1, <2>2 DEF Joins
<1>9. FlattenSeq(done) = f[N]
  <2> HIDE DEF f, done
  <2>1. done \in Seq(Seq(Rows)) /\ f \in [0..Len(done) -> Seq(Rows)]
    BY <1>6, <1>7 DEF Batches
  <2> QED
    BY <1>6, <1>8, <2>1, FlattenIs
<1>10. f[N] = InTurn(s, rows)
  <2>1. SubSeq(rows, 1, End(N)) = rows
    BY <1>1, SubSeqFull DEF Batches
  <2>2. N \in 0..N
    BY <1>1
  <2>3. f[N] = InTurn(s, SubSeq(rows, 1, End(N)))
    BY <2>2
  <2> QED
    BY <2>1, <2>3
<1> QED
  BY <1>2, <1>9, <1>10

-----------------------------------------------------------------------------
(* Process lists.                                                          *)

LEMMA MeaningType ==
    ASSUME NEW op \in Ops, NEW rows \in Batches
    PROVE  Meaning(op, rows) \in Batches
<1>1. CASE op \in DOMAIN Parts
  <2>1. Parts[op] \in Seq(Basic)
    BY <1>1, OperatorsAssumption
  <2> QED
    BY <1>1, <2>1, InTurnType DEF Meaning
<1>2. CASE op \notin DOMAIN Parts
  BY <1>2, ApplyType DEF Meaning, Basic
<1> QED
  BY <1>1, <1>2

(* The rows after each operator of a process list.                         *)
Runs(f, s, rows) ==
    /\ f \in [0..Len(s) -> Batches]
    /\ f[0] = rows
    /\ \A i \in 1..Len(s) : f[i] = Meaning(s[i], f[i - 1])

LEMMA RunsExist ==
    ASSUME NEW s \in Seq(Ops), NEW rows \in Batches
    PROVE  \E f : Runs(f, s, rows)
<1> DEFINE n == Len(s)
           g == [i \in 1..n |-> [b \in Batches |-> Meaning(s[i], b)]]
<1>1. n \in Nat /\ \A i \in 1..n : s[i] \in Ops
  BY ElementOfSeq
<1>2. g \in [1..n -> [Batches -> Batches]]
  <2>1. \A i \in 1..n : [b \in Batches |-> Meaning(s[i], b)] \in [Batches -> Batches]
    BY <1>1, MeaningType
  <2> QED
    BY <2>1
<1>3. PICK f \in [0..n -> Batches] : Chain(f, n, g, rows)
  <2> HIDE DEF n, g
  <2> QED
    BY <1>1, <1>2, ChainsExist
<1>4. \A i \in 0..n : f[i] = IF i = 0 THEN rows ELSE g[i][f[i - 1]]
  <2> HIDE DEF g
  <2> QED
    BY <1>3 DEF Chain
<1>5. ASSUME NEW i \in 1..n PROVE f[i] = Meaning(s[i], f[i - 1])
  <2>1. i - 1 \in 0..n /\ i \in 0..n /\ i # 0
    BY <1>1
  <2>2. f[i - 1] \in Batches
    BY <2>1
  <2>3. f[i] = g[i][f[i - 1]]
    BY <1>4, <2>1
  <2> QED
    BY <2>2, <2>3
<1>6. f[0] = rows
  <2>1. 0 \in 0..n
    BY <1>1
  <2> HIDE DEF g
  <2> QED
    BY <1>4, <2>1
<1> QED
  BY <1>5, <1>6 DEF Runs

LEMMA RunsEnd ==
    ASSUME NEW s \in Seq(Ops), NEW rows \in Batches, NEW f, Runs(f, s, rows)
    PROVE  Sequential(s, rows) = f[Len(s)]
<1> DEFINE n == Len(s)
           Step(h) == h = [i \in 0..n |-> IF i = 0 THEN rows ELSE Meaning(s[i], h[i - 1])]
<1>1. n \in Nat
  OBVIOUS
<1>2. \A i \in 0..n : f[i] = IF i = 0 THEN rows ELSE Meaning(s[i], f[i - 1])
  BY <1>1 DEF Runs
<1>3. Step(f)
  <2>1. f = [i \in 0..n |-> f[i]]
    BY DEF Runs
  <2> QED
    BY <1>2, <2>1
<1>4. ASSUME NEW h, Step(h) PROVE h[n] = f[n]
  <2> DEFINE S == {i \in 0..n : h[i] = f[i]}
  <2>1. \A i \in 0..n : h[i] = IF i = 0 THEN rows ELSE Meaning(s[i], h[i - 1])
    BY <1>4
  <2>2. 0 \in S
    BY <1>1, <1>2, <2>1
  <2>3. ASSUME NEW i \in 1..n, i - 1 \in S PROVE i \in S
    <3>1. i \in 0..n /\ i # 0 /\ h[i - 1] = f[i - 1]
      BY <1>1, <2>3
    <3> QED
      BY <1>2, <2>1, <3>1
  <2>4. S = 0..n
    <3> HIDE DEF S
    <3>1. S \in SUBSET (0..n)
      BY DEF S
    <3> QED
      BY <1>1, <2>2, <2>3, <3>1, UpFromZero
  <2> QED
    BY <1>1, <2>4
<1>5. Step(CHOOSE h : Step(h))
  <2> HIDE DEF Step
  <2> QED
    BY <1>3
<1>6. Sequential(s, rows) = (CHOOSE h : Step(h))[n]
  BY DEF Sequential
<1> HIDE DEF Step
<1> QED
  BY <1>4, <1>5, <1>6

LEMMA SequentialType ==
    ASSUME NEW s \in Seq(Ops), NEW rows \in Batches
    PROVE  Sequential(s, rows) \in Batches
<1>1. PICK f : Runs(f, s, rows)
  BY RunsExist
<1>2. Sequential(s, rows) = f[Len(s)] /\ Len(s) \in 0..Len(s)
  BY <1>1, RunsEnd
<1> QED
  BY <1>1, <1>2 DEF Runs

LEMMA SequentialEmpty ==
    ASSUME NEW rows \in Batches
    PROVE  Sequential(<< >>, rows) = rows
<1>1. << >> \in Seq(Ops) /\ Len(<< >>) = 0
  OBVIOUS
<1>2. PICK f : Runs(f, << >>, rows)
  BY <1>1, RunsExist
<1>3. Sequential(<< >>, rows) = f[Len(<< >>)]
  BY <1>1, <1>2, RunsEnd
<1> QED
  BY <1>1, <1>2, <1>3 DEF Runs

LEMMA SequentialAppend ==
    ASSUME NEW s \in Seq(Ops), NEW op \in Ops, NEW rows \in Batches
    PROVE  Sequential(s \o <<op>>, rows) = Meaning(op, Sequential(s, rows))
<1>1. PICK f : Runs(f, s, rows)
  BY RunsExist
<1> DEFINE n == Len(s)
           t == s \o <<op>>
           h == [i \in 0..(n + 1) |-> IF i <= n THEN f[i] ELSE Meaning(op, f[n])]
<1>2. /\ n \in Nat /\ t \in Seq(Ops) /\ Len(t) = n + 1 /\ t[n + 1] = op
      /\ \A i \in 1..n : t[i] = s[i]
  OBVIOUS
<1>3. \A i \in 0..n : f[i] \in Batches
  BY <1>1 DEF Runs
<1>4. Runs(h, t, rows)
  <2>1. h \in [0..(n + 1) -> Batches]
    <3>1. Meaning(op, f[n]) \in Batches
      BY <1>2, <1>3, MeaningType
    <3>2. \A i \in 0..(n + 1) : i <= n => i \in 0..n
      BY <1>2
    <3> QED
      BY <1>3, <3>1, <3>2
  <2>2. h[0] = rows
    BY <1>1, <1>2 DEF Runs
  <2>3. ASSUME NEW i \in 1..(n + 1) PROVE h[i] = Meaning(t[i], h[i - 1])
    <3>1. CASE i <= n
      <4>1. i \in 1..n /\ h[i] = f[i] /\ h[i - 1] = f[i - 1] /\ t[i] = s[i]
        BY <1>2, <3>1
      <4> QED
        BY <1>1, <4>1 DEF Runs
    <3>2. CASE ~(i <= n)
      <4>1. i = n + 1 /\ h[i] = Meaning(op, f[n]) /\ h[i - 1] = f[n]
        BY <1>2, <3>2
      <4> HIDE DEF h, t
      <4> QED
        BY <1>2, <4>1
    <3> QED
      BY <3>1, <3>2
  <2> HIDE DEF h, t
  <2> QED
    BY <1>2, <2>1, <2>2, <2>3 DEF Runs
<1>5. Sequential(t, rows) = h[n + 1]
  <2> HIDE DEF h, t
  <2> QED
    BY <1>2, <1>4, RunsEnd
<1>6. Sequential(s, rows) = f[n]
  BY <1>1, RunsEnd
<1>7. h[n + 1] = Meaning(op, f[n])
  BY <1>2
<1> QED
  BY <1>5, <1>6, <1>7

(* A stage of one operator does what the operator means.                   *)
LEMMA SingleStage ==
    ASSUME NEW op \in Ops, NEW rows \in Batches
    PROVE  RunStage(<<op>>, rows) = Meaning(op, rows)
<1>1. Len(<<op>>) = 1 /\ Head(<<op>>) = op
  OBVIOUS
<1>2. CASE op \in DOMAIN Parts
  <2>1. Parts[op] \in Seq(Basic)
    BY <1>2, OperatorsAssumption
  <2>2. InBatches(Parts[op], rows) = InTurn(Parts[op], rows)
    BY <2>1, BatchesAgree
  <2> QED
    BY <1>1, <1>2, <2>2 DEF RunStage, Meaning
<1>3. CASE op \notin DOMAIN Parts
  BY <1>1, <1>3 DEF RunStage, Meaning
<1> QED
  BY <1>2, <1>3

-----------------------------------------------------------------------------
(* Fusion.                                                                 *)

(* A process list in two parts.                                            *)
LEMMA SequentialConcat ==
    ASSUME NEW s \in Seq(Ops), NEW t \in Seq(Ops), NEW rows \in Batches
    PROVE  Sequential(s \o t, rows) = Sequential(t, Sequential(s, rows))
<1>1. PICK f : Runs(f, s, rows)
  BY RunsExist
<1>2. Sequential(s, rows) = f[Len(s)] /\ Sequential(s, rows) \in Batches
  BY <1>1, RunsEnd, SequentialType
<1>3. PICK g : Runs(g, t, Sequential(s, rows))
  BY <1>2, RunsExist
<1> DEFINE m == Len(s)
           n == Len(t)
           u == s \o t
           h == [i \in 0..(m + n) |-> IF i <= m THEN f[i] ELSE g[i - m]]
<1>4. /\ m \in Nat /\ n \in Nat /\ u \in Seq(Ops) /\ Len(u) = m + n
      /\ \A i \in 1..(m + n) : u[i] = IF i <= m THEN s[i] ELSE t[i - m]
  OBVIOUS
<1>5. /\ \A i \in 0..m : f[i] \in Batches
      /\ \A i \in 0..n : g[i] \in Batches
      /\ g[0] = f[m] /\ f[0] = rows
  BY <1>1, <1>2, <1>3 DEF Runs
<1>6. Runs(h, u, rows)
  <2>1. h \in [0..(m + n) -> Batches]
    <3>1. ASSUME NEW i \in 0..(m + n) PROVE h[i] \in Batches
      <4>1. i <= m => i \in 0..m
        BY <1>4
      <4>2. ~(i <= m) => i - m \in 0..n
        BY <1>4
      <4>3. h[i] = IF i <= m THEN f[i] ELSE g[i - m]
        OBVIOUS
      <4> HIDE DEF h, m, n
      <4> QED
        BY <1>5, <4>1, <4>2, <4>3
    <3> QED
      BY <3>1
  <2>2. h[0] = rows
    BY <1>4, <1>5
  <2>3. ASSUME NEW i \in 1..(m + n) PROVE h[i] = Meaning(u[i], h[i - 1])
    <3>1. CASE i <= m
      <4>1. i \in 1..m /\ h[i] = f[i] /\ h[i - 1] = f[i - 1] /\ u[i] = s[i]
        BY <1>4, <3>1
      <4> QED
        BY <1>1, <4>1 DEF Runs
    <3>2. CASE ~(i <= m)
      <4>1. i - m \in 1..n /\ h[i] = g[i - m] /\ u[i] = t[i - m]
        BY <1>4, <3>2
      <4>2. h[i - 1] = g[(i - m) - 1]
        <5>1. CASE i - 1 = m
          <6>1. h[i - 1] = f[m] /\ (i - m) - 1 = 0
            BY <1>4, <5>1
          <6> QED
            BY <1>5, <6>1
        <5>2. CASE i - 1 # m
          BY <1>4, <3>2, <5>2
        <5> QED
          BY <5>1, <5>2
      <4>3. g[i - m] = Meaning(t[i - m], g[(i - m) - 1])
        BY <1>3, <4>1 DEF Runs
      <4> HIDE DEF h, u, m, n
      <4> QED
        BY <4>1, <4>2, <4>3
    <3> QED
      BY <3>1, <3>2
  <2> HIDE DEF h, u
  <2> QED
    BY <1>4, <2>1, <2>2, <2>3 DEF Runs
<1>7. Sequential(u, rows) = h[m + n]
  <2> HIDE DEF h, u
  <2> QED
    BY <1>4, <1>6, RunsEnd
<1>8. Sequential(t, Sequential(s, rows)) = g[n]
  BY <1>2, <1>3, RunsEnd
<1>9. h[m + n] = g[n]
  <2>1. CASE n = 0
    <3>1. h[m + n] = f[m]
      BY <1>4, <2>1
    <3> QED
      BY <1>5, <2>1, <3>1
  <2>2. CASE n # 0
    BY <1>4, <2>2
  <2> QED
    BY <2>1, <2>2
<1> QED
  BY <1>7, <1>8, <1>9

LEMMA SequentialOne ==
    ASSUME NEW op \in Ops, NEW rows \in Batches
    PROVE  Sequential(<<op>>, rows) = Meaning(op, rows)
<1>1. << >> \in Seq(Ops) /\ << >> \o <<op>> = <<op>>
  OBVIOUS
<1>2. Sequential(<< >> \o <<op>>, rows) = Meaning(op, Sequential(<< >>, rows))
  BY <1>1, SequentialAppend
<1> QED
  BY <1>1, <1>2, SequentialEmpty

LEMMA OperatorKinds ==
    /\ Filters \subseteq Basic /\ Safe \subseteq Basic /\ Basic \subseteq Ops
    /\ Safe \cap Filters = {} /\ Safe \subseteq Ops /\ Filters \subseteq Ops
BY OperatorsAssumption DEF Basic

(* Operators that contain no others.                                       *)
LEMMA SequentialBasic ==
    ASSUME NEW s \in Seq(Basic), NEW rows \in Batches
    PROVE  Sequential(s, rows) = InTurn(s, rows)
<1>1. PICK f : Turns(f, s, rows)
  BY TurnsExist
<1>2. s \in Seq(Ops) /\ \A i \in 1..Len(s) : s[i] \in Basic
  BY OperatorKinds, ElementOfSeq
<1>3. Runs(f, s, rows)
  <2>1. \A i \in 1..Len(s) : Meaning(s[i], f[i - 1]) = ApplyOp(s[i], f[i - 1])
    BY <1>2 DEF Meaning, Basic
  <2> QED
    BY <1>1, <2>1 DEF Turns, Runs
<1> QED
  BY <1>1, <1>2, <1>3, TurnsEnd, RunsEnd

(* Rows without those of a set.                                            *)
Rest(D, rows) == [i \in DOMAIN rows |-> IF rows[i] \in D THEN << >> ELSE <<rows[i]>>]

LEMMA RestType ==
    ASSUME NEW D, NEW rows \in Batches
    PROVE  /\ Rest(D, rows) \in Seq(Seq(Rows)) /\ Len(Rest(D, rows)) = Len(rows)
           /\ DOMAIN rows = 1..Len(rows) /\ Len(rows) \in Nat
           /\ \A i \in 1..Len(rows) : rows[i] \in Rows
<1>1. /\ DOMAIN rows = 1..Len(rows) /\ Len(rows) \in Nat
      /\ \A i \in 1..Len(rows) : rows[i] \in Rows
  BY ElementOfSeq DEF Batches
<1>2. \A i \in 1..Len(rows) : (IF rows[i] \in D THEN << >> ELSE <<rows[i]>>) \in Seq(Rows)
  BY <1>1
<1>3. Rest(D, rows) \in [1..Len(rows) -> Seq(Rows)]
  BY <1>1, <1>2 DEF Rest
<1> QED
  BY <1>1, <1>3

LEMMA WithoutType ==
    ASSUME NEW D, NEW rows \in Batches
    PROVE  Without(D, rows) \in Batches
BY RestType, FlattenType DEF Without, Rest, Batches

LEMMA WithoutConcat ==
    ASSUME NEW D, NEW a \in Batches, NEW b \in Batches
    PROVE  Without(D, a \o b) = Without(D, a) \o Without(D, b)
<1>1. /\ a \o b \in Batches /\ Len(a \o b) = Len(a) + Len(b)
      /\ \A i \in 1..(Len(a) + Len(b)) : (a \o b)[i] = IF i <= Len(a) THEN a[i] ELSE b[i - Len(a)]
  BY DEF Batches
<1>2. /\ Rest(D, a) \in Seq(Seq(Rows)) /\ Len(Rest(D, a)) = Len(a)
      /\ Rest(D, b) \in Seq(Seq(Rows)) /\ Len(Rest(D, b)) = Len(b)
      /\ Rest(D, a \o b) \in Seq(Seq(Rows)) /\ Len(Rest(D, a \o b)) = Len(a) + Len(b)
      /\ DOMAIN a = 1..Len(a) /\ DOMAIN b = 1..Len(b) /\ Len(a) \in Nat /\ Len(b) \in Nat
      /\ DOMAIN (a \o b) = 1..(Len(a) + Len(b))
  BY <1>1, RestType
<1>3. Rest(D, a \o b) = Rest(D, a) \o Rest(D, b)
  <2>0. \A x, y \in Seq(Seq(Rows)) :
            /\ x \o y \in Seq(Seq(Rows)) /\ Len(x \o y) = Len(x) + Len(y)
            /\ \A i \in 1..(Len(x) + Len(y)) :
                  (x \o y)[i] = IF i <= Len(x) THEN x[i] ELSE y[i - Len(x)]
    BY ConcatProperties
  <2>1. /\ Rest(D, a) \o Rest(D, b) \in Seq(Seq(Rows))
        /\ Len(Rest(D, a) \o Rest(D, b)) = Len(a) + Len(b)
    BY <1>2, <2>0
  <2>2. ASSUME NEW i \in 1..(Len(a) + Len(b))
        PROVE  Rest(D, a \o b)[i] = (Rest(D, a) \o Rest(D, b))[i]
    <3>1. (Rest(D, a) \o Rest(D, b))[i] =
              IF i <= Len(a) THEN Rest(D, a)[i] ELSE Rest(D, b)[i - Len(a)]
      BY <1>2, <2>0, SMTT(30)
    <3>2. CASE i <= Len(a)
      <4>1. i \in DOMAIN a
        BY <1>2, <3>2
      <4> QED
        BY <1>1, <1>2, <3>1, <3>2, <4>1 DEF Rest
    <3>3. CASE ~(i <= Len(a))
      <4>1. i - Len(a) \in DOMAIN b
        BY <1>2, <3>3
      <4> QED
        BY <1>1, <1>2, <3>1, <3>3, <4>1 DEF Rest
    <3> QED
      BY <3>2, <3>3
  <2> QED
    BY <1>2, <2>1, <2>2, SeqEqual
<1>4. /\ Without(D, a \o b) = FlattenSeq(Rest(D, a \o b))
      /\ Without(D, a) = FlattenSeq(Rest(D, a)) /\ Without(D, b) = FlattenSeq(Rest(D, b))
  BY DEF Without, Rest
<1>5. FlattenSeq(Rest(D, a) \o Rest(D, b)) = FlattenSeq(Rest(D, a)) \o FlattenSeq(Rest(D, b))
  BY <1>2, FlattenConcat
<1> QED
  BY <1>3, <1>4, <1>5

LEMMA WithoutEmpty ==
    ASSUME NEW D
    PROVE  Without(D, << >>) = << >>
<1>1. Rest(D, << >>) = << >>
  BY DEF Rest
<1> QED
  BY <1>1 DEF Without, Rest, FlattenSeq

LEMMA WithoutOne ==
    ASSUME NEW D, NEW r \in Rows
    PROVE  Without(D, <<r>>) = IF r \in D THEN << >> ELSE <<r>>
<1> DEFINE item == IF r \in D THEN << >> ELSE <<r>>
           f == [i \in 0..1 |-> IF i = 0 THEN << >> ELSE item]
<1>1. item \in Seq(Rows) /\ << >> \in Seq(Rows)
  OBVIOUS
<1>2. /\ Rest(D, <<r>>) \in Seq(Seq(Rows)) /\ Len(Rest(D, <<r>>)) = 1
      /\ Rest(D, <<r>>)[1] = item
  <2>1. <<r>> \in Batches /\ Len(<<r>>) = 1 /\ 1 \in DOMAIN <<r>> /\ <<r>>[1] = r
    BY DEF Batches
  <2>2. Rest(D, <<r>>) \in Seq(Seq(Rows)) /\ Len(Rest(D, <<r>>)) = 1
    BY <2>1, RestType
  <2> QED
    BY <2>1, <2>2 DEF Rest
<1>3. f \in [0..1 -> Seq(Rows)]
  <2> HIDE DEF item
  <2> QED
    BY <1>1
<1>4. f[0] = << >> /\ f[1] = item
  OBVIOUS
<1>5. Joins(f, Rest(D, <<r>>))
  <2>1. << >> \o item = item
    <3> HIDE DEF item
    <3> QED
      BY <1>1
  <2>2. ASSUME NEW i \in 1..1 PROVE f[i] = f[i - 1] \o Rest(D, <<r>>)[i]
    <3>1. i = 1 /\ i - 1 = 0
      OBVIOUS
    <3> HIDE DEF f, item
    <3> QED
      BY <1>2, <1>4, <2>1, <3>1
  <2> HIDE DEF f, item
  <2> QED
    BY <1>2, <1>4, <2>2 DEF Joins
<1>6. FlattenSeq(Rest(D, <<r>>)) = f[1]
  <2> HIDE DEF f
  <2> QED
    BY <1>2, <1>3, <1>5, FlattenIs
<1> QED
  BY <1>4, <1>6 DEF Without, Rest

(* To drop the rows of one set and then of another.                        *)
LEMMA WithoutTwice ==
    ASSUME NEW D, NEW E, NEW rows \in Batches
    PROVE  Without(E, Without(D, rows)) = Without(D \cup E, rows)
<1> DEFINE n == Len(rows)
           Prefix(k) == SubSeq(rows, 1, k)
           f == [k \in 0..n |-> Without(E, Without(D, Prefix(k)))]
           ss == Rest(D \cup E, rows)
<1>1. /\ ss \in Seq(Seq(Rows)) /\ Len(ss) = n /\ n \in Nat /\ DOMAIN rows = 1..n
      /\ \A i \in 1..n : rows[i] \in Rows
  BY RestType
<1>2. ASSUME NEW k \in 0..n PROVE Prefix(k) \in Batches
  <2>1. \A i \in 1..k : rows[i] \in Rows
    <3> HIDE DEF n, f, ss
    <3> QED
      BY <1>1
  <2> QED
    BY <1>1, <2>1, SubSeqProperties DEF Batches
<1>3. f \in [0..n -> Seq(Rows)]
  <2>1. \A k \in 0..n : Without(E, Without(D, Prefix(k))) \in Seq(Rows)
    <3> HIDE DEF Prefix, n
    <3> QED
      BY <1>2, WithoutType DEF Batches
  <2> QED
    BY <2>1
<1>4. f[0] = << >>
  <2>1. Prefix(0) = << >>
    BY SubSeqEmpty
  <2>2. f[0] = Without(E, Without(D, Prefix(0)))
    BY <1>1
  <2> HIDE DEF f, Prefix
  <2> QED
    BY <2>1, <2>2, WithoutEmpty
<1>5. ASSUME NEW k \in 1..n PROVE f[k] = f[k - 1] \o ss[k]
  <2> DEFINE p == Prefix(k - 1)
             one == <<rows[k]>>
             item == IF rows[k] \in D \cup E THEN << >> ELSE one
  <2>1. Prefix(k) = p \o one
    <3>1. 1 \in 1..(Len(rows) + 1) /\ k - 1 \in (1 - 1)..Len(rows) /\ k \in (k - 1)..Len(rows)
      BY <1>1
    <3>2. SubSeq(rows, 1, k - 1) \o SubSeq(rows, (k - 1) + 1, k) = SubSeq(rows, 1, k)
      BY <3>1, ConcatAdjacentSubSeq DEF Batches
    <3>3. (k - 1) + 1 = k /\ k \in Int
      BY <1>1
    <3>4. SubSeq(rows, k, k) = one
      <4>1. k \in 1..Len(rows) /\ k \in k..Len(rows) /\ k \in Int /\ k + 1 \in Int /\ k < k + 1
        BY <1>1
      <4>2. SubSeq(rows, k, k) = <<rows[k]>> \o SubSeq(rows, k + 1, k)
        BY <4>1, SubSeqRecursiveFirst DEF Batches
      <4>3. SubSeq(rows, k + 1, k) = << >>
        BY <4>1, SubSeqEmpty
      <4>4. rows[k] \in Rows
        BY <1>1
      <4>5. \A r \in Rows : <<r>> \o << >> = <<r>>
        OBVIOUS
      <4> QED
        BY <4>2, <4>3, <4>4, <4>5
    <3> QED
      BY <3>2, <3>3, <3>4
  <2>2. p \in Batches /\ one \in Batches /\ rows[k] \in Rows
    <3>1. k - 1 \in 0..n
      BY <1>1
    <3>2. rows[k] \in Rows
      BY <1>1
    <3> QED
      BY <1>2, <3>1, <3>2 DEF Batches
  <2>3. Without(D, p \o one) = Without(D, p) \o Without(D, one)
    <3> HIDE DEF p, one
    <3> QED
      BY <2>2, WithoutConcat
  <2>4. Without(D, p) \in Batches /\ Without(D, one) \in Batches
    <3> HIDE DEF p, one
    <3> QED
      BY <2>2, WithoutType
  <2>5. Without(E, Without(D, p \o one)) = Without(E, Without(D, p)) \o Without(E, Without(D, one))
    <3> HIDE DEF p, one
    <3> QED
      BY <2>3, <2>4, WithoutConcat
  <2>6. Without(E, Without(D, one)) = item
    <3>1. Without(D, one) = IF rows[k] \in D THEN << >> ELSE one
      BY <2>2, WithoutOne
    <3>2. Without(E, one) = IF rows[k] \in E THEN << >> ELSE one
      BY <2>2, WithoutOne
    <3> HIDE DEF one
    <3> QED
      BY <3>1, <3>2, WithoutEmpty
  <2>7. ss[k] = item
    BY <1>1 DEF Rest
  <2>8. f[k] = Without(E, Without(D, Prefix(k))) /\ f[k - 1] = Without(E, Without(D, p))
    BY <1>1
  <2> HIDE DEF f, p, one, item, Prefix, ss
  <2> QED
    BY <2>1, <2>5, <2>6, <2>7, <2>8
<1>6. FlattenSeq(ss) = f[n]
  <2> HIDE DEF f, ss
  <2>1. Joins(f, ss)
    BY <1>1, <1>4, <1>5 DEF Joins
  <2> QED
    BY <1>1, <1>3, <2>1, FlattenIs
<1>7. f[n] = Without(E, Without(D, rows))
  <2>1. Prefix(n) = rows
    BY SubSeqFull DEF Batches
  <2>2. n \in 0..n
    BY <1>1
  <2>3. f[n] = Without(E, Without(D, Prefix(n)))
    BY <2>2
  <2> QED
    BY <2>1, <2>3
<1> QED
  BY <1>6, <1>7 DEF Without, Rest

LEMMA WithoutNone ==
    ASSUME NEW rows \in Batches
    PROVE  Without({}, rows) = rows
<1> DEFINE n == Len(rows)
           f == [k \in 0..n |-> SubSeq(rows, 1, k)]
           ss == Rest({}, rows)
<1>1. /\ ss \in Seq(Seq(Rows)) /\ Len(ss) = n /\ n \in Nat /\ DOMAIN rows = 1..n
      /\ \A i \in 1..n : rows[i] \in Rows
  BY RestType
<1>2. ASSUME NEW k \in 0..n PROVE SubSeq(rows, 1, k) \in Seq(Rows)
  <2>1. \A i \in 1..k : rows[i] \in Rows
    <3> HIDE DEF n, f, ss
    <3> QED
      BY <1>1
  <2> QED
    BY <1>1, <2>1, SubSeqProperties
<1>3. f \in [0..n -> Seq(Rows)]
  BY <1>2
<1>4. f[0] = << >>
  <2>1. f[0] = SubSeq(rows, 1, 0)
    BY <1>1
  <2> QED
    BY <2>1, SubSeqEmpty
<1>5. ASSUME NEW k \in 1..n PROVE f[k] = f[k - 1] \o ss[k]
  <2>1. 1 \in 1..Len(rows) /\ k \in 1..Len(rows)
    BY <1>1
  <2>2. SubSeq(rows, 1, k) = SubSeq(rows, 1, k - 1) \o <<rows[k]>>
    BY <2>1, SubSeqRecursiveSecond DEF Batches
  <2>3. ss[k] = <<rows[k]>>
    BY <1>1 DEF Rest
  <2>4. f[k] = SubSeq(rows, 1, k) /\ f[k - 1] = SubSeq(rows, 1, k - 1)
    BY <1>1, SMTT(30)
  <2> HIDE DEF f, ss
  <2> QED
    BY <2>2, <2>3, <2>4
<1>6. FlattenSeq(ss) = f[n]
  <2> HIDE DEF f, ss
  <2>1. Joins(f, ss)
    BY <1>1, <1>4, <1>5 DEF Joins
  <2> QED
    BY <1>1, <1>3, <2>1, FlattenIs
<1>7. f[n] = rows
  <2>1. n \in 0..n
    BY <1>1
  <2>2. f[n] = SubSeq(rows, 1, n)
    BY <2>1
  <2> QED
    BY <2>2, SubSeqFull DEF Batches
<1> QED
  BY <1>6, <1>7 DEF Without, Rest

LEMMA FilterDrops ==
    ASSUME NEW op \in Filters, NEW rows
    PROVE  ApplyOp(op, rows) = Without(Drops[op], rows)
BY DEF ApplyOp, Results, Without

Dropped(s) == UNION {Drops[s[i]] : i \in DOMAIN s}

(* Filters one after the other drop what any of them drops.                *)
LEMMA FiltersTogether ==
    ASSUME NEW s \in Seq(Filters), NEW rows \in Batches
    PROVE  Sequential(s, rows) = Without(Dropped(s), rows)
<1> DEFINE n == Len(s)
           Upto(k) == UNION {Drops[s[i]] : i \in 1..k}
           f == [k \in 0..n |-> Without(Upto(k), rows)]
<1>1. /\ n \in Nat /\ DOMAIN s = 1..n /\ s \in Seq(Ops)
      /\ \A i \in 1..n : s[i] \in Filters
  BY ElementOfSeq, OperatorKinds
<1>2. f \in [0..n -> Batches]
  <2>1. \A k \in 0..n : Without(Upto(k), rows) \in Batches
    <3> HIDE DEF Upto
    <3> QED
      BY WithoutType
  <2> QED
    BY <2>1
<1>3. f[0] = rows
  <2>1. Upto(0) = {}
    OBVIOUS
  <2>2. f[0] = Without(Upto(0), rows)
    BY <1>1
  <2> QED
    BY <2>1, <2>2, WithoutNone
<1>4. ASSUME NEW k \in 1..n PROVE f[k] = Meaning(s[k], f[k - 1])
  <2>1. s[k] \in Filters /\ s[k] \notin DOMAIN Parts
    BY <1>1, OperatorKinds DEF Basic
  <2>2. Upto(k) = Upto(k - 1) \cup Drops[s[k]]
    <3>1. 1..k = 1..(k - 1) \cup {k}
      BY <1>1
    <3> QED
      BY <3>1
  <2>3. f[k] = Without(Upto(k), rows) /\ f[k - 1] = Without(Upto(k - 1), rows)
    BY <1>1
  <2> HIDE DEF f, Upto
  <2>4. Meaning(s[k], f[k - 1]) = Without(Drops[s[k]], f[k - 1])
    BY <2>1, FilterDrops DEF Meaning
  <2> QED
    BY <2>2, <2>3, <2>4, WithoutTwice
<1>5. Runs(f, s, rows)
  <2> HIDE DEF f
  <2> QED
    BY <1>2, <1>3, <1>4 DEF Runs
<1>6. Sequential(s, rows) = f[n]
  <2> HIDE DEF f
  <2> QED
    BY <1>1, <1>5, RunsEnd
<1>7. f[n] = Without(Upto(n), rows)
  BY <1>1
<1> QED
  BY <1>1, <1>6, <1>7 DEF Dropped

(* Operators that may run as one.                                          *)
Stage ==
    {s \in Seq(Ops) : s # << >> /\ (Len(s) = 1 \/ s \in Seq(Filters) \/ s \in Seq(Safe))}

(* A stage, however it runs, does what its operators mean.                 *)
THEOREM StagesAgree ==
    ASSUME NEW s \in Stage, NEW rows \in Batches
    PROVE  RunStage(s, rows) = Sequential(s, rows)
<1>1. s \in Seq(Ops) /\ s # << >> /\ Len(s) \in Nat /\ Len(s) >= 1
  BY DEF Stage
<1>2. CASE Len(s) = 1
  <2>1. PICK op \in Ops : s = <<op>>
    <3>1. s[1] \in Ops /\ s = <<s[1]>>
      BY <1>1, <1>2
    <3> QED
      BY <3>1
  <2> QED
    BY <2>1, SingleStage, SequentialOne
<1>3. CASE Len(s) # 1 /\ s \in Seq(Filters)
  <2>1. Head(s) \in Filters /\ Len(s) > 1
    <3>1. Head(s) \in Filters
      BY <1>1, <1>3, HeadTailProperties
    <3>2. Len(s) > 1
      <4>1. \A l \in Nat : l >= 1 /\ l # 1 => l > 1
        OBVIOUS
      <4> QED
        BY <1>1, <1>3, <4>1
    <3> QED
      BY <3>1, <3>2
  <2>2. RunStage(s, rows) = Without(Dropped(s), rows)
    BY <2>1 DEF RunStage, FusedFilter, Dropped
  <2> QED
    BY <1>3, <2>2, FiltersTogether
<1>4. CASE Len(s) # 1 /\ s \in Seq(Safe)
  <2>1. Head(s) \in Safe /\ Len(s) > 1
    <3>1. Head(s) \in Safe
      BY <1>1, <1>4, HeadTailProperties
    <3>2. Len(s) > 1
      <4>1. \A l \in Nat : l >= 1 /\ l # 1 => l > 1
        OBVIOUS
      <4> QED
        BY <1>1, <1>4, <4>1
    <3> QED
      BY <3>1, <3>2
  <2>2. Head(s) \notin Filters
    BY <2>1, OperatorKinds
  <2>3. s \in Seq(Basic)
    BY <1>4, OperatorKinds
  <2>4. RunStage(s, rows) = InBatches(s, rows)
    BY <2>1, <2>2 DEF RunStage
  <2> QED
    BY <2>3, <2>4, BatchesAgree, SequentialBasic
<1> QED
  BY <1>2, <1>3, <1>4 DEF Stage

-----------------------------------------------------------------------------
(* A group of filters, fused and reordered.                                *)

Values(s) == {s[i] : i \in DOMAIN s}

LEMMA ConcatValues ==
    ASSUME NEW X, NEW s \in Seq(X), NEW t \in Seq(X)
    PROVE  Values(s \o t) = Values(s) \cup Values(t)
<1> DEFINE m == Len(s)
           n == Len(t)
           u == s \o t
<1>1. /\ m \in Nat /\ n \in Nat /\ DOMAIN s = 1..m /\ DOMAIN t = 1..n
      /\ DOMAIN u = 1..(m + n)
      /\ \A i \in 1..(m + n) : u[i] = IF i <= m THEN s[i] ELSE t[i - m]
  OBVIOUS
<1>2. ASSUME NEW i \in 1..(m + n) PROVE u[i] \in Values(s) \cup Values(t)
  <2>1. (i <= m => i \in 1..m) /\ (~(i <= m) => i - m \in 1..n)
    BY <1>1
  <2> HIDE DEF u, m, n
  <2> QED
    BY <1>1, <2>1 DEF Values
<1>3. ASSUME NEW i \in 1..m PROVE s[i] \in Values(u)
  <2>1. i \in 1..(m + n) /\ i <= m
    BY <1>1
  <2> HIDE DEF u, m, n
  <2> QED
    BY <1>1, <2>1 DEF Values
<1>4. ASSUME NEW i \in 1..n PROVE t[i] \in Values(u)
  <2>1. i + m \in 1..(m + n) /\ ~(i + m <= m) /\ (i + m) - m = i
    BY <1>1
  <2> HIDE DEF u, m, n
  <2> QED
    BY <1>1, <2>1 DEF Values
<1> HIDE DEF u, m, n
<1>5. Values(u) = Values(s) \cup Values(t)
  <2>1. /\ Values(u) = {u[i] : i \in 1..(m + n)} /\ Values(s) = {s[i] : i \in 1..m}
        /\ Values(t) = {t[i] : i \in 1..n}
    BY <1>1 DEF Values
  <2>2. Values(u) \subseteq Values(s) \cup Values(t)
    BY <1>2, <2>1
  <2>3. Values(s) \subseteq Values(u) /\ Values(t) \subseteq Values(u)
    BY <1>3, <1>4, <2>1
  <2> QED
    BY <2>2, <2>3
<1> QED
  BY <1>5 DEF u

LEMMA FlattenValues ==
    ASSUME NEW X, NEW ss \in Seq(Seq(X))
    PROVE  Values(FlattenSeq(ss)) = UNION {Values(ss[i]) : i \in DOMAIN ss}
<1>1. PICK f \in [0..Len(ss) -> Seq(X)] : Joins(f, ss)
  BY JoinExists
<1> DEFINE n == Len(ss)
           S == {k \in 0..n : Values(f[k]) = UNION {Values(ss[i]) : i \in 1..k}}
<1>2. n \in Nat /\ DOMAIN ss = 1..n /\ \A i \in 1..n : ss[i] \in Seq(X)
  BY ElementOfSeq
<1>3. 0 \in S
  <2>1. f[0] = << >> /\ 0 \in 0..n
    BY <1>1, <1>2 DEF Joins
  <2>2. Values(<< >>) = {}
    BY DEF Values
  <2>3. UNION {Values(ss[i]) : i \in 1..0} = {}
    OBVIOUS
  <2> QED
    BY <2>1, <2>2, <2>3
<1>4. ASSUME NEW k \in 1..n, k - 1 \in S PROVE k \in S
  <2>1. f[k] = f[k - 1] \o ss[k]
    BY <1>1 DEF Joins
  <2>2. f[k - 1] \in Seq(X) /\ ss[k] \in Seq(X)
    <3>1. k - 1 \in 0..n /\ f \in [0..n -> Seq(X)]
      BY <1>2
    <3> HIDE DEF n
    <3> QED
      BY <1>2, <3>1
  <2>3. Values(f[k]) = Values(f[k - 1]) \cup Values(ss[k])
    BY <2>1, <2>2, ConcatValues
  <2>4. 1..k = 1..(k - 1) \cup {k} /\ k \in 0..n
    BY <1>2
  <2>5. UNION {Values(ss[i]) : i \in 1..k}
            = UNION {Values(ss[i]) : i \in 1..(k - 1)} \cup Values(ss[k])
    <3>1. 1..k = 1..(k - 1) \cup {k}
      BY <2>4
    <3> HIDE DEF n, S
    <3> QED
      BY <3>1
  <2>6. Values(f[k - 1]) = UNION {Values(ss[i]) : i \in 1..(k - 1)}
    BY <1>4
  <2>7. Values(f[k]) = UNION {Values(ss[i]) : i \in 1..k}
    <3> HIDE DEF n, S
    <3> QED
      BY <2>3, <2>5, <2>6
  <2> HIDE DEF n
  <2> QED
    BY <2>4, <2>7, Zenon
<1>5. S = 0..n
  <2> HIDE DEF S
  <2>1. S \in SUBSET (0..n)
    BY DEF S
  <2> HIDE DEF n
  <2> QED
    BY <1>2, <1>3, <1>4, <2>1, UpFromZero
<1>6. n \in S
  <2>1. n \in 0..n
    BY <1>2
  <2> HIDE DEF n, S
  <2> QED
    BY <1>5, <2>1
<1>7. FlattenSeq(ss) = f[n]
  BY <1>1, FlattenIs
<1> HIDE DEF n
<1> QED
  BY <1>2, <1>6, <1>7

(* The places before i in the order of their costs.                        *)
Earlier(i, D, cost) == {j \in D : cost[j] < cost[i] \/ (cost[j] = cost[i] /\ j < i)}

LEMMA EveryRankTaken ==
    ASSUME NEW n \in Nat, NEW cost \in [1..n -> Nat]
    PROVE  /\ \A k \in 1..n : \E i \in 1..n : Cardinality(Earlier(i, 1..n, cost)) = k - 1
           /\ \A i \in 1..n : Cardinality(Earlier(i, 1..n, cost)) + 1 \in 1..n
           /\ \A i, j \in 1..n :
                 Cardinality(Earlier(i, 1..n, cost)) = Cardinality(Earlier(j, 1..n, cost)) => i = j
<1> DEFINE E(i) == Earlier(i, 1..n, cost)
           rank == [i \in 1..n |-> Cardinality(E(i))]
<1>1. IsFiniteSet(1..n) /\ Cardinality(1..n) = n
  BY FS_Interval
<1>2. \A i \in 1..n : cost[i] \in Nat
  OBVIOUS
<1>3. ASSUME NEW i \in 1..n
      PROVE  IsFiniteSet(E(i)) /\ Cardinality(E(i)) \in Nat /\ Cardinality(E(i)) + 1 \in 1..n
  <2>1. E(i) \in SUBSET ((1..n) \ {i})
    <3>1. ~(cost[i] < cost[i])
      BY <1>2
    <3> QED
      BY <3>1 DEF Earlier
  <2>2. IsFiniteSet((1..n) \ {i}) /\ Cardinality((1..n) \ {i}) = n - 1
    BY <1>1, FS_RemoveElement
  <2>3. IsFiniteSet(E(i)) /\ Cardinality(E(i)) <= n - 1
    <3> HIDE DEF E
    <3> QED
      BY <2>1, <2>2, FS_Subset
  <2>4. Cardinality(E(i)) \in Nat
    BY <2>3, FS_CardinalityType
  <2> HIDE DEF E
  <2> QED
    BY <2>3, <2>4
<1>4. ASSUME NEW i \in 1..n, NEW j \in 1..n, i \in E(j)
      PROVE  Cardinality(E(i)) < Cardinality(E(j))
  <2>1. cost[i] < cost[j] \/ (cost[i] = cost[j] /\ i < j)
    BY <1>4 DEF Earlier
  <2>2. E(i) \subseteq E(j)
    <3> SUFFICES ASSUME NEW l \in E(i) PROVE l \in E(j)
      OBVIOUS
    <3>1. l \in 1..n /\ (cost[l] < cost[i] \/ (cost[l] = cost[i] /\ l < i))
      BY DEF Earlier
    <3>2. cost[l] \in Nat /\ cost[i] \in Nat /\ cost[j] \in Nat
      BY <1>2, <3>1
    <3>3. cost[l] < cost[j] \/ (cost[l] = cost[j] /\ l < j)
      BY <2>1, <3>1, <3>2
    <3> QED
      BY <3>1, <3>3 DEF Earlier
  <2>3. i \notin E(i)
    <3>1. ~(cost[i] < cost[i])
      BY <1>2
    <3> QED
      BY <3>1 DEF Earlier
  <2>4. IsFiniteSet(E(j)) /\ E(i) \in SUBSET E(j) /\ E(i) # E(j)
    BY <1>3, <1>4, <2>2, <2>3
  <2>5. Cardinality(E(i)) <= Cardinality(E(j)) /\ Cardinality(E(i)) # Cardinality(E(j))
    <3> HIDE DEF E
    <3> QED
      BY <2>4, FS_Subset
  <2>6. Cardinality(E(i)) \in Nat /\ Cardinality(E(j)) \in Nat
    BY <1>3
  <2> HIDE DEF E
  <2> QED
    BY <2>5, <2>6
<1>5. ASSUME NEW i \in 1..n, NEW j \in 1..n, i # j
      PROVE  Cardinality(E(i)) # Cardinality(E(j))
  <2>1. cost[i] \in Nat /\ cost[j] \in Nat
    BY <1>2
  <2>2. i \in E(j) \/ j \in E(i)
    BY <1>5, <2>1 DEF Earlier
  <2>3. Cardinality(E(i)) \in Nat /\ Cardinality(E(j)) \in Nat
    BY <1>3
  <2>4. Cardinality(E(i)) < Cardinality(E(j)) \/ Cardinality(E(j)) < Cardinality(E(i))
    BY <1>4, <2>2
  <2> HIDE DEF E
  <2> QED
    BY <2>3, <2>4
<1> DEFINE R == 0..(n - 1)
<1>6. rank \in [1..n -> R]
  <2>1. \A i \in 1..n : Cardinality(E(i)) \in R
    <3> HIDE DEF E
    <3> QED
      BY <1>3
  <2> HIDE DEF E, R
  <2> QED
    BY <2>1
<1>7. rank \in Injection(1..n, R)
  <2>1. \A i, j \in 1..n : rank[i] = rank[j] => i = j
    <3> HIDE DEF E
    <3> QED
      BY <1>5
  <2> HIDE DEF rank, R
  <2> QED
    BY <1>6, <2>1 DEF Injection, IsInjective
<1>8. IsFiniteSet(R) /\ Cardinality(R) = n
  <2>1. 0 \in Int /\ n - 1 \in Int /\ (IF 0 > n - 1 THEN 0 ELSE (n - 1) - 0 + 1) = n
    OBVIOUS
  <2> QED
    BY <2>1, FS_Interval
<1>9. rank \in Surjection(1..n, R)
  <2> HIDE DEF rank, R
  <2> QED
    BY <1>1, <1>7, <1>8, FS_Injection
<1>10. ASSUME NEW k \in 1..n PROVE \E i \in 1..n : Cardinality(E(i)) = k - 1
  <2>1. k - 1 \in R
    OBVIOUS
  <2>2. \E i \in 1..n : rank[i] = k - 1
    <3> HIDE DEF rank, R
    <3> QED
      BY <1>9, <2>1 DEF Surjection
  <2> HIDE DEF E
  <2> QED
    BY <2>2
<1>11. \A i \in 1..n : Cardinality(E(i)) + 1 \in 1..n
  BY <1>3
<1>12. \A i, j \in 1..n : Cardinality(E(i)) = Cardinality(E(j)) => i = j
  <2> HIDE DEF E
  <2> QED
    BY <1>5
<1> QED
  BY <1>10, <1>11, <1>12

LEMMA StageTimeType ==
    ASSUME NEW s \in Seq(Ops), NEW time \in [Ops -> Nat]
    PROVE  StageTime(s, time) \in Nat
<1> DEFINE n == Len(s)
           g == [i \in 1..n |-> [x \in Nat |-> x + time[s[i]]]]
           Step(h) == h = [i \in 0..n |-> IF i = 0 THEN 0 ELSE h[i - 1] + time[s[i]]]
           sum == CHOOSE h : Step(h)
           S == {k \in 0..n : sum[k] \in Nat}
<1>1. n \in Nat /\ \A i \in 1..n : time[s[i]] \in Nat
  BY ElementOfSeq
<1>2. g \in [1..n -> [Nat -> Nat]]
  <2>1. \A v \in Nat : [x \in Nat |-> x + v] \in [Nat -> Nat]
    OBVIOUS
  <2> HIDE DEF n
  <2> QED
    BY <1>1, <2>1
<1>3. PICK f \in [0..n -> Nat] : Chain(f, n, g, 0)
  <2> HIDE DEF n, g
  <2> QED
    BY <1>1, <1>2, ChainsExist
<1>4. Step(f)
  <2>1. f = [i \in 0..n |-> f[i]]
    OBVIOUS
  <2>2. \A i \in 0..n : f[i] = IF i = 0 THEN 0 ELSE g[i][f[i - 1]]
    <3> HIDE DEF g
    <3> QED
      BY <1>3 DEF Chain
  <2>3. ASSUME NEW i \in 0..n, i # 0 PROVE g[i][f[i - 1]] = f[i - 1] + time[s[i]]
    <3>1. i \in 1..n /\ i - 1 \in 0..n
      BY <1>1, <2>3
    <3>2. f[i - 1] \in Nat
      BY <3>1
    <3> HIDE DEF n
    <3> QED
      BY <3>1, <3>2
  <2> HIDE DEF g
  <2> QED
    BY <2>1, <2>2, <2>3
<1>5. Step(sum)
  <2> HIDE DEF Step
  <2> QED
    BY <1>4
<1> HIDE DEF sum
<1>6. \A i \in 0..n : sum[i] = IF i = 0 THEN 0 ELSE sum[i - 1] + time[s[i]]
  BY <1>5
<1>7. 0 \in S
  BY <1>1, <1>6
<1>8. ASSUME NEW k \in 1..n, k - 1 \in S PROVE k \in S
  <2>1. k \in 0..n /\ k # 0 /\ sum[k - 1] \in Nat
    BY <1>1, <1>8
  <2>2. sum[k] = sum[k - 1] + time[s[k]] /\ time[s[k]] \in Nat
    <3> HIDE DEF n, S
    <3> QED
      BY <1>1, <1>6, <2>1
  <2>3. sum[k] \in Nat
    BY <2>1, <2>2
  <2> QED
    BY <2>1, <2>3
<1>9. S = 0..n
  <2> HIDE DEF S
  <2>1. S \in SUBSET (0..n)
    BY DEF S
  <2> HIDE DEF n
  <2> QED
    BY <1>1, <1>7, <1>8, <2>1, UpFromZero
<1>10. StageTime(s, time) = sum[n]
  BY DEF StageTime, sum
<1> QED
  BY <1>1, <1>9, <1>10

(* Sorting leaves the stages as they are.                                  *)
LEMMA BySpeedValues ==
    ASSUME NEW X \in SUBSET Seq(Ops), NEW stages \in Seq(X), NEW time \in [Ops -> Nat]
    PROVE  /\ BySpeed(stages, time) \in Seq(X)
           /\ Values(BySpeed(stages, time)) = Values(stages)
<1> DEFINE n == Len(stages)
           D == DOMAIN stages
           cost == [i \in D |-> StageTime(stages[i], time)]
           Place(k) == CHOOSE i \in D : Cardinality(Earlier(i, D, cost)) = k - 1
           b == BySpeed(stages, time)
<1>1. n \in Nat /\ D = 1..n /\ \A i \in 1..n : stages[i] \in X
  BY ElementOfSeq
<1>2. cost \in [1..n -> Nat]
  <2>1. \A i \in 1..n : StageTime(stages[i], time) \in Nat
    BY <1>1, StageTimeType
  <2> HIDE DEF n, D
  <2> QED
    BY <1>1, <2>1
<1>3. b = [k \in D |-> stages[Place(k)]]
  BY DEF BySpeed, Earlier
<1> HIDE DEF cost, D, n
<1>4. /\ \A k \in 1..n : \E i \in 1..n : Cardinality(Earlier(i, D, cost)) = k - 1
      /\ \A i \in 1..n : Cardinality(Earlier(i, D, cost)) + 1 \in 1..n
      /\ \A i, j \in 1..n :
            Cardinality(Earlier(i, D, cost)) = Cardinality(Earlier(j, D, cost)) => i = j
  BY <1>1, <1>2, EveryRankTaken
<1>5. ASSUME NEW k \in 1..n
      PROVE  Place(k) \in 1..n /\ Cardinality(Earlier(Place(k), D, cost)) = k - 1
  BY <1>1, <1>4
<1> HIDE DEF Place, b
<1>6. DOMAIN b = 1..n /\ \A k \in 1..n : b[k] = stages[Place(k)]
  BY <1>1, <1>3
<1>7. b \in Seq(X)
  <2>1. \A k \in 1..n : b[k] \in X
    BY <1>1, <1>5, <1>6
  <2>2. b = [k \in 1..n |-> b[k]]
    BY <1>1, <1>3, <1>6
  <2>3. b \in [1..n -> X]
    BY <2>1, <2>2
  <2> QED
    BY <1>1, <2>3
<1>8. \A k \in 1..n : b[k] \in Values(stages)
  BY <1>1, <1>5, <1>6 DEF Values, D
<1>9. ASSUME NEW i \in 1..n PROVE stages[i] \in Values(b)
  <2> DEFINE k == Cardinality(Earlier(i, D, cost)) + 1
  <2>1. k \in 1..n
    BY <1>4
  <2>2. Cardinality(Earlier(i, D, cost)) \in Int
    <3>1. Earlier(i, D, cost) \in SUBSET (1..n)
      BY <1>1 DEF Earlier
    <3> QED
      <4>1. IsFiniteSet(1..n)
        BY <1>1, FS_Interval
      <4>2. IsFiniteSet(Earlier(i, D, cost))
        BY <3>1, <4>1, FS_Subset
      <4>3. \A m \in Nat : m \in Int
        OBVIOUS
      <4> QED
        BY <4>2, <4>3, FS_CardinalityType
  <2>3. Cardinality(Earlier(Place(k), D, cost)) = Cardinality(Earlier(i, D, cost))
    <3>1. Cardinality(Earlier(Place(k), D, cost)) = k - 1
      <4> HIDE DEF k
      <4> QED
        BY <1>5, <2>1
    <3> QED
      BY <2>2, <3>1
  <2>4. Place(k) = i
    BY <1>4, <1>5, <2>1, <2>3
  <2> HIDE DEF k
  <2> QED
    BY <1>6, <2>1, <2>4 DEF Values
<1>10. Values(b) = Values(stages)
  <2>1. Values(b) = {b[k] : k \in 1..n} /\ Values(stages) = {stages[k] : k \in 1..n}
    BY <1>1, <1>6 DEF Values, D
  <2> QED
    BY <1>8, <1>9, <2>1
<1> QED
  BY <1>7, <1>10 DEF b

LEMMA SinglesFlatten ==
    ASSUME NEW X, NEW s \in Seq(X)
    PROVE  /\ Singles(s) \in Seq(Seq(X)) /\ Len(Singles(s)) = Len(s)
           /\ \A i \in 1..Len(s) : Singles(s)[i] = <<s[i]>>
           /\ FlattenSeq(Singles(s)) = s
<1> DEFINE n == Len(s)
           f == [k \in 0..n |-> SubSeq(s, 1, k)]
           ss == Singles(s)
<1>1. n \in Nat /\ DOMAIN s = 1..n /\ \A i \in 1..n : s[i] \in X /\ <<s[i]>> \in Seq(X)
  BY ElementOfSeq
<1>2. ss \in [1..n -> Seq(X)] /\ \A i \in 1..n : ss[i] = <<s[i]>>
  <2> HIDE DEF n
  <2> QED
    BY <1>1 DEF Singles
<1>3. ss \in Seq(Seq(X)) /\ Len(ss) = n
  <2> HIDE DEF n, ss
  <2> QED
    BY <1>1, <1>2
<1>4. f \in [0..n -> Seq(X)]
  <2>1. ASSUME NEW k \in 0..n PROVE SubSeq(s, 1, k) \in Seq(X)
    <3>1. \A i \in 1..k : s[i] \in X
      <4> HIDE DEF n
      <4> QED
        BY <1>1
    <3> QED
      BY <1>1, <3>1, SubSeqProperties
  <2> QED
    BY <2>1
<1>5. f[0] = << >>
  <2>1. f[0] = SubSeq(s, 1, 0)
    BY <1>1
  <2> QED
    BY <2>1, SubSeqEmpty
<1>6. ASSUME NEW k \in 1..n PROVE f[k] = f[k - 1] \o ss[k]
  <2>1. 1 \in 1..Len(s) /\ k \in 1..Len(s)
    BY <1>1
  <2>2. SubSeq(s, 1, k) = SubSeq(s, 1, k - 1) \o <<s[k]>>
    BY <2>1, SubSeqRecursiveSecond
  <2>3. f[k] = SubSeq(s, 1, k) /\ f[k - 1] = SubSeq(s, 1, k - 1)
    BY <1>1
  <2> HIDE DEF f, ss
  <2> QED
    BY <1>2, <2>2, <2>3
<1>7. FlattenSeq(ss) = f[n]
  <2> HIDE DEF f, ss
  <2>1. Joins(f, ss)
    BY <1>3, <1>5, <1>6 DEF Joins
  <2> QED
    BY <1>3, <1>4, <2>1, FlattenIs
<1>8. f[n] = s
  <2>1. n \in 0..n
    BY <1>1
  <2>2. f[n] = SubSeq(s, 1, n)
    BY <2>1
  <2> QED
    BY <2>2, SubSeqFull
<1> HIDE DEF f
<1> QED
  BY <1>2, <1>3, <1>7, <1>8

(* Sequences of filters, none of them empty.                               *)
FilterGroups == {s \in Seq(Filters) : s # << >>}

(* The filters of a group with the intermediate variable v.                *)
Sharing(group, v) ==
    FlattenSeq([i \in DOMAIN group |->
                   IF SharedVar[group[i]] = v THEN <<group[i]>> ELSE << >>])

LEMMA SharingValues ==
    ASSUME NEW group \in Seq(Filters), NEW v
    PROVE  /\ Sharing(group, v) \in Seq(Filters)
           /\ \A x : x \in Values(Sharing(group, v)) <=> x \in Values(group) /\ SharedVar[x] = v
<1> DEFINE n == Len(group)
           ss == [i \in DOMAIN group |-> IF SharedVar[group[i]] = v THEN <<group[i]>> ELSE << >>]
<1>1. n \in Nat /\ DOMAIN group = 1..n /\ \A i \in 1..n : group[i] \in Filters
  BY ElementOfSeq
<1>2. ss \in Seq(Seq(Filters)) /\ DOMAIN ss = 1..n
  <2>1. \A i \in 1..n : (IF SharedVar[group[i]] = v THEN <<group[i]>> ELSE << >>) \in Seq(Filters)
    BY <1>1
  <2>2. ss \in [1..n -> Seq(Filters)]
    <3> HIDE DEF n
    <3> QED
      BY <1>1, <2>1
  <2> HIDE DEF n, ss
  <2> QED
    BY <1>1, <2>2
<1>3. \A i \in 1..n : Values(ss[i]) = IF SharedVar[group[i]] = v THEN {group[i]} ELSE {}
  <2>1. \A i \in 1..n : ss[i] = IF SharedVar[group[i]] = v THEN <<group[i]>> ELSE << >>
    BY <1>1
  <2>2. \A y : Values(<<y>>) = {y}
    BY DEF Values
  <2>3. Values(<< >>) = {}
    BY DEF Values
  <2> HIDE DEF ss, n
  <2> QED
    BY <2>1, <2>2, <2>3
<1>4. Values(FlattenSeq(ss)) = UNION {Values(ss[i]) : i \in 1..n}
  <2> HIDE DEF ss, n
  <2> QED
    BY <1>2, FlattenValues
<1>5. FlattenSeq(ss) \in Seq(Filters)
  <2> HIDE DEF ss
  <2> QED
    BY <1>2, FlattenType
<1>6. ASSUME NEW x
      PROVE  x \in Values(FlattenSeq(ss)) <=> x \in Values(group) /\ SharedVar[x] = v
  <2>1. Values(group) = {group[i] : i \in 1..n}
    BY <1>1 DEF Values
  <2> HIDE DEF ss, n
  <2>2. x \in Values(FlattenSeq(ss)) <=> \E i \in 1..n : x \in Values(ss[i])
    BY <1>4
  <2>3. x \in Values(FlattenSeq(ss)) <=> \E i \in 1..n : SharedVar[group[i]] = v /\ x = group[i]
    BY <1>3, <2>2
  <2> QED
    BY <2>1, <2>3
<1>7. Sharing(group, v) = FlattenSeq(ss)
  BY DEF Sharing
<1> HIDE DEF ss
<1> QED
  BY <1>5, <1>6, <1>7

(* The groups that share an intermediate variable.                         *)
SharedGroups(group) ==
    FlattenSeq([v \in SharedVars |->
                   IF Sharing(group, v) = << >> THEN << >> ELSE <<Sharing(group, v)>>])

LEMMA SharedGroupsValues ==
    ASSUME NEW group \in Seq(Filters)
    PROVE  /\ SharedGroups(group) \in Seq(FilterGroups)
           /\ \A s : s \in Values(SharedGroups(group)) <=>
                         s # << >> /\ \E v \in SharedVars : s = Sharing(group, v)
<1> DEFINE ss == [v \in SharedVars |->
                     IF Sharing(group, v) = << >> THEN << >> ELSE <<Sharing(group, v)>>]
<1>1. \A v \in SharedVars : Sharing(group, v) \in Seq(Filters)
  BY SharingValues
<1>2. ss \in Seq(Seq(FilterGroups)) /\ DOMAIN ss = SharedVars
  <2>1. ASSUME NEW v \in SharedVars
        PROVE  (IF Sharing(group, v) = << >> THEN << >> ELSE <<Sharing(group, v)>>) \in Seq(FilterGroups)
    <3>1. CASE Sharing(group, v) = << >>
      BY <3>1
    <3>2. CASE Sharing(group, v) # << >>
      <4>1. Sharing(group, v) \in FilterGroups
        BY <1>1, <3>2 DEF FilterGroups
      <4> QED
        BY <3>2, <4>1
    <3> QED
      BY <3>1, <3>2
  <2>2. ss \in [SharedVars -> Seq(FilterGroups)]
    BY <2>1
  <2>3. SharedVars = 1..6 /\ DOMAIN ss = SharedVars
    BY DEF SharedVars
  <2>4. ASSUME NEW m \in Nat, NEW X, NEW f \in [1..m -> X] PROVE f \in Seq(X)
    OBVIOUS
  <2>5. 6 \in Nat
    OBVIOUS
  <2> HIDE DEF ss
  <2>6. ss \in Seq(Seq(FilterGroups))
    BY <2>2, <2>3, <2>4, <2>5
  <2> QED
    BY <2>3, <2>6
<1>3. ASSUME NEW v \in SharedVars
      PROVE  Values(ss[v]) = IF Sharing(group, v) = << >> THEN {} ELSE {Sharing(group, v)}
  <2>1. ss[v] = IF Sharing(group, v) = << >> THEN << >> ELSE <<Sharing(group, v)>>
    OBVIOUS
  <2>2. \A y : Values(<<y>>) = {y}
    BY DEF Values
  <2>3. Values(<< >>) = {}
    BY DEF Values
  <2> HIDE DEF ss
  <2> QED
    BY <2>1, <2>2, <2>3
<1> HIDE DEF ss
<1>4. FlattenSeq(ss) \in Seq(FilterGroups)
  BY <1>2, FlattenType
<1>5. Values(FlattenSeq(ss)) = UNION {Values(ss[v]) : v \in SharedVars}
  BY <1>2, FlattenValues
<1>6. ASSUME NEW s
      PROVE  s \in Values(FlattenSeq(ss)) <=>
                 s # << >> /\ \E v \in SharedVars : s = Sharing(group, v)
  <2>1. s \in Values(FlattenSeq(ss)) <=> \E v \in SharedVars : s \in Values(ss[v])
    BY <1>5
  <2>2. s \in Values(FlattenSeq(ss)) <=>
            \E v \in SharedVars : Sharing(group, v) # << >> /\ s = Sharing(group, v)
    BY <1>3, <2>1
  <2> QED
    BY <2>2
<1> QED
  BY <1>4, <1>6 DEF SharedGroups, ss

(* A fused group has the filters of the group, in stages that are not      *)
(* empty.                                                                  *)
LEMMA FuseFilterGroupValues ==
    ASSUME NEW group \in Seq(Filters), NEW time \in [Ops -> Nat]
    PROVE  /\ FuseFilterGroup(group, time) \in Seq(FilterGroups)
           /\ FlattenSeq(FuseFilterGroup(group, time)) \in Seq(Filters)
           /\ Values(FlattenSeq(FuseFilterGroup(group, time))) = Values(group)
<1> DEFINE alone == Singles(Sharing(group, 0))
           stages == alone \o SharedGroups(group)
           r == BySpeed(stages, time)
<1>1. FuseFilterGroup(group, time) = r
  BY DEF FuseFilterGroup, Sharing, SharedGroups
<1>2. Sharing(group, 0) \in Seq(Filters)
  BY SharingValues
<1>3. \A i \in 1..Len(Sharing(group, 0)) : Sharing(group, 0)[i] \in Filters
  BY <1>2, ElementOfSeq
<1>4. alone \in Seq(FilterGroups) /\ DOMAIN alone = 1..Len(Sharing(group, 0))
  <2> DEFINE g == Sharing(group, 0)
  <2>1. Len(g) \in Nat /\ DOMAIN g = 1..Len(g)
    BY <1>2
  <2>2. \A x \in Filters : <<x>> \in FilterGroups
    BY DEF FilterGroups
  <2>3. \A i \in 1..Len(g) : <<g[i]>> \in FilterGroups
    BY <1>3, <2>2
  <2> HIDE DEF g
  <2>4. Singles(g) \in [1..Len(g) -> FilterGroups] /\ DOMAIN Singles(g) = 1..Len(g)
    BY <2>1, <2>3 DEF Singles
  <2> QED
    BY <2>1, <2>4 DEF g
<1>5. stages \in Seq(FilterGroups)
  <2> HIDE DEF alone
  <2> QED
    BY <1>4, SharedGroupsValues, ConcatProperties
<1>6. FilterGroups \in SUBSET Seq(Ops)
  BY OperatorKinds DEF FilterGroups
<1>7. r \in Seq(FilterGroups) /\ Values(r) = Values(stages)
  <2> HIDE DEF stages
  <2> QED
    BY <1>5, <1>6, BySpeedValues
<1>8. Values(stages) = Values(alone) \cup Values(SharedGroups(group))
  <2> HIDE DEF alone
  <2> QED
    BY <1>4, SharedGroupsValues, ConcatValues
<1> HIDE DEF stages, r
<1>9. r \in Seq(Seq(Filters))
  <2>1. FilterGroups \subseteq Seq(Filters)
    BY DEF FilterGroups
  <2> QED
    BY <1>7, <2>1, SeqMonotonic
<1>10. \A x : x \in Values(FlattenSeq(r)) <=> \E s \in Values(r) : x \in Values(s)
  <2>1. Values(FlattenSeq(r)) = UNION {Values(r[i]) : i \in DOMAIN r}
    BY <1>9, FlattenValues
  <2>2. \A s : s \in Values(r) <=> \E i \in DOMAIN r : s = r[i]
    BY DEF Values
  <2> QED
    BY <2>1, <2>2
<1>11. \A s : s \in Values(alone) <=> \E y \in Values(Sharing(group, 0)) : s = <<y>>
  <2> DEFINE g == Sharing(group, 0)
  <2>1. Len(g) \in Nat /\ DOMAIN g = 1..Len(g)
    BY <1>2
  <2> HIDE DEF g
  <2>2. \A s : s \in Values(Singles(g)) <=> \E y \in Values(g) : s = <<y>>
    BY <2>1 DEF Singles, Values
  <2> QED
    BY <2>2 DEF g
<1>12. ASSUME NEW x
       PROVE  x \in Values(FlattenSeq(r)) <=> \E v \in {0} \cup SharedVars : x \in Values(Sharing(group, v))
  <2>1. x \in Values(FlattenSeq(r)) <=>
            \/ \E s \in Values(alone) : x \in Values(s)
            \/ \E s \in Values(SharedGroups(group)) : x \in Values(s)
    BY <1>7, <1>8, <1>10
  <2>2. (\E s \in Values(alone) : x \in Values(s)) <=> x \in Values(Sharing(group, 0))
    <3>1. \A y : x \in Values(<<y>>) <=> x = y
      BY DEF Values
    <3> HIDE DEF alone
    <3> QED
      BY <1>11, <3>1
  <2>3. (\E s \in Values(SharedGroups(group)) : x \in Values(s)) <=>
            \E v \in SharedVars : x \in Values(Sharing(group, v))
    <3>1. x \notin Values(<< >>)
      BY DEF Values
    <3> QED
      BY <3>1, SharedGroupsValues
  <2> HIDE DEF alone
  <2> QED
    BY <2>1, <2>2, <2>3
<1>13. \A x \in Values(group) : SharedVar[x] \in {0} \cup SharedVars
  <2>1. Values(group) \subseteq Filters
    <3>1. DOMAIN group = 1..Len(group) /\ \A i \in 1..Len(group) : group[i] \in Filters
      BY ElementOfSeq
    <3> QED
      BY <3>1 DEF Values
  <2> QED
    BY <2>1, OperatorsAssumption
<1>14. Values(FlattenSeq(r)) = Values(group)
  <2>1. \A x : x \in Values(FlattenSeq(r)) <=> x \in Values(group)
    BY <1>12, <1>13, SharingValues
  <2>2. \A A, B : (\A x : x \in A <=> x \in B) => A = B
    OBVIOUS
  <2> QED
    BY <2>1, <2>2
<1>15. FlattenSeq(r) \in Seq(Filters)
  BY <1>9, FlattenType
<1> QED
  BY <1>1, <1>7, <1>14, <1>15

(* A fused and reordered group of filters drops what the group drops.      *)
LEMMA FuseFilterGroupAgrees ==
    ASSUME NEW group \in Seq(Filters), NEW time \in [Ops -> Nat], NEW rows \in Batches
    PROVE  Sequential(FlattenSeq(FuseFilterGroup(group, time)), rows) = Sequential(group, rows)
<1> DEFINE t == FlattenSeq(FuseFilterGroup(group, time))
<1>1. t \in Seq(Filters) /\ Values(t) = Values(group)
  BY FuseFilterGroupValues
<1>2. \A s : Dropped(s) = UNION {Drops[x] : x \in Values(s)}
  BY DEF Dropped, Values
<1> HIDE DEF t
<1>3. Dropped(t) = Dropped(group)
  BY <1>1, <1>2
<1>4. Sequential(t, rows) = Sequential(group, rows)
  BY <1>1, <1>3, FiltersTogether
<1> QED
  BY <1>4 DEF t

-----------------------------------------------------------------------------
(* A process list, fused.                                                  *)

LEMMA FlattenOne ==
    ASSUME NEW X, NEW s \in Seq(X)
    PROVE  FlattenSeq(<<s>>) = s
<1> DEFINE f == [k \in 0..1 |-> IF k = 0 THEN << >> ELSE s]
<1>1. <<s>> \in Seq(Seq(X)) /\ Len(<<s>>) = 1 /\ <<s>>[1] = s
  OBVIOUS
<1>2. f \in [0..1 -> Seq(X)] /\ f[0] = << >> /\ f[1] = s
  OBVIOUS
<1>3. << >> \o s = s
  OBVIOUS
<1> HIDE DEF f
<1>4. Joins(f, <<s>>)
  <2>1. ASSUME NEW i \in 1..1 PROVE f[i] = f[i - 1] \o <<s>>[i]
    <3>1. i = 1 /\ i - 1 = 0
      OBVIOUS
    <3> QED
      BY <1>1, <1>2, <1>3, <3>1
  <2> QED
    BY <1>1, <1>2, <2>1 DEF Joins
<1> QED
  BY <1>1, <1>2, <1>4, FlattenIs

(* Where a scan of a process list has got to, and the operators it has     *)
(* seen.                                                                   *)
Scans(X) == [group : Seq(X), out : Seq(Stage)]
Seen(acc) == FlattenSeq(acc.out) \o acc.group

LEMMA StageKinds ==
    /\ Stage \subseteq Seq(Ops) /\ FilterGroups \subseteq Stage
    /\ \A op \in Ops : <<op>> \in Stage
    /\ \A s \in Seq(Safe) : s # << >> => s \in Stage
<1>1. FilterGroups \subseteq Stage
  <2>1. ASSUME NEW s \in FilterGroups PROVE s \in Stage
    <3>1. s \in Seq(Filters) /\ s # << >>
      BY DEF FilterGroups
    <3>2. s \in Seq(Ops)
      BY <3>1, OperatorKinds, SeqMonotonic
    <3> QED
      BY <3>1, <3>2 DEF Stage
  <2> QED
    BY <2>1
<1>2. \A op \in Ops : <<op>> \in Stage
  BY DEF Stage
<1>3. ASSUME NEW s \in Seq(Safe), s # << >> PROVE s \in Stage
  <2>1. s \in Seq(Ops)
    BY OperatorKinds, SeqMonotonic
  <2> QED
    BY <1>3, <2>1 DEF Stage
<1> QED
  BY <1>1, <1>2, <1>3 DEF Stage

LEMMA StagesFlatten ==
    ASSUME NEW ss \in Seq(Stage)
    PROVE  ss \in Seq(Seq(Ops)) /\ FlattenSeq(ss) \in Seq(Ops)
<1>1. ss \in Seq(Seq(Ops))
  BY StageKinds, SeqMonotonic
<1> QED
  BY <1>1, FlattenType

LEMMA FuseFilterGroupStages ==
    ASSUME NEW group \in Seq(Filters), NEW time \in [Ops -> Nat]
    PROVE  FuseFilterGroup(group, time) \in Seq(Stage)
<1>1. FuseFilterGroup(group, time) \in Seq(FilterGroups)
  BY FuseFilterGroupValues
<1> QED
  BY <1>1, StageKinds, SeqMonotonic

LEMMA ScanFilterAgrees ==
    ASSUME NEW acc \in Scans(Filters), NEW op \in Ops, NEW time \in [Ops -> Nat],
           NEW rows \in Batches
    PROVE  /\ ScanFilter(acc, op, time) \in Scans(Filters)
           /\ Sequential(Seen(ScanFilter(acc, op, time)), rows)
                  = Meaning(op, Sequential(Seen(acc), rows))
<1> DEFINE next == ScanFilter(acc, op, time)
           out == FlattenSeq(acc.out)
<1>1. /\ acc.group \in Seq(Filters) /\ acc.group \in Seq(Ops) /\ acc.out \in Seq(Stage)
      /\ out \in Seq(Ops)
  <2>1. acc.group \in Seq(Filters) /\ acc.out \in Seq(Stage)
    BY DEF Scans
  <2>2. acc.group \in Seq(Ops)
    BY <2>1, OperatorKinds, SeqMonotonic
  <2> QED
    BY <2>1, <2>2, StagesFlatten
<1> HIDE DEF out
<1>2. Seen(acc) = out \o acc.group /\ Seen(acc) \in Seq(Ops)
  BY <1>1 DEF Seen, out
<1>3. CASE op \in Filters
  <2>1. /\ next = [acc EXCEPT !.group = Append(@, op)]
        /\ next.group = Append(acc.group, op) /\ next.out = acc.out
    BY <1>3 DEF ScanFilter, Scans
  <2>2. Append(acc.group, op) \in Seq(Filters)
    BY <1>1, <1>3
  <2>3. next \in Scans(Filters)
    BY <2>1, <2>2 DEF Scans
  <2> HIDE DEF next
  <2>4. Seen(next) = Seen(acc) \o <<op>>
    <3>1. \A x, y \in Seq(Ops) : \A z \in Ops : x \o Append(y, z) = (x \o y) \o <<z>>
      OBVIOUS
    <3>2. Seen(next) = FlattenSeq(next.out) \o next.group
      BY DEF Seen
    <3>3. Seen(next) = out \o Append(acc.group, op)
      BY <2>1, <3>2 DEF out
    <3> QED
      BY <1>1, <1>2, <3>1, <3>3, SMTT(30)
  <2>5. Sequential(Seen(next), rows) = Meaning(op, Sequential(Seen(acc), rows))
    BY <1>2, <2>4, SequentialAppend
  <2> QED
    BY <2>3, <2>5 DEF next
<1>4. CASE op \notin Filters
  <2> DEFINE fused == FuseFilterGroup(acc.group, time)
             flat == FlattenSeq(fused)
  <2>1. next.group = << >> /\ next.out = acc.out \o fused \o <<<<op>>>>
        /\ next = [group |-> next.group, out |-> next.out]
    BY <1>4 DEF ScanFilter
  <2>2. fused \in Seq(Stage) /\ flat \in Seq(Filters) /\ flat \in Seq(Ops)
    <3>1. flat \in Seq(Filters)
      BY <1>1, FuseFilterGroupValues
    <3> QED
      BY <1>1, <3>1, FuseFilterGroupStages, OperatorKinds, SeqMonotonic
  <2>3. Sequential(flat, Sequential(out, rows)) = Sequential(acc.group, Sequential(out, rows))
    <3>1. Sequential(out, rows) \in Batches
      BY <1>1, SequentialType
    <3> QED
      BY <1>1, <3>1, FuseFilterGroupAgrees
  <2> HIDE DEF fused
  <2>4. /\ <<<<op>>>> \in Seq(Stage) /\ acc.out \o fused \in Seq(Stage)
        /\ acc.out \o fused \o <<<<op>>>> \in Seq(Stage)
    <3>1. <<op>> \in Stage
      BY StageKinds
    <3>2. <<<<op>>>> \in Seq(Stage)
      BY <3>1
    <3>3. acc.out \o fused \in Seq(Stage)
      BY <1>1, <2>2, ConcatProperties
    <3> QED
      BY <3>2, <3>3, ConcatProperties
  <2>5. next \in Scans(Filters)
    <3>1. << >> \in Seq(Filters)
      OBVIOUS
    <3> HIDE DEF next
    <3> QED
      BY <2>1, <2>4, <3>1 DEF Scans
  <2>6. FlattenSeq(acc.out \o fused \o <<<<op>>>>) = (out \o flat) \o <<op>>
    <3>1. <<op>> \in Seq(Ops) /\ FlattenSeq(<<<<op>>>>) = <<op>>
      <4>1. <<op>> \in Seq(Ops)
        OBVIOUS
      <4> QED
        BY <4>1, FlattenOne
    <3>2. FlattenSeq(acc.out \o fused \o <<<<op>>>>)
              = FlattenSeq(acc.out \o fused) \o FlattenSeq(<<<<op>>>>)
      BY <2>4, StagesFlatten, FlattenConcat
    <3>3. FlattenSeq(acc.out \o fused) = FlattenSeq(acc.out) \o FlattenSeq(fused)
      BY <1>1, <2>2, StagesFlatten, FlattenConcat
    <3> QED
      BY <3>1, <3>2, <3>3 DEF out
  <2> HIDE DEF flat
  <2>7. Seen(next) = (out \o flat) \o <<op>> /\ out \o flat \in Seq(Ops)
    <3>1. out \o flat \in Seq(Ops)
      BY <1>1, <2>2, ConcatProperties
    <3>2. (out \o flat) \o <<op>> \in Seq(Ops)
      BY <3>1
    <3> HIDE DEF next
    <3>3. \A x \in Seq(Ops) : x \o << >> = x
      OBVIOUS
    <3> QED
      BY <2>1, <2>6, <3>1, <3>2, <3>3 DEF Seen
  <2> HIDE DEF next
  <2>8. Sequential(Seen(next), rows) = Meaning(op, Sequential(out \o flat, rows))
    BY <2>7, SequentialAppend
  <2>9. Sequential(out \o flat, rows) = Sequential(Seen(acc), rows)
    <3>1. Sequential(out \o flat, rows) = Sequential(flat, Sequential(out, rows))
      BY <1>1, <2>2, SequentialConcat
    <3>2. Sequential(Seen(acc), rows) = Sequential(acc.group, Sequential(out, rows))
      BY <1>1, <1>2, SequentialConcat
    <3> QED
      BY <2>3, <3>1, <3>2
  <2> QED
    BY <2>5, <2>8, <2>9 DEF next
<1> QED
  BY <1>3, <1>4

LEMMA FuseFiltersAgrees ==
    ASSUME NEW s \in Seq(Ops), NEW time \in [Ops -> Nat], NEW rows \in Batches
    PROVE  /\ FuseFilters(s, time) \in Seq(Stage)
           /\ Sequential(FlattenSeq(FuseFilters(s, time)), rows) = Sequential(s, rows)
<1> DEFINE n == Len(s)
           X == Scans(Filters)
           g == [i \in 1..n |-> [a \in X |-> ScanFilter(a, s[i], time)]]
           Step(h) ==
               h = [i \in 0..n |-> IF i = 0 THEN NoGroup ELSE ScanFilter(h[i - 1], s[i], time)]
           scan == CHOOSE h : Step(h)
           Upto(k) == SubSeq(s, 1, k)
           S == {k \in 0..n : /\ scan[k] \in X
                              /\ Sequential(Seen(scan[k]), rows) = Sequential(Upto(k), rows)}
<1>1. n \in Nat /\ \A i \in 1..n : s[i] \in Ops
  BY ElementOfSeq
<1>2. NoGroup \in X
  <2>1. << >> \in Seq(Filters) /\ << >> \in Seq(Stage)
    OBVIOUS
  <2> QED
    BY <2>1 DEF NoGroup, Scans
<1>3. g \in [1..n -> [X -> X]]
  <2> HIDE DEF n, X
  <2>1. \A i \in 1..n : \A a \in X : ScanFilter(a, s[i], time) \in X
    BY <1>1, ScanFilterAgrees DEF X
  <2> QED
    BY <2>1
<1>4. PICK f \in [0..n -> X] : Chain(f, n, g, NoGroup)
  <2> HIDE DEF n, g, X
  <2> QED
    BY <1>1, <1>2, <1>3, ChainsExist
<1>5. Step(f)
  <2> HIDE DEF X
  <2>1. f = [i \in 0..n |-> f[i]]
    OBVIOUS
  <2>2. \A i \in 0..n : f[i] = IF i = 0 THEN NoGroup ELSE g[i][f[i - 1]]
    <3> HIDE DEF g
    <3> QED
      BY <1>4 DEF Chain
  <2>3. ASSUME NEW i \in 0..n, i # 0 PROVE g[i][f[i - 1]] = ScanFilter(f[i - 1], s[i], time)
    <3>1. i \in 1..n /\ i - 1 \in 0..n
      BY <1>1, <2>3
    <3>2. f[i - 1] \in X
      BY <3>1
    <3> HIDE DEF n
    <3> QED
      BY <3>1, <3>2
  <2> HIDE DEF g
  <2> QED
    BY <2>1, <2>2, <2>3
<1>6. Step(scan)
  <2> HIDE DEF Step
  <2> QED
    BY <1>5
<1> HIDE DEF scan, X
<1>7. \A i \in 0..n : scan[i] = IF i = 0 THEN NoGroup ELSE ScanFilter(scan[i - 1], s[i], time)
  BY <1>6
<1>8. ASSUME NEW k \in 0..n PROVE Upto(k) \in Seq(Ops)
  <2>1. \A i \in 1..k : s[i] \in Ops
    <3> HIDE DEF n
    <3> QED
      BY <1>1
  <2> QED
    BY <1>1, <2>1, SubSeqProperties
<1>9. 0 \in S
  <2>1. scan[0] = NoGroup /\ 0 \in 0..n
    BY <1>1, <1>7
  <2>2. Upto(0) = << >>
    BY SubSeqEmpty
  <2>3. Seen(NoGroup) = << >>
    BY DEF Seen, NoGroup, FlattenSeq
  <2> HIDE DEF n, Upto
  <2> QED
    BY <1>2, <2>1, <2>2, <2>3
<1>10. ASSUME NEW k \in 1..n, k - 1 \in S PROVE k \in S
  <2>1. /\ k \in 0..n /\ k # 0 /\ k - 1 \in 0..n /\ s[k] \in Ops
        /\ scan[k - 1] \in X
        /\ Sequential(Seen(scan[k - 1]), rows) = Sequential(Upto(k - 1), rows)
    BY <1>1, <1>10
  <2>2. scan[k] = ScanFilter(scan[k - 1], s[k], time)
    <3> HIDE DEF n, Upto
    <3> QED
      BY <1>7, <2>1
  <2>3. /\ scan[k] \in X
        /\ Sequential(Seen(scan[k]), rows) = Meaning(s[k], Sequential(Seen(scan[k - 1]), rows))
    <3> HIDE DEF n, Upto
    <3> QED
      BY <2>1, <2>2, ScanFilterAgrees DEF X
  <2>4. Upto(k) = Upto(k - 1) \o <<s[k]>>
    <3>1. 1 \in 1..Len(s) /\ k \in 1..Len(s)
      BY <1>1
    <3> QED
      BY <3>1, SubSeqRecursiveSecond
  <2>5. Upto(k - 1) \in Seq(Ops)
    BY <1>8, <2>1
  <2> HIDE DEF n, Upto
  <2>6. Sequential(Upto(k), rows) = Meaning(s[k], Sequential(Upto(k - 1), rows))
    BY <2>1, <2>4, <2>5, SequentialAppend
  <2> QED
    BY <2>1, <2>3, <2>6
<1>11. S = 0..n
  <2> HIDE DEF S
  <2>1. S \in SUBSET (0..n)
    BY DEF S
  <2> HIDE DEF n, Upto
  <2> QED
    BY <1>1, <1>9, <1>10, <2>1, UpFromZero
<1>12. scan[n] \in X /\ Sequential(Seen(scan[n]), rows) = Sequential(Upto(n), rows)
  <2>1. n \in 0..n
    BY <1>1
  <2> HIDE DEF n, Upto
  <2> QED
    BY <1>11, <2>1
<1>13. Upto(n) = s
  BY SubSeqFull
<1> DEFINE end == scan[n]
           fused == FuseFilterGroup(end.group, time)
<1>14. FuseFilters(s, time) = end.out \o fused
  BY DEF FuseFilters, scan
<1> HIDE DEF end, n, Upto
<1>15. end.group \in Seq(Filters) /\ end.group \in Seq(Ops) /\ end.out \in Seq(Stage)
  <2>1. end.group \in Seq(Filters) /\ end.out \in Seq(Stage)
    BY <1>12 DEF end, X, Scans
  <2> QED
    BY <2>1, OperatorKinds, SeqMonotonic
<1>16. fused \in Seq(Stage) /\ FlattenSeq(end.out) \in Seq(Ops) /\ FlattenSeq(fused) \in Seq(Ops)
  BY <1>15, FuseFilterGroupStages, StagesFlatten
<1>17. Sequential(FlattenSeq(end.out \o fused), rows) = Sequential(Seen(end), rows)
  <2>1. Sequential(FlattenSeq(end.out), rows) \in Batches
    BY <1>16, SequentialType
  <2>2. Sequential(FlattenSeq(fused), Sequential(FlattenSeq(end.out), rows))
            = Sequential(end.group, Sequential(FlattenSeq(end.out), rows))
    BY <1>15, <2>1, FuseFilterGroupAgrees
  <2>3. Sequential(Seen(end), rows) = Sequential(end.group, Sequential(FlattenSeq(end.out), rows))
    BY <1>15, <1>16, SequentialConcat DEF Seen
  <2> HIDE DEF fused
  <2>4. FlattenSeq(end.out \o fused) = FlattenSeq(end.out) \o FlattenSeq(fused)
    BY <1>15, <1>16, StagesFlatten, FlattenConcat
  <2>5. Sequential(FlattenSeq(end.out) \o FlattenSeq(fused), rows)
            = Sequential(FlattenSeq(fused), Sequential(FlattenSeq(end.out), rows))
    BY <1>16, SequentialConcat
  <2> QED
    BY <2>2, <2>3, <2>4, <2>5 DEF fused
<1>18. end.out \o fused \in Seq(Stage)
  <2> HIDE DEF fused
  <2> QED
    BY <1>15, <1>16, ConcatProperties
<1> QED
  BY <1>12, <1>13, <1>14, <1>17, <1>18 DEF end

(* A group of mappers is flushed as it is.                                 *)
LEMMA FlushGroupFlatten ==
    ASSUME NEW group \in Seq(Safe)
    PROVE  FlushGroup(group) \in Seq(Stage) /\ FlattenSeq(FlushGroup(group)) = group
<1>1. CASE Len(group) >= 2
  <2>1. group # << >>
    BY <1>1
  <2>2. group \in Stage /\ group \in Seq(Ops)
    BY <2>1, StageKinds
  <2>3. <<group>> \in Seq(Stage) /\ FlattenSeq(<<group>>) = group
    BY <2>2, FlattenOne
  <2> QED
    BY <1>1, <2>3 DEF FlushGroup
<1>2. CASE ~(Len(group) >= 2)
  <2>1. /\ Singles(group) \in Seq(Seq(Safe)) /\ Len(Singles(group)) = Len(group)
        /\ \A i \in 1..Len(group) : Singles(group)[i] = <<group[i]>>
        /\ FlattenSeq(Singles(group)) = group
    BY SinglesFlatten
  <2>2. \A i \in 1..Len(group) : Singles(group)[i] \in Stage
    <3>1. \A i \in 1..Len(group) : group[i] \in Ops
      BY ElementOfSeq, OperatorKinds
    <3> QED
      BY <2>1, <3>1, StageKinds
  <2>3. Singles(group) \in Seq(Stage)
    <3>1. Singles(group) \in [1..Len(group) -> Seq(Safe)] /\ Len(group) \in Nat
      BY <2>1, LenProperties
    <3>2. Singles(group) = [i \in 1..Len(group) |-> Singles(group)[i]]
      BY <3>1
    <3>3. Singles(group) \in [1..Len(group) -> Stage]
      BY <2>2, <3>2
    <3> QED
      BY <3>1, <3>3
  <2> QED
    BY <1>2, <2>1, <2>3 DEF FlushGroup
<1> QED
  BY <1>1, <1>2

LEMMA ScanMapperSees ==
    ASSUME NEW acc \in Scans(Safe), NEW s \in Stage
    PROVE  ScanMapper(acc, s) \in Scans(Safe) /\ Seen(ScanMapper(acc, s)) = Seen(acc) \o s
<1> DEFINE next == ScanMapper(acc, s)
           flush == FlushGroup(acc.group)
<1>1. /\ acc = [group |-> acc.group, out |-> acc.out]
      /\ acc.group \in Seq(Safe) /\ acc.group \in Seq(Ops) /\ acc.out \in Seq(Stage)
      /\ FlattenSeq(acc.out) \in Seq(Ops) /\ s \in Seq(Ops) /\ s # << >>
  <2>1. acc = [group |-> acc.group, out |-> acc.out] /\ acc.group \in Seq(Safe) /\ acc.out \in Seq(Stage)
    BY DEF Scans
  <2>2. acc.group \in Seq(Ops)
    BY <2>1, OperatorKinds, SeqMonotonic
  <2>3. s \in Seq(Ops) /\ s # << >>
    BY DEF Stage
  <2> QED
    BY <2>1, <2>2, <2>3, StagesFlatten
<1>2. flush \in Seq(Stage) /\ FlattenSeq(flush) = acc.group
  BY <1>1, FlushGroupFlatten
<1> HIDE DEF flush
<1>3. acc.out \o flush \in Seq(Stage) /\ FlattenSeq(acc.out \o flush) = Seen(acc)
  <2>1. acc.out \o flush \in Seq(Stage)
    BY <1>1, <1>2, ConcatProperties
  <2>2. FlattenSeq(acc.out \o flush) = FlattenSeq(acc.out) \o FlattenSeq(flush)
    BY <1>1, <1>2, StagesFlatten, FlattenConcat
  <2> QED
    BY <1>2, <2>1, <2>2 DEF Seen
<1>4. Seen(acc) \in Seq(Ops)
  BY <1>1 DEF Seen
<1>5. << >> \in Seq(Safe) /\ \A x \in Seq(Ops) : x \o << >> = x
  OBVIOUS
<1>6. CASE ~(Len(s) = 1 /\ Head(s) \in Safe)
  <2>1. next = [group |-> << >>, out |-> acc.out \o flush \o <<s>>]
    BY <1>6 DEF ScanMapper, flush
  <2>2. <<s>> \in Seq(Stage) /\ FlattenSeq(<<s>>) = s
    BY <1>1, FlattenOne
  <2>3. /\ acc.out \o flush \o <<s>> \in Seq(Stage)
        /\ FlattenSeq(acc.out \o flush \o <<s>>) = Seen(acc) \o s
    <3>1. acc.out \o flush \o <<s>> \in Seq(Stage)
      BY <1>3, <2>2, ConcatProperties
    <3>2. FlattenSeq(acc.out \o flush \o <<s>>) = FlattenSeq(acc.out \o flush) \o FlattenSeq(<<s>>)
      BY <1>3, <2>2, StagesFlatten, FlattenConcat
    <3> QED
      BY <1>3, <2>2, <3>1, <3>2
  <2> HIDE DEF next
  <2>4. next \in Scans(Safe)
    BY <1>5, <2>1, <2>3 DEF Scans
  <2>5. Seen(next) = (Seen(acc) \o s) \o << >>
    <3>1. Seen(next) = FlattenSeq(next.out) \o next.group
      BY DEF Seen
    <3>2. next.out = acc.out \o flush \o <<s>> /\ next.group = << >>
      BY <2>1
    <3> QED
      BY <2>3, <3>1, <3>2
  <2>6. Seen(acc) \o s \in Seq(Ops)
    BY <1>1, <1>4, ConcatProperties
  <2> QED
    BY <1>5, <2>4, <2>5, <2>6 DEF next
<1>7. CASE Len(s) = 1 /\ Head(s) \in Safe
  <2>1. s \in Seq(Safe)
    <3>1. s = <<Head(s)>>
      BY <1>1, <1>7
    <3>2. \A x \in Safe : <<x>> \in Seq(Safe)
      OBVIOUS
    <3> QED
      BY <1>7, <3>1, <3>2
  <2>2. CASE acc.group # << >> /\ Blocked(acc.group \o s)
    <3>1. next = [group |-> s, out |-> acc.out \o flush]
      BY <1>7, <2>2 DEF ScanMapper, flush
    <3> HIDE DEF next
    <3>2. next \in Scans(Safe)
      BY <1>3, <2>1, <3>1 DEF Scans
    <3>3. Seen(next) = FlattenSeq(next.out) \o next.group
      BY DEF Seen
    <3>4. next.out = acc.out \o flush /\ next.group = s
      BY <3>1
    <3> QED
      BY <1>3, <3>2, <3>3, <3>4 DEF next
  <2>3. CASE ~(acc.group # << >> /\ Blocked(acc.group \o s))
    <3>1. next = [acc EXCEPT !.group = @ \o s]
      BY <1>7, <2>3 DEF ScanMapper
    <3>2. next.out = acc.out /\ next.group = acc.group \o s
          /\ next = [group |-> next.group, out |-> next.out]
      BY <1>1, <3>1
    <3>3. acc.group \o s \in Seq(Safe)
      BY <1>1, <2>1, ConcatProperties
    <3> HIDE DEF next
    <3>4. next \in Scans(Safe)
      BY <1>1, <3>2, <3>3 DEF Scans
    <3>5. Seen(next) = FlattenSeq(acc.out) \o (acc.group \o s)
      BY <3>2 DEF Seen
    <3>6. \A x, y, z \in Seq(Ops) : x \o (y \o z) = (x \o y) \o z
      OBVIOUS
    <3>7. FlattenSeq(acc.out) \o (acc.group \o s) = (FlattenSeq(acc.out) \o acc.group) \o s
      BY <1>1, <3>6
    <3> QED
      BY <3>4, <3>5, <3>7 DEF next, Seen
  <2> QED
    BY <2>2, <2>3
<1> QED
  BY <1>6, <1>7

(* Fusing mappers changes neither the operators nor their order.           *)
LEMMA FuseMappersKeep ==
    ASSUME NEW stages \in Seq(Stage)
    PROVE  /\ FuseMappers(stages) \in Seq(Stage)
           /\ FlattenSeq(FuseMappers(stages)) = FlattenSeq(stages)
<1> DEFINE n == Len(stages)
           X == Scans(Safe)
           g == [i \in 1..n |-> [a \in X |-> ScanMapper(a, stages[i])]]
           Step(h) ==
               h = [i \in 0..n |-> IF i = 0 THEN NoGroup ELSE ScanMapper(h[i - 1], stages[i])]
           scan == CHOOSE h : Step(h)
           Upto(k) == SubSeq(stages, 1, k)
           S == {k \in 0..n : scan[k] \in X /\ Seen(scan[k]) = FlattenSeq(Upto(k))}
<1>1. n \in Nat /\ \A i \in 1..n : stages[i] \in Stage
  BY ElementOfSeq
<1>2. NoGroup \in X
  <2>1. << >> \in Seq(Safe) /\ << >> \in Seq(Stage)
    OBVIOUS
  <2> QED
    BY <2>1 DEF NoGroup, Scans
<1>3. g \in [1..n -> [X -> X]]
  <2> HIDE DEF n, X
  <2>1. \A i \in 1..n : \A a \in X : ScanMapper(a, stages[i]) \in X
    BY <1>1, ScanMapperSees DEF X
  <2> QED
    BY <2>1
<1>4. PICK f \in [0..n -> X] : Chain(f, n, g, NoGroup)
  <2> HIDE DEF n, g, X
  <2> QED
    BY <1>1, <1>2, <1>3, ChainsExist
<1>5. Step(f)
  <2> HIDE DEF X
  <2>1. f = [i \in 0..n |-> f[i]]
    OBVIOUS
  <2>2. \A i \in 0..n : f[i] = IF i = 0 THEN NoGroup ELSE g[i][f[i - 1]]
    <3> HIDE DEF g
    <3> QED
      BY <1>4 DEF Chain
  <2>3. ASSUME NEW i \in 0..n, i # 0 PROVE g[i][f[i - 1]] = ScanMapper(f[i - 1], stages[i])
    <3>1. i \in 1..n /\ i - 1 \in 0..n
      BY <1>1, <2>3
    <3>2. f[i - 1] \in X
      BY <3>1
    <3> HIDE DEF n
    <3> QED
      BY <3>1, <3>2
  <2> HIDE DEF g
  <2> QED
    BY <2>1, <2>2, <2>3
<1>6. Step(scan)
  <2> HIDE DEF Step
  <2> QED
    BY <1>5
<1> HIDE DEF scan, X
<1>7. \A i \in 0..n : scan[i] = IF i = 0 THEN NoGroup ELSE ScanMapper(scan[i - 1], stages[i])
  BY <1>6
<1>8. ASSUME NEW k \in 0..n PROVE Upto(k) \in Seq(Stage)
  <2>1. \A i \in 1..k : stages[i] \in Stage
    <3> HIDE DEF n
    <3> QED
      BY <1>1
  <2> QED
    BY <1>1, <2>1, SubSeqProperties
<1>9. 0 \in S
  <2>1. scan[0] = NoGroup /\ 0 \in 0..n
    BY <1>1, <1>7
  <2>2. Upto(0) = << >>
    BY SubSeqEmpty
  <2>3. Seen(NoGroup) = << >> /\ FlattenSeq(<< >>) = << >>
    BY DEF Seen, NoGroup, FlattenSeq
  <2> HIDE DEF n, Upto
  <2> QED
    BY <1>2, <2>1, <2>2, <2>3
<1>10. ASSUME NEW k \in 1..n, k - 1 \in S PROVE k \in S
  <2>1. /\ k \in 0..n /\ k # 0 /\ k - 1 \in 0..n /\ stages[k] \in Stage
        /\ scan[k - 1] \in X /\ Seen(scan[k - 1]) = FlattenSeq(Upto(k - 1))
    BY <1>1, <1>10
  <2>2. scan[k] = ScanMapper(scan[k - 1], stages[k])
    <3> HIDE DEF n, Upto
    <3> QED
      BY <1>7, <2>1
  <2>3. scan[k] \in X /\ Seen(scan[k]) = Seen(scan[k - 1]) \o stages[k]
    <3> HIDE DEF n, Upto
    <3> QED
      BY <2>1, <2>2, ScanMapperSees DEF X
  <2>4. Upto(k) = Upto(k - 1) \o <<stages[k]>>
    <3>1. 1 \in 1..Len(stages) /\ k \in 1..Len(stages)
      BY <1>1
    <3> QED
      BY <3>1, SubSeqRecursiveSecond
  <2>5. Upto(k - 1) \in Seq(Stage) /\ <<stages[k]>> \in Seq(Stage) /\ stages[k] \in Seq(Ops)
    BY <1>8, <2>1, StageKinds
  <2> HIDE DEF n, Upto
  <2>6. FlattenSeq(Upto(k)) = FlattenSeq(Upto(k - 1)) \o stages[k]
    <3>1. FlattenSeq(<<stages[k]>>) = stages[k]
      BY <2>5, FlattenOne
    <3>2. FlattenSeq(Upto(k - 1) \o <<stages[k]>>)
              = FlattenSeq(Upto(k - 1)) \o FlattenSeq(<<stages[k]>>)
      BY <2>5, StagesFlatten, FlattenConcat
    <3> QED
      BY <2>4, <3>1, <3>2
  <2> QED
    BY <2>1, <2>3, <2>6
<1>11. S = 0..n
  <2> HIDE DEF S
  <2>1. S \in SUBSET (0..n)
    BY DEF S
  <2> HIDE DEF n, Upto
  <2> QED
    BY <1>1, <1>9, <1>10, <2>1, UpFromZero
<1>12. scan[n] \in X /\ Seen(scan[n]) = FlattenSeq(Upto(n))
  <2>1. n \in 0..n
    BY <1>1
  <2> HIDE DEF n, Upto
  <2> QED
    BY <1>11, <2>1
<1>13. Upto(n) = stages
  BY SubSeqFull
<1> DEFINE end == scan[n]
           flush == FlushGroup(end.group)
<1>14. FuseMappers(stages) = end.out \o flush
  BY DEF FuseMappers, scan
<1> HIDE DEF end, n, Upto
<1>15. end.group \in Seq(Safe) /\ end.out \in Seq(Stage)
  BY <1>12 DEF end, X, Scans
<1>16. flush \in Seq(Stage) /\ FlattenSeq(flush) = end.group
  BY <1>15, FlushGroupFlatten
<1> HIDE DEF flush
<1>17. end.out \o flush \in Seq(Stage)
  BY <1>15, <1>16, ConcatProperties
<1>18. FlattenSeq(end.out \o flush) = Seen(end)
  <2>1. FlattenSeq(end.out \o flush) = FlattenSeq(end.out) \o FlattenSeq(flush)
    BY <1>15, <1>16, StagesFlatten, FlattenConcat
  <2> QED
    BY <1>16, <2>1 DEF Seen
<1> QED
  BY <1>12, <1>13, <1>14, <1>17, <1>18 DEF end

(* A fused process list does to the rows what the process list does to     *)
(* them without fusion (ops/op_fusion.py, fuse_operators), however its     *)
(* filters are reordered and grouped and its mappers grouped, for any      *)
(* operators and any times of a probe.                                     *)
THEOREM FusionAgrees ==
    ASSUME NEW s \in Seq(Ops), NEW time \in [Ops -> Nat], NEW rows \in Batches
    PROVE  /\ FuseOperators(s, time) \in Seq(Stage)
           /\ Sequential(FlattenSeq(FuseOperators(s, time)), rows) = Sequential(s, rows)
BY FuseFiltersAgrees, FuseMappersKeep DEF FuseOperators

-----------------------------------------------------------------------------
(* The files of an export.                                                 *)

(* A sequence that is cut at growing places, and joined again.             *)
LEMMA PiecesCover ==
    ASSUME NEW X, NEW s \in Seq(X), NEW n \in Nat, NEW c \in [0..n -> 0..Len(s)],
           c[0] = 0, c[n] = Len(s), \A k \in 1..n : c[k - 1] <= c[k]
    PROVE  FlattenSeq([k \in 1..n |-> SubSeq(s, c[k - 1] + 1, c[k])]) = s
<1> DEFINE piece(k) == SubSeq(s, c[k - 1] + 1, c[k])
           ss == [k \in 1..n |-> piece(k)]
           f == [k \in 0..n |-> SubSeq(s, 1, c[k])]
<1>1. /\ Len(s) \in Nat /\ \A i \in 1..Len(s) : s[i] \in X
      /\ \A k \in 0..n : c[k] \in 0..Len(s)
  BY ElementOfSeq
<1>2. ASSUME NEW a \in Nat, NEW b \in 0..Len(s)
      PROVE  SubSeq(s, a + 1, b) \in Seq(X)
  <2>1. \A i \in (a + 1)..b : s[i] \in X
    BY <1>1
  <2> QED
    BY <2>1, SubSeqProperties
<1>3. ASSUME NEW k \in 1..n
      PROVE  /\ c[k - 1] \in 0..Len(s) /\ c[k] \in c[k - 1]..Len(s)
             /\ piece(k) \in Seq(X)
  <2>1. k - 1 \in 0..n /\ k \in 0..n
    OBVIOUS
  <2>2. c[k - 1] \in 0..Len(s) /\ c[k] \in 0..Len(s) /\ c[k - 1] <= c[k]
    BY <1>1, <2>1
  <2> QED
    BY <1>2, <2>2
<1>4. ss \in Seq(Seq(X)) /\ Len(ss) = n /\ \A k \in 1..n : ss[k] = piece(k)
  <2>1. ss \in [1..n -> Seq(X)]
    <3> HIDE DEF piece
    <3> QED
      BY <1>3
  <2>2. \A k \in 1..n : ss[k] = piece(k)
    <3> HIDE DEF piece
    <3> QED
      OBVIOUS
  <2> HIDE DEF ss
  <2> QED
    BY <2>1, <2>2
<1>5. f \in [0..n -> Seq(X)]
  <2>1. ASSUME NEW k \in 0..n PROVE SubSeq(s, 1, c[k]) \in Seq(X)
    <3>1. c[k] \in 0..Len(s)
      BY <1>1
    <3>2. SubSeq(s, 0 + 1, c[k]) \in Seq(X)
      BY <1>2, <3>1
    <3> QED
      BY <3>2
  <2> QED
    BY <2>1
<1>6. f[0] = << >>
  <2>1. f[0] = SubSeq(s, 1, 0)
    OBVIOUS
  <2> QED
    BY <2>1, SubSeqEmpty
<1>7. ASSUME NEW k \in 1..n PROVE f[k] = f[k - 1] \o ss[k]
  <2>1. f[k] = SubSeq(s, 1, c[k]) /\ f[k - 1] = SubSeq(s, 1, c[k - 1])
    <3>1. k \in 0..n /\ k - 1 \in 0..n
      OBVIOUS
    <3>2. \A j \in 0..n : f[j] = SubSeq(s, 1, c[j])
      OBVIOUS
    <3> HIDE DEF f
    <3> QED
      BY <3>1, <3>2
  <2>2. 1 \in 1..(Len(s) + 1) /\ c[k - 1] \in (1 - 1)..Len(s) /\ c[k] \in c[k - 1]..Len(s)
    BY <1>1, <1>3
  <2>3. SubSeq(s, 1, c[k - 1]) \o SubSeq(s, c[k - 1] + 1, c[k]) = SubSeq(s, 1, c[k])
    BY <2>2, ConcatAdjacentSubSeq
  <2> HIDE DEF f, ss
  <2> QED
    BY <1>4, <2>1, <2>3
<1>8. FlattenSeq(ss) = f[n]
  <2> HIDE DEF f, ss
  <2>1. Joins(f, ss)
    BY <1>4, <1>6, <1>7 DEF Joins
  <2> QED
    BY <1>4, <1>5, <2>1, FlattenIs
<1>9. f[n] = s
  <2>1. f[n] = SubSeq(s, 1, Len(s))
    OBVIOUS
  <2> QED
    BY <2>1, SubSeqFull
<1> QED
  BY <1>8, <1>9

(* What n files get, one after the other, are the rows.                    *)
LEMMA SharesCover ==
    ASSUME NEW rows \in Batches, NEW n \in Nat, n = 0 => Len(rows) = 0
    PROVE  FlattenSeq([i \in 1..n |-> Share(rows, i - 1, n)]) = rows
<1>1. Len(rows) \in Nat
  BY DEF Batches
<1>2. CASE n = 0
  <2>1. rows = << >>
    BY <1>2 DEF Batches
  <2>2. FlattenSeq([i \in 1..0 |-> Share(rows, i - 1, 0)]) = << >>
    BY DEF FlattenSeq
  <2> QED
    BY <1>2, <2>1, <2>2
<1>3. CASE n # 0
  <2> DEFINE l == Len(rows)
             q == l \div n
             m == l % n
             Cut(j) == q * j + (IF j <= m THEN j ELSE m)
             c == [j \in 0..n |-> Cut(j)]
  <2> HIDE DEF l
  <2>1. l \in Nat /\ n > 0
    BY <1>1, <1>3 DEF l
  <2>2. q \in Nat /\ m \in 0..(n - 1) /\ l = n * q + m
    BY <2>1
  <2> HIDE DEF q, m
  <2>3. ASSUME NEW j \in Nat PROVE q * j \in Nat
    BY <2>2
  <2>4. Cut(0) = 0
    BY <2>2
  <2>5. Cut(n) = l
    <3>1. q * n = n * q
      BY <2>2
    <3> DEFINE p == q * n
    <3>2. Cut(n) = p + m
      BY <2>1, <2>2
    <3> QED
      BY <2>2, <3>1, <3>2
  <2>6. ASSUME NEW j \in Nat, NEW k \in Nat, j <= k PROVE Cut(j) <= Cut(k) /\ Cut(j) \in Nat
    <3>1. PICK d \in Nat : k = j + d
      <4>1. k - j \in Nat /\ k = j + (k - j)
        BY <2>6
      <4> QED
        BY <4>1
    <3>2. q * k = q * j + q * d
      BY <2>2, <3>1
    <3> DEFINE x == q * j
               y == q * d
               z == q * k
    <3>3. x \in Nat /\ y \in Nat /\ z = x + y
      BY <2>3, <3>2
    <3>4. Cut(j) = x + (IF j <= m THEN j ELSE m) /\ Cut(k) = z + (IF k <= m THEN k ELSE m)
      OBVIOUS
    <3> HIDE DEF x, y, z, Cut
    <3> QED
      BY <2>2, <2>6, <3>3, <3>4
  <2>7. \A j \in 0..n : Cut(j) \in 0..l
    <3> HIDE DEF Cut
    <3>1. ASSUME NEW j \in 0..n PROVE Cut(j) <= Cut(n) /\ Cut(j) \in Nat
      BY <2>1, <2>6
    <3> QED
      BY <2>1, <2>5, <3>1
  <2>8. \A k \in 1..n : Cut(k - 1) <= Cut(k)
    <3> HIDE DEF Cut
    <3>1. \A k \in 1..n : k - 1 \in Nat /\ k \in Nat /\ k - 1 <= k
      OBVIOUS
    <3> QED
      BY <2>6, <3>1
  <2>9. \A i \in 1..n : Share(rows, i - 1, n) = SubSeq(rows, Cut(i - 1) + 1, Cut(i))
    <3>1. \A i \in 1..n : (i - 1) + 1 = i
      OBVIOUS
    <3>2. \A i \in 1..n : Share(rows, i - 1, n) = SubSeq(rows, Cut(i - 1) + 1, Cut((i - 1) + 1))
      BY DEF Share, l, q, m
    <3> HIDE DEF Cut
    <3> QED
      BY <3>1, <3>2
  <2> HIDE DEF Cut
  <2>10. c \in [0..n -> 0..Len(rows)] /\ c[0] = 0 /\ c[n] = Len(rows)
         /\ \A k \in 1..n : c[k - 1] = Cut(k - 1) /\ c[k] = Cut(k)
    BY <2>1, <2>4, <2>5, <2>7 DEF l
  <2>11. [i \in 1..n |-> Share(rows, i - 1, n)] = [k \in 1..n |-> SubSeq(rows, c[k - 1] + 1, c[k])]
    <3> HIDE DEF c
    <3> QED
      BY <2>9, <2>10
  <2>12. FlattenSeq([k \in 1..n |-> SubSeq(rows, c[k - 1] + 1, c[k])]) = rows
    <3> HIDE DEF c
    <3>1. \A k \in 1..n : c[k - 1] <= c[k]
      BY <2>8, <2>10
    <3> QED
      BY <2>10, <3>1, PiecesCover DEF Batches
  <2> QED
    BY <2>11, <2>12
<1> QED
  BY <1>2, <1>3

-----------------------------------------------------------------------------
(* Runs of the executor.                                                   *)

Stages1 == {<<op>> : op \in Ops}

(* What a run holds in each phase.                                         *)
ControlInv ==
    /\ recipe \in Seq(Ops) /\ opRecord \in Seq(Ops)
    /\ record \in Seq(Ops) \cup {None, Torn}
    /\ ~fusing => left \in Seq(Stages1)
    /\ phase \in {"save"} \cup Saving => ~fusing
    /\ phase = "open" => ~touched
    /\ phase \in {"open", "running", "export", "exporting", "done"} => ~raised
    /\ phase \in {"record", "recording"} /\ dataset.rows # << >> => latest = dataset

(* Between opening a checkpoint and saving one, what a run without fusion  *)
(* holds is what the operators of its record make of the input.            *)
DataInv ==
    /\ phase = "open" /\ available => latest # None /\ record = opRecord /\ record \notin {None, Torn}
    /\ phase = "open" /\ ~available => opRecord = << >>
    /\ ~fusing /\ phase \in {"running", "save"} \cup Saving => misled \/ dataset = Outcome(opRecord)

LInv == ControlInv /\ DataInv /\ ProgressKept /\ CheckpointSound

LEMMA SinglesType ==
    ASSUME NEW s \in Seq(Ops)
    PROVE  Singles(s) \in Seq(Stages1)
<1>1. DOMAIN s = 1..Len(s) /\ Len(s) \in Nat /\ \A i \in 1..Len(s) : s[i] \in Ops
  BY ElementOfSeq
<1>2. \A i \in 1..Len(s) : <<s[i]>> \in Stages1
  BY <1>1 DEF Stages1
<1>3. Singles(s) \in [1..Len(s) -> Stages1]
  BY <1>1, <1>2 DEF Singles
<1> QED
  BY <1>1, <1>3

LEMMA SourceType == Source \in Batches
BY InputAssumption DEF Batches

LEMMA InputOutcome == Input = Outcome(<< >>)
BY SourceType, SequentialEmpty DEF Input, Outcome

LEMMA ApplyOutcome ==
    ASSUME NEW s \in Seq(Ops), NEW op \in Ops
    PROVE  Apply(<<op>>, Outcome(s)) = Outcome(s \o <<op>>)
<1>1. Sequential(s, Source) \in Batches
  BY SourceType, SequentialType
<1>2. RunStage(<<op>>, Sequential(s, Source)) = Sequential(s \o <<op>>, Source)
  BY <1>1, SourceType, SingleStage, SequentialAppend
<1> QED
  BY <1>2 DEF Apply, Outcome

LEMMA LInvInit == Init => LInv
<1> SUFFICES ASSUME Init PROVE LInv
  OBVIOUS
<1>1. ControlInv
  BY DEF Init, ControlInv, Saving
<1>2. DataInv
  BY DEF Init, DataInv, Saving
<1>3. ProgressKept /\ CheckpointSound
  BY DEF Init, ProgressKept, CheckpointSound
<1> QED
  BY <1>1, <1>2, <1>3 DEF LInv

LEMMA LInvBegin ==
    ASSUME LInv, NEW r \in Recipes, Start(r) \/ StartFusing(r) \/ StartRaises(r)
    PROVE  LInv'
<1>1. r \in Seq(Ops)
  BY InputAssumption
<1>2. /\ phase \in Down /\ recipe' = r /\ touched' = FALSE /\ raised' = FALSE
      /\ UNCHANGED <<latest, record, broken>>
  BY DEF Start, StartFusing, StartRaises, Begin
<1>3. Matches(r) => record \in Seq(Ops) /\ record \notin {None, Torn} /\ latest # None
  BY DEF Matches, LInv, ControlInv
<1>4. /\ phase' \in {"open", "failed"}
      /\ opRecord' \in Seq(Ops)
      /\ phase' = "open" /\ available' => Matches(r) /\ opRecord' = record
      /\ phase' = "open" /\ ~available' => opRecord' = << >>
  <2>1. << >> \in Seq(Ops)
    OBVIOUS
  <2> QED
    BY <1>3, <2>1 DEF Start, StartFusing, StartRaises
<1>5. ~fusing' => left' \in Seq(Stages1)
  <2>1. CASE Start(r)
    <3>1. CASE Matches(r)
      <4>1. Len(record) \in Nat /\ Len(r) \in Nat
        BY <1>1, <1>3, <3>1
      <4>2. \A i \in (Len(record) + 1)..Len(r) : r[i] \in Ops
        BY <1>1, <4>1, ElementOfSeq
      <4>3. SubSeq(r, Len(record) + 1, Len(r)) \in Seq(Ops)
        BY <4>1, <4>2, SubSeqProperties
      <4> QED
        BY <2>1, <3>1, <4>3, SinglesType DEF Start
    <3>2. CASE ~Matches(r)
      BY <1>1, <2>1, <3>2, SinglesType DEF Start
    <3> QED
      BY <3>1, <3>2
  <2>2. CASE StartFusing(r)
    BY <2>2 DEF StartFusing
  <2>3. CASE StartRaises(r)
    BY <1>1, <2>3, SinglesType DEF StartRaises
  <2> QED
    BY <2>1, <2>2, <2>3
<1>6. ControlInv'
  BY <1>1, <1>2, <1>4, <1>5 DEF LInv, ControlInv, Saving
<1>7. DataInv'
  BY <1>2, <1>3, <1>4 DEF DataInv, Saving
<1>8. ProgressKept'
  BY <1>2 DEF ProgressKept
<1>9. CheckpointSound'
  BY <1>2 DEF LInv, CheckpointSound, Down, Saving, Outcome
<1> QED
  BY <1>6, <1>7, <1>8, <1>9 DEF LInv

LEMMA LInvLoad ==
    ASSUME LInv, Load \/ LoadRaises
    PROVE  LInv'
<1>1. CASE Load
  <2>1. /\ phase = "open" /\ phase' = "running" /\ ~(available /\ latest = Torn)
        /\ dataset' = (IF available THEN latest ELSE Input)
        /\ misled' = (available /\ broken)
        /\ UNCHANGED <<latest, record, recipe, fusing, opRecord, left, touched, raised, broken>>
    BY <1>1 DEF Load, config
  <2>2. ControlInv'
    BY <2>1 DEF LInv, ControlInv, Saving
  <2>3. misled' \/ dataset' = Outcome(opRecord)
    <3>1. CASE ~available
      BY <2>1, <3>1, InputOutcome DEF LInv, DataInv
    <3>2. CASE available
      <4>1. latest \notin {None, Torn} /\ record = opRecord /\ record \notin {None, Torn}
        BY <2>1, <3>2 DEF LInv, DataInv
      <4>2. broken \/ latest = Outcome(record)
        BY <2>1, <4>1 DEF LInv, CheckpointSound, Saving
      <4> QED
        BY <2>1, <3>2, <4>1, <4>2
    <3> QED
      BY <3>1, <3>2
  <2>4. DataInv'
    BY <2>1, <2>3 DEF DataInv, Outcome
  <2>5. ProgressKept'
    BY <2>1 DEF ProgressKept
  <2>6. CheckpointSound'
    BY <2>1 DEF LInv, CheckpointSound, Saving, Outcome
  <2> QED
    BY <2>2, <2>4, <2>5, <2>6 DEF LInv
<1>2. CASE LoadRaises
  <2>1. /\ phase = "open" /\ phase' = "failed"
        /\ UNCHANGED <<latest, record, recipe, fusing, opRecord, left, dataset, touched,
                       raised, broken, misled>>
    BY <1>2 DEF LoadRaises, config, disk, manager, history
  <2>2. ControlInv'
    BY <2>1 DEF LInv, ControlInv, Saving
  <2>3. DataInv'
    BY <2>1 DEF DataInv, Saving
  <2>4. ProgressKept'
    BY <2>1 DEF LInv, ControlInv, ProgressKept
  <2>5. CheckpointSound'
    BY <2>1 DEF LInv, CheckpointSound, Saving, Outcome
  <2> QED
    BY <2>2, <2>3, <2>4, <2>5 DEF LInv
<1> QED
  BY <1>1, <1>2

LEMMA LInvProcess ==
    ASSUME LInv, RunOp \/ Raise \/ Processed
    PROVE  LInv'
<1>1. CASE RunOp
  <2>1. /\ phase = "running" /\ left # << >>
        /\ dataset' = Apply(Head(left), dataset)
        /\ opRecord' = (IF fusing THEN opRecord ELSE opRecord \o Head(left))
        /\ left' = Tail(left)
        /\ UNCHANGED <<latest, record, phase, recipe, fusing, raised, broken, misled>>
    BY <1>1 DEF RunOp, disk, config, history
  <2>2. ASSUME ~fusing
        PROVE  \E op \in Ops : Head(left) = <<op>> /\ Tail(left) \in Seq(Stages1)
    <3>1. left \in Seq(Stages1)
      BY <2>2 DEF LInv, ControlInv
    <3>2. Head(left) \in Stages1 /\ Tail(left) \in Seq(Stages1)
      BY <2>1, <3>1, HeadTailProperties
    <3> QED
      BY <3>2 DEF Stages1
  <2>3. opRecord' \in Seq(Ops) /\ (~fusing => left' \in Seq(Stages1))
    <3>1. opRecord \in Seq(Ops)
      BY DEF LInv, ControlInv
    <3>2. ASSUME NEW op \in Ops PROVE opRecord \o <<op>> \in Seq(Ops)
      BY <3>1
    <3> QED
      BY <2>1, <2>2, <3>1, <3>2
  <2>4. ControlInv'
    BY <2>1, <2>3 DEF LInv, ControlInv, Saving
  <2>5. ASSUME ~fusing, ~misled PROVE dataset' = Outcome(opRecord')
    <3>1. PICK op \in Ops : Head(left) = <<op>>
      BY <2>2, <2>5
    <3>2. dataset = Outcome(opRecord) /\ opRecord \in Seq(Ops)
      BY <2>1, <2>5 DEF LInv, DataInv, ControlInv
    <3>3. Apply(<<op>>, Outcome(opRecord)) = Outcome(opRecord \o <<op>>)
      BY <3>2, ApplyOutcome
    <3> QED
      BY <2>1, <2>5, <3>1, <3>2, <3>3
  <2>6. DataInv'
    BY <2>1, <2>5 DEF DataInv, Outcome
  <2>7. ProgressKept'
    BY <2>1 DEF ProgressKept
  <2>8. CheckpointSound'
    BY <2>1 DEF LInv, CheckpointSound, Saving, Outcome
  <2> QED
    BY <2>4, <2>6, <2>7, <2>8 DEF LInv
<1>2. CASE Raise \/ Processed
  <2>1. /\ phase = "running"
        /\ UNCHANGED <<latest, record, recipe, fusing, opRecord, left, dataset, touched, broken, misled>>
        /\ phase' = "save" => ~fusing
        /\ \/ phase' = "save"
           \/ phase' = "failed" /\ (~touched \/ fusing)
           \/ phase' = "export" /\ UNCHANGED raised
    BY <1>2 DEF Raise, Processed, disk, config, manager, history
  <2>2. ControlInv'
    BY <2>1 DEF LInv, ControlInv, Saving
  <2>3. DataInv'
    BY <2>1 DEF LInv, DataInv, Saving, Outcome
  <2>4. ProgressKept'
    BY <2>1 DEF ProgressKept
  <2>5. CheckpointSound'
    BY <2>1 DEF LInv, CheckpointSound, Saving, Outcome
  <2> QED
    BY <2>2, <2>3, <2>4, <2>5 DEF LInv
<1> QED
  BY <1>1, <1>2

LEMMA LInvSave ==
    ASSUME LInv, BeginSave \/ FinishSave \/ SkipSave \/ OpenRecord
    PROVE  LInv'
<1>1. /\ phase \in {"save"} \cup Saving /\ phase' \in Saving
      /\ UNCHANGED <<recipe, fusing, opRecord, left, dataset, broken, misled>>
      /\ record' \in {record, Torn}
      /\ phase' = "record" => \/ dataset.rows = << >>
                              \/ latest' = dataset
      /\ phase' = "recording" => phase = "record" /\ latest' = latest
  BY DEF BeginSave, FinishSave, SkipSave, OpenRecord, disk, config, manager, history, Saving
<1>2. ControlInv'
  BY <1>1 DEF LInv, ControlInv, Saving
<1>3. DataInv'
  BY <1>1 DEF LInv, DataInv, Saving, Outcome
<1>4. ProgressKept' /\ CheckpointSound'
  BY <1>1 DEF ProgressKept, CheckpointSound, Saving
<1> QED
  BY <1>2, <1>3, <1>4 DEF LInv

LEMMA LInvRecord ==
    ASSUME LInv, WriteRecord
    PROVE  LInv'
<1>1. /\ phase = "recording" /\ record' = opRecord
      /\ phase' = (IF raised THEN "failed" ELSE "export")
      /\ broken' = (misled \/ (dataset.rows = << >> /\ latest # None))
      /\ UNCHANGED <<latest, recipe, fusing, opRecord, left, dataset, touched, raised, misled>>
  BY DEF WriteRecord, config, manager
<1>2. ControlInv'
  BY <1>1 DEF LInv, ControlInv, Saving
<1>3. DataInv'
  BY <1>1 DEF DataInv, Saving
<1>4. ProgressKept'
  BY <1>1 DEF LInv, ControlInv, ProgressKept
<1>5. CheckpointSound'
  <2> SUFFICES ASSUME latest # None, ~broken' PROVE latest' = Outcome(record')
    BY <1>1 DEF CheckpointSound, Outcome
  <2>1. ~misled /\ dataset.rows # << >>
    BY <1>1
  <2>2. latest = dataset /\ ~fusing
    BY <1>1, <2>1 DEF LInv, ControlInv, Saving
  <2>3. dataset = Outcome(opRecord)
    BY <1>1, <2>1, <2>2 DEF LInv, DataInv, Saving
  <2> QED
    BY <1>1, <2>2, <2>3
<1> QED
  BY <1>2, <1>3, <1>4, <1>5 DEF LInv

LEMMA LInvExport ==
    ASSUME LInv, \/ StartExport \/ Complete
                 \/ \E i \in todo : WriteFile(i) \/ FailFile(i)
    PROVE  LInv'
<1>1. /\ phase \in {"export", "exporting"} /\ phase' \in {"exporting", "done", "failed"}
      /\ UNCHANGED <<latest, record, recipe, fusing, opRecord, left, dataset, touched,
                     raised, broken, misled>>
  BY DEF StartExport, Complete, WriteFile, FailFile, disk, config, manager, history
<1>2. ControlInv'
  BY <1>1 DEF LInv, ControlInv, Saving
<1>3. DataInv'
  BY <1>1 DEF DataInv, Saving
<1>4. ProgressKept'
  BY <1>1 DEF LInv, ControlInv, ProgressKept
<1>5. CheckpointSound'
  BY <1>1 DEF LInv, CheckpointSound, Saving, Outcome
<1> QED
  BY <1>2, <1>3, <1>4, <1>5 DEF LInv

LEMMA LInvKill ==
    ASSUME LInv, Kill
    PROVE  LInv'
<1>1. /\ phase' = "down" /\ broken' = (broken \/ phase \in Saving)
      /\ UNCHANGED <<latest, record, recipe, fusing, opRecord, left, dataset>>
  BY DEF Kill, disk, config, manager
<1>2. ControlInv'
  BY <1>1 DEF LInv, ControlInv, Saving
<1>3. DataInv' /\ ProgressKept'
  BY <1>1 DEF DataInv, ProgressKept, Saving
<1>4. CheckpointSound'
  BY <1>1 DEF LInv, CheckpointSound, Outcome
<1> QED
  BY <1>2, <1>3, <1>4 DEF LInv

LEMMA LInvNext == LInv /\ [Next]_vars => LInv'
<1> SUFFICES ASSUME LInv, [Next]_vars PROVE LInv'
  OBVIOUS
<1>1. CASE UNCHANGED vars
  <2>1. UNCHANGED <<latest, record, phase, recipe, fusing, available, opRecord, left,
                    dataset, touched, raised, broken, misled>>
    BY <1>1 DEF vars
  <2> QED
    BY <2>1 DEF LInv, ControlInv, DataInv, ProgressKept, CheckpointSound, Saving, Outcome
<1>2. CASE Next
  <2>1. CASE \E r \in Recipes : Start(r) \/ StartFusing(r) \/ StartRaises(r)
    BY <2>1, LInvBegin
  <2>2. CASE Load \/ LoadRaises
    BY <2>2, LInvLoad
  <2>3. CASE RunOp \/ Raise \/ Processed
    BY <2>3, LInvProcess
  <2>4. CASE BeginSave \/ FinishSave \/ SkipSave \/ OpenRecord
    BY <2>4, LInvSave
  <2>5. CASE WriteRecord
    BY <2>5, LInvRecord
  <2>6. CASE \/ StartExport \/ Complete
             \/ \E i \in todo : WriteFile(i) \/ FailFile(i)
    BY <2>6, LInvExport
  <2>7. CASE Kill
    BY <2>7, LInvKill
  <2>8. CASE Finished
    BY <1>1, <2>8 DEF Finished
  <2> QED
    BY <1>2, <2>1, <2>2, <2>3, <2>4, <2>5, <2>6, <2>7, <2>8 DEF Next
<1> QED
  BY <1>1, <1>2

(* A checkpoint that can be read is what its record says                   *)
(* (CheckpointManager.save_checkpoint, check_ops_to_skip), for any input,  *)
(* recipes and operators, any number of runs and faults, unless the last   *)
(* save was cut short or skipped an empty dataset.                         *)
THEOREM CheckpointsSound == Spec => []CheckpointSound
<1>1. LInv => CheckpointSound
  BY DEF LInv
<1> QED
  BY <1>1, LInvInit, LInvNext, PTL DEF Spec

(* What ended before an operator raised is in the checkpoint when the run  *)
(* has failed (the finally of NestedDataset.process).                      *)
THEOREM ProgressAlwaysKept == Spec => []ProgressKept
<1>1. LInv => ProgressKept
  BY DEF LInv
<1> QED
  BY <1>1, LInvInit, LInvNext, PTL DEF Spec

-----------------------------------------------------------------------------
(* What a run exports.                                                     *)

Held == [rows : Batches, ops : Seq(Ops)]

HeldInv ==
    /\ left \in Seq(Stage) /\ shardRows \in Nat
    /\ dataset \in Held /\ latest \in Held \cup {None, Torn}

(* The stages that are left make of what the run holds, or is about to     *)
(* load, what the recipe makes of the input.                               *)
PlanInv ==
    /\ phase = "open" =>
           Sequential(opRecord \o FlattenSeq(left), Source) = Sequential(recipe, Source)
    /\ phase = "running" /\ ~misled =>
           /\ dataset.rows = Sequential(dataset.ops, Source)
           /\ Sequential(dataset.ops \o FlattenSeq(left), Source) = Sequential(recipe, Source)
    /\ phase \in {"save", "export", "exporting", "done"} \cup Saving /\ ~raised /\ ~misled =>
           dataset.rows = Sequential(recipe, Source)

(* The files that an export no longer has to write have their shares.      *)
Count == FileCount(Len(dataset.rows))
ExportInv ==
    /\ phase = "exporting" => todo \subseteq 0..(Count - 1)
    /\ phase = "done" => todo = {}
    /\ phase \in {"exporting", "done"} /\ ~lost =>
           \A i \in (0..(Count - 1)) \ todo :
               /\ FileName(i, Count) \in DOMAIN files
               /\ files[FileName(i, Count)] = Share(dataset.rows, i, Count)

AInv == LInv /\ HeldInv /\ PlanInv /\ ExportInv

LEMMA SinglesPlan ==
    ASSUME NEW s \in Seq(Ops)
    PROVE  Singles(s) \in Seq(Stage) /\ FlattenSeq(Singles(s)) = s
<1>1. Singles(s) \in Seq(Stages1)
  BY SinglesType
<1>2. Stages1 \subseteq Stage
  BY StageKinds DEF Stages1
<1> QED
  BY <1>1, <1>2, SeqMonotonic, SinglesFlatten

LEMMA AInvInit == Init => AInv
<1> SUFFICES ASSUME Init PROVE AInv
  OBVIOUS
<1>1. HeldInv
  <2>1. << >> \in Seq(Stage) /\ << >> \in Seq(Ops)
    OBVIOUS
  <2> QED
    BY <2>1, SourceType DEF Init, HeldInv, Held, Input
<1>2. PlanInv
  BY DEF Init, PlanInv, Saving
<1>3. ExportInv
  BY DEF Init, ExportInv
<1> QED
  BY <1>1, <1>2, <1>3, LInvInit DEF AInv

LEMMA AInvBegin ==
    ASSUME AInv, NEW r \in Recipes, Start(r) \/ StartFusing(r) \/ StartRaises(r)
    PROVE  AInv'
<1>1. r \in Seq(Ops)
  BY InputAssumption
<1>2. /\ recipe' = r /\ shardRows' \in ShardSizes /\ dataset' = Input /\ latest' = latest
      /\ phase' \in {"open", "failed"}
  BY DEF Start, StartFusing, StartRaises, Begin
<1>3. /\ left' \in Seq(Stage)
      /\ phase' = "open" => Sequential(opRecord' \o FlattenSeq(left'), Source) = Sequential(r, Source)
  <2>1. \A x \in Seq(Ops) : << >> \o x = x
    OBVIOUS
  <2>2. CASE Start(r)
    <3>1. CASE Matches(r)
      <4>1. record \in Seq(Ops) /\ IsPrefix(record, r)
        BY <3>1 DEF Matches, AInv, LInv, ControlInv
      <4> DEFINE k == Len(record)
                 rest == SubSeq(r, k + 1, Len(r))
      <4>2. k \in 0..Len(r) /\ record = SubSeq(r, 1, k) /\ Len(r) \in Nat
        BY <1>1, <4>1 DEF IsPrefix
      <4>3. rest \in Seq(Ops)
        <5>1. \A i \in (k + 1)..Len(r) : r[i] \in Ops
          BY <1>1, <4>2, ElementOfSeq
        <5> QED
          BY <4>2, <5>1, SubSeqProperties
      <4>4. record \o rest = r
        <5>1. 1 \in 1..(Len(r) + 1) /\ k \in (1 - 1)..Len(r) /\ Len(r) \in k..Len(r)
          BY <4>2
        <5> HIDE DEF k
        <5>2. SubSeq(r, 1, k) \o SubSeq(r, k + 1, Len(r)) = SubSeq(r, 1, Len(r))
          BY <1>1, <5>1, ConcatAdjacentSubSeq
        <5> QED
          BY <1>1, <4>2, <5>2, SubSeqFull
      <4>5. left' = Singles(rest) /\ opRecord' = record
        BY <2>2, <3>1 DEF Start
      <4> HIDE DEF rest
      <4> QED
        BY <4>3, <4>4, <4>5, SinglesPlan
    <3>2. CASE ~Matches(r)
      BY <1>1, <2>1, <2>2, <3>2, SinglesPlan DEF Start
    <3> QED
      BY <3>1, <3>2
  <2>3. CASE StartFusing(r)
    <3>1. opRecord' = << >> /\ left' \in Plans[r]
      BY <2>3 DEF StartFusing
    <3>2. PICK time \in Probes \cup {[op \in Ops |-> 0]} : left' = FuseOperators(r, time)
      BY <3>1 DEF Plans
    <3>3. time \in [Ops -> Nat]
      BY InputAssumption
    <3>4. /\ FuseOperators(r, time) \in Seq(Stage)
          /\ Sequential(FlattenSeq(FuseOperators(r, time)), Source) = Sequential(r, Source)
      BY <1>1, <3>3, SourceType, FusionAgrees
    <3>5. FlattenSeq(FuseOperators(r, time)) \in Seq(Ops)
      BY <3>4, StagesFlatten
    <3> QED
      BY <2>1, <3>1, <3>2, <3>4, <3>5
  <2>4. CASE StartRaises(r)
    BY <1>1, <2>4, SinglesPlan DEF StartRaises
  <2> QED
    BY <2>2, <2>3, <2>4
<1>4. HeldInv'
  <2>1. shardRows' \in Nat
    BY <1>2, BoundsAssumption
  <2>2. Input \in Held
    <3>1. << >> \in Seq(Ops)
      OBVIOUS
    <3> QED
      BY <3>1, SourceType DEF Held, Input
  <2> QED
    BY <1>2, <1>3, <2>1, <2>2 DEF AInv, HeldInv
<1>5. PlanInv'
  BY <1>2, <1>3 DEF PlanInv, Saving
<1>6. ExportInv'
  BY <1>2 DEF ExportInv
<1>7. LInv'
  BY LInvBegin DEF AInv
<1> QED
  BY <1>4, <1>5, <1>6, <1>7 DEF AInv

LEMMA AInvLoad ==
    ASSUME AInv, Load \/ LoadRaises
    PROVE  AInv'
<1>1. UNCHANGED <<latest, recipe, shardRows, opRecord, left>>
  BY DEF Load, LoadRaises, config, disk, manager
<1>2. LInv'
  BY LInvLoad DEF AInv
<1>3. CASE Load
  <2>1. /\ phase = "open" /\ phase' = "running" /\ ~(available /\ latest = Torn)
        /\ dataset' = (IF available THEN latest ELSE Input)
        /\ misled' = (available /\ broken)
        /\ UNCHANGED record
    BY <1>3 DEF Load
  <2>2. available => latest \in Held /\ latest # Torn /\ latest # None
    BY <2>1 DEF AInv, HeldInv, LInv, DataInv
  <2>3. Input \in Held
    <3>1. << >> \in Seq(Ops)
      OBVIOUS
    <3> QED
      BY <3>1, SourceType DEF Held, Input
  <2>4. HeldInv'
    BY <1>1, <2>1, <2>2, <2>3 DEF AInv, HeldInv
  <2>5. ASSUME ~misled' PROVE dataset' = Outcome(opRecord)
    <3>1. CASE ~available
      BY <2>1, <3>1, InputOutcome DEF AInv, LInv, DataInv
    <3>2. CASE available
      <4>1. latest \notin {None, Torn} /\ record = opRecord /\ record \notin {None, Torn}
        BY <2>1, <2>2, <3>2 DEF AInv, LInv, DataInv
      <4>2. latest = Outcome(record)
        BY <2>1, <2>5, <3>2, <4>1 DEF AInv, LInv, CheckpointSound, Saving
      <4> QED
        BY <2>1, <3>2, <4>1, <4>2
    <3> QED
      BY <3>1, <3>2
  <2>6. ~misled' => /\ dataset'.rows = Sequential(dataset'.ops, Source)
                    /\ dataset'.ops = opRecord
    BY <2>5 DEF Outcome
  <2>7. Sequential(opRecord \o FlattenSeq(left), Source) = Sequential(recipe, Source)
    BY <2>1 DEF AInv, PlanInv
  <2>8. PlanInv'
    BY <1>1, <2>1, <2>6, <2>7 DEF PlanInv, Saving
  <2>9. ExportInv'
    BY <2>1 DEF ExportInv
  <2> QED
    BY <1>2, <2>4, <2>8, <2>9 DEF AInv
<1>4. CASE LoadRaises
  <2>1. phase' = "failed" /\ UNCHANGED dataset
    BY <1>4 DEF LoadRaises
  <2>2. HeldInv'
    BY <1>1, <2>1 DEF AInv, HeldInv
  <2>3. PlanInv' /\ ExportInv'
    BY <2>1 DEF PlanInv, ExportInv, Saving
  <2> QED
    BY <1>2, <2>2, <2>3 DEF AInv
<1> QED
  BY <1>3, <1>4

LEMMA AInvProcess ==
    ASSUME AInv, RunOp \/ Raise \/ Processed
    PROVE  AInv'
<1>1. LInv'
  BY LInvProcess DEF AInv
<1>2. CASE RunOp
  <2>1. /\ phase = "running" /\ phase' = "running" /\ left # << >>
        /\ dataset' = Apply(Head(left), dataset) /\ left' = Tail(left)
        /\ UNCHANGED <<latest, recipe, shardRows, misled>>
    BY <1>2 DEF RunOp, disk, config, history
  <2> DEFINE s == Head(left)
             t == Tail(left)
  <2>2. /\ s \in Stage /\ s \in Seq(Ops) /\ t \in Seq(Stage) /\ left = <<s>> \o t
        /\ dataset.rows \in Batches /\ dataset.ops \in Seq(Ops)
    <3>1. left \in Seq(Stage) /\ dataset \in Held
      BY DEF AInv, HeldInv
    <3>2. s \in Stage /\ t \in Seq(Stage)
      BY <2>1, <3>1, HeadTailProperties
    <3>3. left = <<s>> \o t
      <4>1. \A X : \A l \in Seq(X) : l # << >> => l = <<Head(l)>> \o Tail(l)
        OBVIOUS
      <4> QED
        BY <2>1, <3>1, <4>1
    <3> QED
      BY <3>1, <3>2, <3>3, StageKinds DEF Held
  <2>3. dataset' = [rows |-> Sequential(s, dataset.rows), ops |-> dataset.ops \o s]
    BY <2>1, <2>2, StagesAgree DEF Apply
  <2> HIDE DEF s, t
  <2>4. Sequential(s, dataset.rows) \in Batches /\ dataset.ops \o s \in Seq(Ops)
    BY <2>2, SequentialType, ConcatProperties
  <2>5. HeldInv'
    <3>1. dataset' \in Held
      BY <2>3, <2>4 DEF Held
    <3>2. left' \in Seq(Stage)
      BY <2>1, <2>2 DEF t
    <3>3. latest' \in Held \cup {None, Torn} /\ shardRows' \in Nat
      BY <2>1 DEF AInv, HeldInv
    <3> QED
      BY <3>1, <3>2, <3>3 DEF HeldInv
  <2>6. FlattenSeq(left) = s \o FlattenSeq(t) /\ FlattenSeq(t) \in Seq(Ops)
    <3>1. <<s>> \in Seq(Stage) /\ FlattenSeq(<<s>>) = s
      BY <2>2, FlattenOne
    <3>2. FlattenSeq(<<s>> \o t) = FlattenSeq(<<s>>) \o FlattenSeq(t)
      BY <2>2, <3>1, StagesFlatten, FlattenConcat
    <3> QED
      BY <2>2, <3>1, <3>2, StagesFlatten
  <2>7. ASSUME ~misled
        PROVE  /\ dataset'.rows = Sequential(dataset'.ops, Source)
               /\ Sequential(dataset'.ops \o FlattenSeq(t), Source) = Sequential(recipe, Source)
    <3>1. /\ dataset.rows = Sequential(dataset.ops, Source)
          /\ Sequential(dataset.ops \o FlattenSeq(left), Source) = Sequential(recipe, Source)
      BY <2>1, <2>7 DEF AInv, PlanInv
    <3>2. Sequential(dataset.ops \o s, Source) = Sequential(s, dataset.rows)
      BY <2>2, <3>1, SourceType, SequentialConcat
    <3>3. dataset.ops \o (s \o FlattenSeq(t)) = (dataset.ops \o s) \o FlattenSeq(t)
      <4>1. \A x, y, z \in Seq(Ops) : x \o (y \o z) = (x \o y) \o z
        OBVIOUS
      <4> QED
        BY <2>2, <2>6, <4>1
    <3>4. dataset'.rows = Sequential(s, dataset.rows) /\ dataset'.ops = dataset.ops \o s
      BY <2>3
    <3> QED
      BY <2>6, <3>1, <3>2, <3>3, <3>4
  <2>8. PlanInv'
    BY <2>1, <2>7 DEF PlanInv, Saving, t
  <2>9. ExportInv'
    BY <2>1 DEF ExportInv
  <2> QED
    BY <1>1, <2>5, <2>8, <2>9 DEF AInv
<1>3. CASE Raise \/ Processed
  <2>1. /\ phase = "running" /\ phase' \in {"save", "export", "failed"}
        /\ UNCHANGED <<latest, recipe, shardRows, left, dataset, misled>>
        /\ raised' \/ left = << >>
    BY <1>3 DEF Raise, Processed, disk, config, manager, history
  <2>2. HeldInv'
    BY <2>1 DEF AInv, HeldInv
  <2>3. ASSUME ~misled, left = << >> PROVE dataset.rows = Sequential(recipe, Source)
    <3>1. FlattenSeq(left) = << >>
      BY <2>3 DEF FlattenSeq
    <3>2. dataset.ops \o << >> = dataset.ops
      <4>1. dataset.ops \in Seq(Ops)
        BY DEF AInv, HeldInv, Held
      <4> QED
        BY <4>1
    <3> QED
      BY <2>1, <2>3, <3>1, <3>2 DEF AInv, PlanInv
  <2>4. PlanInv'
    BY <2>1, <2>3 DEF PlanInv, Saving
  <2>5. ExportInv'
    BY <2>1 DEF ExportInv
  <2> QED
    BY <1>1, <2>2, <2>4, <2>5 DEF AInv
<1> QED
  BY <1>2, <1>3

LEMMA AInvSave ==
    ASSUME AInv, BeginSave \/ FinishSave \/ SkipSave \/ OpenRecord \/ WriteRecord
    PROVE  AInv'
<1>1. LInv'
  BY LInvSave, LInvRecord DEF AInv
<1>2. /\ phase \in {"save"} \cup Saving /\ phase' \in Saving \cup {"failed", "export"}
      /\ latest' \in {latest, dataset, Torn}
      /\ UNCHANGED <<recipe, shardRows, left, dataset, raised, misled>>
  BY DEF BeginSave, FinishSave, SkipSave, OpenRecord, WriteRecord,
         disk, config, manager, history, Saving
<1>3. HeldInv'
  BY <1>2 DEF AInv, HeldInv
<1>4. PlanInv'
  BY <1>2 DEF AInv, PlanInv, Saving
<1>5. ExportInv'
  BY <1>2 DEF ExportInv, Saving
<1> QED
  BY <1>1, <1>3, <1>4, <1>5 DEF AInv

LEMMA AInvKill ==
    ASSUME AInv, Kill
    PROVE  AInv'
<1>1. LInv'
  BY LInvKill DEF AInv
<1>2. phase' = "down" /\ UNCHANGED <<latest, shardRows, left, dataset>>
  BY DEF Kill, disk, config, manager
<1>3. HeldInv'
  BY <1>2 DEF AInv, HeldInv
<1>4. PlanInv' /\ ExportInv'
  BY <1>2 DEF PlanInv, ExportInv, Saving
<1> QED
  BY <1>1, <1>3, <1>4 DEF AInv

LEMMA AInvExport ==
    ASSUME AInv, \/ StartExport \/ Complete
                 \/ \E i \in todo : WriteFile(i) \/ FailFile(i)
    PROVE  AInv'
<1>1. LInv'
  BY LInvExport DEF AInv
<1>2. /\ phase \in {"export", "exporting"} /\ phase' \in {"exporting", "done", "failed"}
      /\ UNCHANGED <<latest, recipe, shardRows, left, dataset, raised, misled>>
  BY DEF StartExport, Complete, WriteFile, FailFile, disk, config, manager, history
<1>3. HeldInv'
  BY <1>2 DEF AInv, HeldInv
<1>4. PlanInv'
  BY <1>2 DEF AInv, PlanInv, Saving
<1>5. UNCHANGED Count /\ \A i : FileName(i, Count)' = FileName(i, Count)
  BY <1>2 DEF Count, FileCount, ShardCount, FileName, Sharded
<1>6. ExportInv'
  <2>1. CASE StartExport
    <3>1. phase' = "exporting" /\ todo' = 0..(Count - 1)
      BY <2>1 DEF StartExport, Count
    <3> QED
      BY <1>5, <3>1 DEF ExportInv
  <2>2. CASE Complete
    <3>1. phase = "exporting" /\ phase' = "done" /\ todo = {} /\ UNCHANGED <<todo, lost, files>>
      BY <2>2 DEF Complete, history
    <3> QED
      BY <1>2, <1>5, <3>1 DEF AInv, ExportInv, Share
  <2>3. ASSUME NEW i \in todo, WriteFile(i) PROVE ExportInv'
    <3>1. /\ phase = "exporting" /\ phase' = "exporting" /\ todo' = todo \ {i}
          /\ files' = Over(Written(i), files) /\ UNCHANGED lost
      BY <2>3 DEF WriteFile, history
    <3>2. todo \subseteq 0..(Count - 1)
      BY <3>1 DEF AInv, ExportInv
    <3>3. /\ DOMAIN files' = {FileName(i, Count)} \cup DOMAIN files
          /\ files'[FileName(i, Count)] = Share(dataset.rows, i, Count)
          /\ \A f \in DOMAIN files : f # FileName(i, Count) => files'[f] = files[f]
      <4>1. Written(i) = [f \in {FileName(i, Count)} |-> Share(dataset.rows, i, Count)]
        BY DEF Written, Count
      <4> QED
        BY <3>1, <4>1 DEF Over
    <3>4. ASSUME NEW j \in 0..(Count - 1), j # i PROVE FileName(j, Count) # FileName(i, Count)
      <4>1. CASE Sharded
        BY <3>4, <4>1 DEF FileName
      <4>2. CASE ~Sharded
        <5>1. Count = 1
          BY <4>2 DEF Count, FileCount
        <5> QED
          BY <3>2, <3>4, <5>1
      <4> QED
        BY <4>1, <4>2
    <3>5. ASSUME ~lost, NEW j \in (0..(Count - 1)) \ todo'
          PROVE  /\ FileName(j, Count) \in DOMAIN files'
                 /\ files'[FileName(j, Count)] = Share(dataset.rows, j, Count)
      <4>1. CASE j = i
        BY <3>3, <4>1
      <4>2. CASE j # i
        <5>1. j \in (0..(Count - 1)) \ todo
          BY <3>1, <3>5, <4>2
        <5>2. /\ FileName(j, Count) \in DOMAIN files
              /\ files[FileName(j, Count)] = Share(dataset.rows, j, Count)
          BY <3>1, <3>5, <5>1 DEF AInv, ExportInv
        <5> QED
          BY <3>3, <3>4, <4>2, <5>2
      <4> QED
        BY <4>1, <4>2
    <3> QED
      BY <1>2, <1>5, <3>1, <3>2, <3>5 DEF ExportInv, Share
  <2>4. ASSUME NEW i \in todo, FailFile(i) PROVE ExportInv'
    <3>1. /\ phase = "exporting" /\ todo' = todo \ {i} /\ lost' = Sharded
          /\ phase' = (IF Sharded THEN "exporting" ELSE "failed")
      BY <2>4 DEF FailFile
    <3>2. todo \subseteq 0..(Count - 1)
      BY <3>1 DEF AInv, ExportInv
    <3> QED
      BY <1>5, <3>1, <3>2 DEF ExportInv
  <2> QED
    BY <2>1, <2>2, <2>3, <2>4
<1> QED
  BY <1>1, <1>3, <1>4, <1>6 DEF AInv

LEMMA AInvNext == AInv /\ [Next]_vars => AInv'
<1> SUFFICES ASSUME AInv, [Next]_vars PROVE AInv'
  OBVIOUS
<1>1. CASE UNCHANGED vars
  <2>1. UNCHANGED <<latest, files, phase, recipe, shardRows, opRecord, left, dataset,
                    raised, todo, misled, lost>>
    BY <1>1 DEF vars
  <2>2. LInv'
    BY <1>1, LInvNext DEF AInv
  <2>3. HeldInv' /\ PlanInv'
    BY <2>1 DEF AInv, HeldInv, PlanInv, Saving
  <2>4. ExportInv'
    <3>1. UNCHANGED Count /\ \A i : FileName(i, Count)' = FileName(i, Count)
      BY <2>1 DEF Count, FileCount, ShardCount, FileName, Sharded
    <3> QED
      BY <2>1, <3>1 DEF AInv, ExportInv, Share
  <2> QED
    BY <2>2, <2>3, <2>4 DEF AInv
<1>2. CASE Next
  <2>1. CASE \E r \in Recipes : Start(r) \/ StartFusing(r) \/ StartRaises(r)
    BY <2>1, AInvBegin
  <2>2. CASE Load \/ LoadRaises
    BY <2>2, AInvLoad
  <2>3. CASE RunOp \/ Raise \/ Processed
    BY <2>3, AInvProcess
  <2>4. CASE BeginSave \/ FinishSave \/ SkipSave \/ OpenRecord \/ WriteRecord
    BY <2>4, AInvSave
  <2>5. CASE \/ StartExport \/ Complete
             \/ \E i \in todo : WriteFile(i) \/ FailFile(i)
    BY <2>5, AInvExport
  <2>6. CASE Kill
    BY <2>6, AInvKill
  <2>7. CASE Finished
    BY <1>1, <2>7 DEF Finished
  <2> QED
    BY <1>2, <2>1, <2>2, <2>3, <2>4, <2>5, <2>6, <2>7 DEF Next
<1> QED
  BY <1>1, <1>2

LEMMA CountIs ==
    ASSUME HeldInv
    PROVE  Count \in Nat /\ (Count = 0 => Len(dataset.rows) = 0)
<1> DEFINE n == Len(dataset.rows)
<1>1. n \in Nat /\ shardRows \in Nat
  BY DEF HeldInv, Held, Batches
<1> HIDE DEF n
<1>2. CASE Sharded
  <2>1. n \div shardRows \in Nat
    BY <1>1, <1>2 DEF Sharded
  <2> DEFINE d == n \div shardRows
  <2>2. Count = IF d + 1 <= n THEN d + 1 ELSE n
    BY <1>2 DEF Count, FileCount, ShardCount, n
  <2> HIDE DEF d
  <2>3. Count \in Nat /\ (Count = 0 => n = 0)
    BY <1>1, <2>1, <2>2 DEF d
  <2> QED
    BY <2>3 DEF n
<1>3. CASE ~Sharded
  BY <1>3 DEF Count, FileCount
<1> QED
  BY <1>2, <1>3

(* A run that ends well has exported what its recipe makes of the input,   *)
(* for any operators, recipes, input, times of a probe and sizes of a      *)
(* shard, with op_fusion or without, in one file or several, after any     *)
(* runs of other recipes and any faults in them, unless it loaded a broken *)
(* checkpoint or lost a shard (DefaultExecutor._run_impl).                 *)
THEOREM ExportsCorrect == Spec => []OutputCorrect
<1>1. ASSUME AInv PROVE OutputCorrect
  <2> SUFFICES ASSUME phase = "done", ~misled, ~lost
               PROVE  Exported(Len(Outcome(recipe).rows)) = Outcome(recipe).rows
    BY DEF OutputCorrect
  <2> DEFINE rows == dataset.rows
  <2>1. rows \in Batches /\ HeldInv
    BY <1>1 DEF AInv, HeldInv, Held
  <2>2. ~raised
    BY <1>1 DEF AInv, LInv, ControlInv
  <2>3. Outcome(recipe).rows = rows
    BY <1>1, <2>2 DEF AInv, PlanInv, Outcome
  <2>4. Count \in Nat /\ (Count = 0 => Len(rows) = 0)
    BY <2>1, CountIs
  <2>5. \A i \in 0..(Count - 1) : files[FileName(i, Count)] = Share(rows, i, Count)
    BY <1>1 DEF AInv, ExportInv
  <2>6. Exported(Len(rows)) = FlattenSeq([i \in 1..Count |-> files[FileName(i - 1, Count)]])
    BY DEF Exported, Count
  <2>7. [i \in 1..Count |-> files[FileName(i - 1, Count)]]
            = [i \in 1..Count |-> Share(rows, i - 1, Count)]
    <3>1. \A i \in 1..Count : i - 1 \in 0..(Count - 1)
      BY <2>4
    <3>2. \A i \in 1..Count : files[FileName(i - 1, Count)] = Share(rows, i - 1, Count)
      BY <2>5, <3>1
    <3> QED
      BY <3>2
  <2>8. FlattenSeq([i \in 1..Count |-> Share(rows, i - 1, Count)]) = rows
    BY <2>1, <2>4, SharesCover
  <2> QED
    BY <2>3, <2>6, <2>7, <2>8
<1> QED
  BY <1>1, AInvInit, AInvNext, PTL DEF Spec
=============================================================================
