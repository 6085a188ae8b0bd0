---------------------- MODULE PartitionedExecutorProofs ----------------------
(* What the partitioned executor keeps through every run, kill, failure    *)
(* and resumption: its types, partitions that cover the input, checkpoints *)
(* that are what their name and partitioning_info.json say, and a correct  *)
(* result.                                                                 *)
EXTENDS PartitionedExecutor, PartitionedRefinement, SequenceTheorems,
        FiniteSetTheorems, WellFoundedInduction, TLAPS

-----------------------------------------------------------------------------
(* Operators on data.                                                      *)

(* The partitions and operator indexes are intervals of natural numbers.   *)
LEMMA IndexTypes ==
    /\ Parts \subseteq Nat /\ OpIdx \subseteq Nat
    /\ MaxPartitions \in Nat \ {0} /\ MaxOps \in Nat \ {0}
    /\ MaxRuns \in Nat /\ GroupSize \in Nat \ {0}
BY BoundsAssumption DEF Parts, OpIdx

(* A slice of a sequence is a sequence over the same set.                  *)
LEMMA SliceType ==
    ASSUME NEW S, NEW s \in Seq(S), NEW m \in Nat \ {0}, NEW n \in Int, n <= Len(s)
    PROVE  SubSeq(s, m, n) \in Seq(S)
<1>1. \A i \in m..n : s[i] \in S
  BY ElementOfSeq
<1> QED
  BY <1>1, SubSeqProperties

(* A function on an initial interval is a sequence.                        *)
LEMMA FunctionIsSeq ==
    ASSUME NEW S, NEW n \in Nat, NEW f \in [1..n -> S]
    PROVE  f \in Seq(S) /\ Len(f) = n
OBVIOUS

LEMMA AppliedType ==
    ASSUME NEW rows \in Seq(Rows), NEW s \in Seq(Ops)
    PROVE  Applied(rows, s) \in Dataset
<1>1. \A k \in 1..Len(rows) : rows[k] \in Rows
  BY ElementOfSeq
<1>2. \A k \in 1..Len(rows) : [row |-> rows[k], ops |-> s] \in Item
  BY <1>1 DEF Item
<1>3. Applied(rows, s) \in [1..Len(rows) -> Item]
  BY <1>2 DEF Applied
<1> QED
  BY <1>3, FunctionIsSeq, LenProperties DEF Dataset

LEMMA ProcessType ==
    ASSUME NEW d \in Dataset, NEW s \in Seq(Ops)
    PROVE  Process(d, s) \in Dataset
<1>1. \A k \in 1..Len(d) : d[k] \in Item
  BY ElementOfSeq DEF Dataset
<1>2. \A k \in 1..Len(d) : d[k].row \in Rows /\ d[k].ops \o s \in Seq(Ops)
  BY <1>1, ConcatProperties DEF Item
<1>3. \A k \in 1..Len(d) : [row |-> d[k].row, ops |-> d[k].ops \o s] \in Item
  BY <1>2 DEF Item
<1>4. Process(d, s) \in [1..Len(d) -> Item]
  BY <1>3 DEF Process
<1> QED
  BY <1>4, FunctionIsSeq, LenProperties DEF Dataset

LEMMA BoundaryType ==
    ASSUME NEW total \in Nat, NEW n \in Nat \ {0}, NEW p \in Nat
    PROVE  Boundary(total, n, p) \in Nat
<1>1. total \div n \in Nat /\ total % n \in Nat
  OBVIOUS
<1>2. \A a, b \in Nat : a * b \in Nat
  OBVIOUS
<1>3. p * (total \div n) \in Nat
  BY <1>1, <1>2
<1>4. MinOf(p, total % n) \in Nat
  BY <1>1 DEF MinOf
<1> QED
  BY <1>3, <1>4 DEF Boundary

LEMMA CutAtType ==
    ASSUME NEW rows \in Seq(Rows), NEW total \in Nat, NEW n \in Nat \ {0}
    PROVE  CutAt(rows, total, n) \in [0..(n - 1) -> Seq(Rows)]
<1> DEFINE from(p) == Boundary(total, n, p) + 1
           to(p) == IF p = n - 1 THEN Len(rows)
                    ELSE MinOf(Boundary(total, n, p + 1), Len(rows))
<1> SUFFICES ASSUME NEW p \in 0..(n - 1)
             PROVE  SubSeq(rows, from(p), to(p)) \in Seq(Rows)
  BY DEF CutAt
<1>1. Boundary(total, n, p) \in Nat /\ Boundary(total, n, p + 1) \in Nat
  <2>1. p \in Nat /\ p + 1 \in Nat
    OBVIOUS
  <2> QED
    BY <2>1, BoundaryType
<1>2. from(p) \in Nat \ {0} /\ to(p) \in Int /\ to(p) <= Len(rows)
  BY <1>1, LenProperties DEF MinOf
<1> HIDE DEF from, to
<1> QED
  BY <1>2, SliceType

-----------------------------------------------------------------------------
(* Operators on the recipe and on checkpoints.                             *)

LEMMA PlanType ==
    ASSUME NEW c \in Commands
    PROVE  Plan[c] \in Seq(Ops) /\ Len(Plan[c]) \in 0..MaxOps
BY CommandsAssumption, LenProperties, IndexTypes

LEMMA PreLenType ==
    ASSUME NEW c \in Commands
    PROVE  PreLen(c) \in 0..Len(Plan[c])
<1> DEFINE pre == {k \in 1..Len(Plan[c]) : \A i \in 1..k : Plan[c][i] \notin GlobalOps}
<1>1. Len(Plan[c]) \in Nat
  BY PlanType
<1>2. IsFiniteSet(1..Len(Plan[c])) /\ Cardinality(1..Len(Plan[c])) = Len(Plan[c])
  <2>1. 1 \in Int /\ Len(Plan[c]) \in Int
    BY <1>1
  <2> HIDE DEF pre
  <2>2. IsFiniteSet(1..Len(Plan[c]))
    BY <2>1, FS_Interval, Zenon
  <2> QED
    BY ONLY <1>1, <2>1, <2>2, FS_Interval
<1>3. IsFiniteSet(pre) /\ Cardinality(pre) <= Len(Plan[c])
  BY <1>2, FS_Subset
<1>4. Cardinality(pre) \in Nat
  BY <1>3, FS_CardinalityType
<1> QED
  BY <1>1, <1>3, <1>4 DEF PreLen

LEMMA LastType ==
    ASSUME cmd \in Commands
    PROVE  Last \in 0..Len(Plan[cmd]) /\ Last \in 0..MaxOps
BY PreLenType, PlanType, IndexTypes DEF Last

(* A group ends after its start and within the partitioned operators.      *)
LEMMA GroupEndType ==
    ASSUME cmd \in Commands, NEW k \in Nat, NEW e \in GroupEnd(k)
    PROVE  e \in (k + 1)..Last /\ e \in 1..MaxOps
<1>1. Last \in Int /\ Last <= MaxOps /\ MaxOps \in Int
  BY LastType, IndexTypes
<1>2. e \in (k + 1)..Last
  BY DEF GroupEnd
<1> QED
  BY <1>1, <1>2

(* The operators i to e - 1 of the recipe.                                 *)
LEMMA RecipeSliceType ==
    ASSUME cmd \in Commands, NEW i \in Nat, NEW e \in Int, e <= Len(Plan[cmd])
    PROVE  Slice(i, e) \in Seq(Ops)
BY PlanType, SliceType DEF Slice

LEMMA SavedType ==
    ASSUME NEW old \in {None, Corrupt} \cup Dataset, NEW d \in Dataset
    PROVE  Saved(old, d) \in {None, Corrupt} \cup Dataset
BY ConcatProperties DEF Saved, Dataset

LEMMA CutShortType ==
    ASSUME NEW old \in {None, Corrupt} \cup Dataset, NEW d \in Dataset
    PROVE  CutShort(old, d) \subseteq {None, Corrupt} \cup Dataset
<1>1. \A k \in 1..(Len(d) - 1) : SubSeq(d, 1, k) \in Dataset
  BY SliceType, LenProperties DEF Dataset
<1>2. \A k \in 1..(Len(d) - 1) : Saved(old, SubSeq(d, 1, k)) \in {None, Corrupt} \cup Dataset
  BY <1>1, SavedType
<1> QED
  BY <1>2 DEF CutShort

LEMMA LoadType ==
    ASSUME NEW old \in {None, Corrupt} \cup Dataset, NEW d \in LoadResults(old) \ {None}
    PROVE  d \in Dataset /\ d = old
BY DEF LoadResults

LEMMA CountsType ==
    ASSUME inp \in Inputs
    PROVE  Counts \subseteq 1..MaxPartitions
<1>1. CASE SizeTarget = 0
  BY <1>1, BoundsAssumption DEF Counts
<1>2. CASE SizeTarget # 0
  <2>1. Len(inp) \in Nat /\ SizeTarget \in Nat \ {0}
    BY <1>2, InputsAssumption, BoundsAssumption, LenProperties
  <2>2. Len(inp) \div SizeTarget \in Int
    BY <2>1
  <2>3. CountFromSize(Len(inp), SizeTarget) \in Int /\ CountFromSize(Len(inp), SizeTarget) >= 1
    BY <2>2 DEF CountFromSize
  <2> QED
    BY <1>2, <2>3, BoundsAssumption DEF Counts
<1> QED
  BY <1>1, <1>2

-----------------------------------------------------------------------------
(* The inductive invariant.  Beside the types it says which variables the  *)
(* run has set in which phase: a thread exists only for a partition, and   *)
(* the partitions and the merged dataset are there once they are read.     *)

Outputs == UNION {[0..n -> Dataset] : n \in Parts}

Before == {"init", "load", "split", "clear", "record", "recording"}
Cut    == {"clear", "record", "recording", "process"}

Shape ==
    /\ phase # "idle" => mode \in AllModes /\ cmd \in Commands /\ inp \in Inputs
    /\ runs # 0 => phase # "idle"
    /\ phase \in Before => \A p \in Parts : status[p] = "idle"
    /\ \A p \in Parts : status[p] # "idle" => p < num
    /\ phase \in Cut \cup {"split"} => num \in 1..MaxPartitions
    /\ phase \in Cut => parts \in [0..(num - 1) -> Seq(Rows)]
    /\ phase = "export" => merged \in Outputs
    /\ \A p \in Parts : status[p] = "saving" => pos[p] >= 1
    /\ exported \in Seq(Outputs)
    /\ phase = "split" /\ mode = "resume" => Readable(info)

TInv == TypeOK /\ Shape

LEMMA TInvInit == Init => TInv
<1> SUFFICES ASSUME Init PROVE TInv
  OBVIOUS
<1>1. << >> \in Seq(Outputs) /\ << >> \in Dataset /\ Len(<< >>) = 0
  BY EmptySeq DEF Dataset
<1>2. DiskType
  BY <1>1 DEF Init, DiskType
<1>3. RunType
  <2>1. same \in BOOLEAN /\ resuming \in BOOLEAN
    BY DEF Init
  <2>2. runs \in 0..MaxRuns /\ num \in 0..MaxPartitions
    BY IndexTypes DEF Init
  <2> QED
    BY <2>1, <2>2 DEF Init, RunType, Ended
<1>4. ThreadType
  BY <1>1, IndexTypes DEF Init, ThreadType
<1>5. Shape
  BY <1>1 DEF Init, Shape, Before, Cut
<1> QED
  BY <1>2, <1>3, <1>4, <1>5 DEF TInv, TypeOK

(* A new run leaves the disk alone but for the backup of its command.      *)
LEMMA TInvStart ==
    ASSUME TInv, NEW c \in Commands, NEW m \in AllModes, NEW i \in Inputs, Start(c, m, i)
    PROVE  TInv'
<1> USE DEF TInv, TypeOK
<1>1. c.name \in Names /\ c.text \in STRING /\ c.cli \in STRING
  BY CommandsAssumption
<1>2. DiskType'
  <2>1. runs # 0 => cmd.cli \in STRING
    BY CommandsAssumption DEF Shape
  <2>2. (tried \subseteq STRING)'
    BY <2>1 DEF Start, DiskType
  <2> QED
    BY <1>1, <2>2 DEF Start, BackedUp, DiskType, disk
<1>3. RunType'
  <2>1. (same \in BOOLEAN)' /\ (resuming \in BOOLEAN)'
    BY DEF Start, SameConfig
  <2>2. (runs \in 0..MaxRuns)' /\ (num \in 0..MaxPartitions)'
    BY IndexTypes DEF Start, RunType
  <2> QED
    BY <2>1, <2>2 DEF Start, RunType, Active
<1>4. << >> \in Dataset
  BY EmptySeq DEF Dataset
<1>5. ThreadType'
  BY <1>4, IndexTypes DEF Start, ThreadType
<1>6. Shape'
  BY DEF Start, Shape, Before, Cut
<1> QED
  BY <1>2, <1>3, <1>5, <1>6


(* The steps that only move the run from one phase to another.             *)
LEMMA TInvPhase ==
    ASSUME TInv,
           AlreadyComplete \/ RefuseResume \/ RefuseNoInfo \/ RefuseSplit \/ FailSplit
             \/ FailJob \/ FailMerge \/ Complete \/ Cleared
    PROVE  TInv'
<1> USE DEF TInv, TypeOK, disk, workdir, setup, threads
<1>1. DiskType' /\ ThreadType'
  BY DEF AlreadyComplete, RefuseResume, RefuseNoInfo, RefuseSplit, FailSplit, FailJob,
         FailMerge, Complete, Cleared, StopAs, DiskType, ThreadType
<1>2. RunType'
  BY DEF AlreadyComplete, RefuseResume, RefuseNoInfo, RefuseSplit, FailSplit, FailJob,
         FailMerge, Complete, Cleared, StopAs, RunType, Ended, Active
<1>3. Shape'
  BY DEF AlreadyComplete, RefuseResume, RefuseNoInfo, RefuseSplit, FailSplit, FailJob,
         FailMerge, Complete, Cleared, StopAs, Shape, Before, Cut
<1> QED
  BY <1>1, <1>2, <1>3

(* The steps of the driver before the threads start.                       *)
LEMMA TInvEnter ==
    ASSUME TInv, Enter
    PROVE  TInv'
<1> USE DEF TInv, TypeOK, disk, workdir, setup, threads
<1>1. phase = "init" /\ phase' = "load" /\ cmd \in Commands
  BY DEF Enter, Shape
<1>2. DiskType' /\ ThreadType'
  BY <1>1 DEF Enter, DiskType, ThreadType
<1>3. RunType'
  <2>1. (resuming \in BOOLEAN)'
    BY DEF Enter
  <2> QED
    BY <1>1, <2>1 DEF Enter, RunType, Active
<1>4. Shape'
  BY <1>1 DEF Enter, Shape, Before, Cut
<1> QED
  BY <1>2, <1>3, <1>4

LEMMA TInvFixCount ==
    ASSUME TInv, FixCount
    PROVE  TInv'
<1> USE DEF TInv, TypeOK, disk, workdir, setup, threads
<1>1. phase = "load" /\ phase' = "split" /\ inp \in Inputs
  BY DEF FixCount, Shape
<1>2. num' \in 1..MaxPartitions
  <2>1. CASE mode = "resume" /\ SizeTarget = 0
    BY <2>1 DEF FixCount, Readable, DiskType, InfoFile
  <2>2. CASE ~(mode = "resume" /\ SizeTarget = 0)
    BY <1>1, <2>2, CountsType DEF FixCount
  <2> QED
    BY <2>1, <2>2
<1>3. DiskType' /\ ThreadType'
  BY DEF FixCount, DiskType, ThreadType
<1>4. RunType'
  BY <1>1, <1>2, IndexTypes DEF FixCount, RunType, Active
<1>5. Shape'
  BY <1>1, <1>2 DEF FixCount, Shape, Before, Cut
<1> QED
  BY <1>3, <1>4, <1>5

LEMMA TInvUnpartitioned ==
    ASSUME TInv, RunUnpartitioned
    PROVE  TInv'
<1> USE DEF TInv, TypeOK, disk, workdir, setup, threads
<1>1. phase = "split" /\ phase' = "export" /\ inp \in Seq(Rows) /\ cmd \in Commands
  BY InputsAssumption DEF RunUnpartitioned, Shape
<1>2. Process(Applied(inp, << >>), Plan[cmd]) \in Dataset
  BY <1>1, AppliedType, ProcessType, PlanType, EmptySeq
<1>3. merged' \in Outputs
  <2>1. merged' \in [0..0 -> Dataset]
    BY <1>2 DEF RunUnpartitioned
  <2>2. 0 \in Parts
    BY IndexTypes DEF Parts
  <2> QED
    BY <2>1, <2>2 DEF Outputs
<1>4. DiskType' /\ ThreadType' /\ RunType'
  BY DEF RunUnpartitioned, DiskType, ThreadType, RunType, Active
<1>5. Shape'
  BY <1>1, <1>3 DEF RunUnpartitioned, Shape, Before, Cut
<1> QED
  BY <1>4, <1>5

(* Starting the threads of n partitions.                                   *)
LEMMA StartThreadsType ==
    ASSUME ThreadType, NEW n \in Nat, StartThreads(n)
    PROVE  /\ ThreadType'
           /\ \A p \in Parts : status'[p] \in {"idle", "queued"}
           /\ \A p \in Parts : status'[p] # "idle" => p < n
BY DEF StartThreads, ThreadType

LEMMA TInvResumeSplit ==
    ASSUME TInv, ResumeSplit
    PROVE  TInv'
<1> USE DEF TInv, TypeOK, disk, workdir, setup
<1>1. phase = "split" /\ phase' = "process" /\ inp \in Seq(Rows) /\ mode = "resume"
  BY InputsAssumption DEF ResumeSplit, Shape
<1>2. num \in 1..MaxPartitions /\ info.n = num /\ info.rows \in Seq(Rows)
  BY <1>1 DEF ResumeSplit, MayResume, Shape, Readable, DiskType, InfoFile
<1>3. parts' \in [0..(num - 1) -> Seq(Rows)]
  <2>1. Len(info.rows) \in Nat /\ num \in Nat \ {0}
    BY <1>2, IndexTypes, LenProperties
  <2>2. CutAt(inp, Len(info.rows), num) \in [0..(num - 1) -> Seq(Rows)]
    BY <1>1, <2>1, CutAtType
  <2> QED
    BY <1>2, <2>2 DEF ResumeSplit, SavedCut
<1>4. /\ ThreadType'
      /\ \A p \in Parts : status'[p] \in {"idle", "queued"}
      /\ \A p \in Parts : status'[p] # "idle" => p < num
  BY <1>2, StartThreadsType DEF ResumeSplit
<1>5. DiskType' /\ RunType'
  BY <1>1 DEF ResumeSplit, DiskType, RunType, Active
<1>6. Shape'
  BY <1>1, <1>2, <1>3, <1>4 DEF ResumeSplit, Shape, Before, Cut
<1> QED
  BY <1>4, <1>5, <1>6

LEMMA TInvFreshSplit ==
    ASSUME TInv, FreshSplit
    PROVE  TInv'
<1> USE DEF TInv, TypeOK, disk, workdir, setup
<1>1. /\ phase = "split" /\ phase' \in {"record", "process", "clear"}
      /\ inp \in Seq(Rows) /\ mode # "resume" /\ num \in 1..MaxPartitions
  BY InputsAssumption DEF FreshSplit, Shape
<1>2. num' \in 1..MaxPartitions /\ num' = FreshCount
  BY <1>1, IndexTypes DEF FreshSplit, FreshCount
<1>3. parts' \in [0..(num' - 1) -> Seq(Rows)]
  <2>1. Len(inp) \in Nat /\ num' \in Nat \ {0}
    BY <1>1, <1>2, IndexTypes, LenProperties
  <2>2. CutAt(inp, Len(inp), num') \in [0..(num' - 1) -> Seq(Rows)]
    BY <1>1, <2>1, CutAtType
  <2> QED
    BY <1>2, <2>2 DEF FreshSplit, Balanced
<1>4. /\ ThreadType'
      /\ \A p \in Parts : status'[p] \in {"idle", "queued"}
      /\ \A p \in Parts : status'[p] # "idle" => p < num'
      /\ phase' \in Before => \A p \in Parts : status'[p] = "idle"
  <2>1. CASE UNCHANGED threads /\ phase' # "process"
    BY <1>1, <2>1 DEF threads, ThreadType, Shape, Before
  <2>2. CASE StartThreads(num') /\ phase' = "process"
    BY <1>2, <2>2, StartThreadsType DEF Before
  <2> QED
    BY <1>1, <2>1, <2>2 DEF FreshSplit
<1>5. DiskType' /\ RunType'
  <2>1. DiskType'
    BY DEF FreshSplit, DiskType
  <2>2. RunType'
    BY <1>1, <1>2 DEF FreshSplit, RunType, Active
  <2> QED
    BY <2>1, <2>2
<1>6. Shape'
  <2>1. /\ UNCHANGED <<mode, cmd, inp, exported>> /\ phase # "idle"
        /\ phase' \notin {"idle", "split", "export"}
    BY <1>1 DEF FreshSplit
  <2>2. \A p \in Parts : status'[p] # "saving"
    BY <1>4
  <2> QED
    BY <1>2, <1>3, <1>4, <2>1, <2>2 DEF Shape, Before, Cut
<1> QED
  BY <1>4, <1>5, <1>6

LEMMA TInvClear ==
    ASSUME TInv,
           ClearInfo \/ OpenInfo \/ \E p \in Parts, i \in OpIdx : ClearCheckpoint(p, i)
    PROVE  TInv'
<1> USE DEF TInv, TypeOK, workdir, setup, threads
<1>1. DiskType'
  <2>1. CASE ClearInfo \/ OpenInfo
    BY <2>1 DEF ClearInfo, OpenInfo, DiskType
  <2>2. ASSUME NEW p \in Parts, NEW i \in OpIdx, ClearCheckpoint(p, i) PROVE DiskType'
    BY <2>2 DEF ClearCheckpoint, DiskType
  <2> QED
    BY <2>1, <2>2
<1>2. RunType' /\ ThreadType'
  BY DEF ClearInfo, OpenInfo, ClearCheckpoint, RunType, ThreadType, Active
<1>3. Shape'
  BY DEF ClearInfo, OpenInfo, ClearCheckpoint, Shape, Before, Cut
<1> QED
  BY <1>1, <1>2, <1>3

LEMMA TInvWriteInfo ==
    ASSUME TInv, WriteInfo
    PROVE  TInv'
<1> USE DEF TInv, TypeOK, workdir, setup
<1>1. /\ phase = "recording" /\ phase' = "process"
      /\ inp \in Seq(Rows) /\ num \in 1..MaxPartitions
  BY InputsAssumption DEF WriteInfo, Shape, Cut
<1>2. CheckpointEnabled \in BOOLEAN
  BY DEF CheckpointEnabled
<1>3. info' \in InfoFile
  BY <1>1, <1>2 DEF WriteInfo, InfoFile
<1>4. /\ ThreadType'
      /\ \A p \in Parts : status'[p] \in {"idle", "queued"}
      /\ \A p \in Parts : status'[p] # "idle" => p < num
  BY <1>1, StartThreadsType DEF WriteInfo
<1>5. DiskType' /\ RunType'
  BY <1>1, <1>3 DEF WriteInfo, DiskType, RunType, Active
<1>6. Shape'
  BY <1>1, <1>4 DEF WriteInfo, Shape, Before, Cut
<1> QED
  BY <1>4, <1>5, <1>6

-----------------------------------------------------------------------------
(* The steps of the threads.                                               *)

(* What a running thread knows of itself.                                  *)
LEMMA ThreadFacts ==
    ASSUME TInv, phase = "process", NEW p \in Parts, status[p] # "idle"
    PROVE  /\ cmd \in Commands /\ p \in 0..(num - 1) /\ parts[p] \in Seq(Rows)
           /\ Applied(parts[p], << >>) \in Dataset
           /\ pos[p] \in Nat /\ data[p] \in Dataset
           /\ \A i \in OpIdx : ckpt[p][i] \in {None, Corrupt} \cup Dataset
<1>1. cmd \in Commands /\ num \in Nat /\ p < num /\ parts \in [0..(num - 1) -> Seq(Rows)]
  BY IndexTypes DEF TInv, Shape, Cut
<1>2. p \in 0..(num - 1)
  BY <1>1, IndexTypes
<1>3. parts[p] \in Seq(Rows)
  BY <1>1, <1>2
<1>4. Applied(parts[p], << >>) \in Dataset
  BY <1>3, AppliedType, EmptySeq
<1>5. pos[p] \in Nat /\ data[p] \in Dataset
  BY IndexTypes DEF TInv, TypeOK, ThreadType
<1>6. \A i \in OpIdx : ckpt[p][i] \in {None, Corrupt} \cup Dataset
  BY DEF TInv, TypeOK, DiskType
<1> QED
  BY <1>1, <1>2, <1>3, <1>4, <1>5, <1>6

(* A step of threads that leaves the driver alone keeps the invariant when *)
(* it keeps their types, starts no thread that did not exist, and saves    *)
(* only after an operator.                                                 *)
LEMMA TInvThreads ==
    ASSUME TInv, phase = "process", JobUnchanged, ThreadType',
           ckpt' \in [Parts -> [OpIdx -> {None, Corrupt} \cup Dataset]],
           \A p \in Parts : status'[p] # "idle" => status[p] # "idle" \/ p < num,
           \A p \in Parts : status'[p] = "saving" => pos'[p] >= 1
    PROVE  TInv'
<1> USE DEF TInv, TypeOK, JobUnchanged, workdir, setup
<1>1. DiskType' /\ RunType'
  BY DEF DiskType, RunType
<1>2. Shape'
  BY DEF Shape, Before, Cut
<1> QED
  BY <1>1, <1>2

LEMMA ExecuteType ==
    ASSUME TInv, phase = "process", NEW p \in Parts, status[p] # "idle",
           NEW d \in Dataset, NEW i \in Nat, NEW e \in (i + 1)..Last,
           Execute(p, d, i, e), JobUnchanged
    PROVE  TInv'
<1> USE DEF TInv, TypeOK
<1>1. cmd \in Commands
  BY ThreadFacts
<1>2. e \in 1..MaxOps /\ e <= Len(Plan[cmd])
  BY <1>1, LastType, IndexTypes, PlanType
<1>3. Process(d, Slice(i, e)) \in Dataset
  BY <1>1, <1>2, RecipeSliceType, ProcessType
<1>4. i..(e - 1) \subseteq OpIdx
  BY <1>2, IndexTypes DEF OpIdx
<1>5. ThreadType'
  BY <1>2, <1>3, <1>4, IndexTypes DEF Execute, ThreadType
<1>6. /\ ckpt' \in [Parts -> [OpIdx -> {None, Corrupt} \cup Dataset]]
      /\ \A q \in Parts : status'[q] # "idle" => status[q] # "idle"
  BY DEF Execute, DiskType, ThreadType
<1>7. \A q \in Parts : status'[q] = "saving" => pos'[q] >= 1
  BY <1>2 DEF Execute, Shape, ThreadType
<1> QED
  BY <1>5, <1>6, <1>7, TInvThreads

LEMMA TInvBegin ==
    ASSUME TInv, NEW p \in Parts, Begin(p)
    PROVE  TInv'
<1> USE DEF TInv, TypeOK
<1>1. phase = "process" /\ status[p] = "queued" /\ Applied(parts[p], << >>) \in Dataset
  BY ThreadFacts DEF Begin
<1>2. ThreadType'
  BY <1>1 DEF Begin, ThreadType
<1>3. /\ ckpt' \in [Parts -> [OpIdx -> {None, Corrupt} \cup Dataset]]
      /\ \A q \in Parts : status'[q] # "idle" => status[q] # "idle"
      /\ \A q \in Parts : status'[q] = "saving" => pos'[q] >= 1
  BY <1>1 DEF Begin, DiskType, ThreadType, Shape
<1> QED
  BY <1>1, <1>2, <1>3, TInvThreads DEF Begin

LEMMA TInvRun ==
    ASSUME TInv, NEW p \in Parts, RunGroup(p) \/ RestartGroup(p)
    PROVE  TInv'
<1>1. phase = "process" /\ status[p] # "idle"
  BY DEF RunGroup, RestartGroup, AtGroup
<1>2. /\ cmd \in Commands /\ pos[p] \in Nat
      /\ data[p] \in Dataset /\ Applied(parts[p], << >>) \in Dataset
  BY <1>1, ThreadFacts
<1>3. PICK d \in Dataset, e \in GroupEnd(pos[p]) : Execute(p, d, pos[p], e) /\ JobUnchanged
  BY <1>2 DEF RunGroup, RestartGroup
<1>4. e \in (pos[p] + 1)..Last
  BY <1>2, GroupEndType
<1> QED
  BY <1>1, <1>2, <1>3, <1>4, ExecuteType

LEMMA TInvResume ==
    ASSUME TInv, NEW p \in Parts, ResumeGroup(p)
    PROVE  TInv'
<1>1. phase = "process" /\ status[p] = "running"
  BY DEF ResumeGroup, AtGroup
<1>2. /\ cmd \in Commands /\ pos[p] \in Nat
      /\ \A i \in OpIdx : ckpt[p][i] \in {None, Corrupt} \cup Dataset
  BY <1>1, ThreadFacts
<1>3. PICK e \in GroupEnd(pos[p]), d \in LoadResults(ckpt[p][latest[p]]) \ {None} :
        /\ latest[p] \in pos[p]..(e - 1)
        /\ IF ResumeFrom(p) < e THEN Execute(p, d, ResumeFrom(p), e)
           ELSE /\ data' = [data EXCEPT ![p] = d]
                /\ pos' = [pos EXCEPT ![p] = e]
                /\ UNCHANGED <<ckpt, status, latest, ran>>
        /\ JobUnchanged
  BY DEF ResumeGroup
<1>4. e \in (pos[p] + 1)..Last /\ e \in 1..MaxOps
  BY <1>2, GroupEndType
<1>5. latest[p] \in OpIdx /\ latest[p] + 1 \in Nat
  BY <1>2, <1>3, <1>4, IndexTypes DEF OpIdx
<1>6. d \in Dataset
  BY <1>2, <1>3, <1>5, LoadType
<1>7. CASE ResumeFrom(p) < e
  <2>1. ResumeFrom(p) \in Nat /\ e \in (ResumeFrom(p) + 1)..Last
    BY <1>4, <1>5, <1>7 DEF ResumeFrom
  <2> QED
    BY <1>1, <1>3, <1>6, <1>7, <2>1, ExecuteType
<1>8. CASE ~(ResumeFrom(p) < e)
  <2> USE DEF TInv, TypeOK
  <2>1. ThreadType'
    BY <1>3, <1>4, <1>6, <1>8, IndexTypes DEF ThreadType
  <2>2. /\ ckpt' \in [Parts -> [OpIdx -> {None, Corrupt} \cup Dataset]]
        /\ \A q \in Parts : status'[q] # "idle" => status[q] # "idle"
        /\ \A q \in Parts : status'[q] = "saving" => pos'[q] >= 1
    BY <1>1, <1>3, <1>8 DEF DiskType, ThreadType, Shape
  <2> QED
    BY <1>1, <1>3, <2>1, <2>2, TInvThreads
<1> QED
  BY <1>7, <1>8

(* The checkpoint after the last operator that ran.                        *)
LEMMA SavingFacts ==
    ASSUME TInv, NEW p \in Parts, phase = "process", status[p] = "saving"
    PROVE  /\ LastOpIdx(p) \in OpIdx
           /\ ckpt[p][LastOpIdx(p)] \in {None, Corrupt} \cup Dataset
           /\ data[p] \in Dataset
<1>1. pos[p] \in 1..MaxOps
  BY IndexTypes DEF TInv, TypeOK, Shape, ThreadType
<1>2. LastOpIdx(p) \in OpIdx
  BY <1>1, IndexTypes DEF LastOpIdx, OpIdx
<1> QED
  BY <1>2, ThreadFacts

LEMMA TInvSave ==
    ASSUME TInv, NEW p \in Parts, SkipGroup(p) \/ FinishSave(p) \/ FinishPartition(p)
    PROVE  TInv'
<1> USE DEF TInv, TypeOK
<1>1. phase = "process" /\ status[p] \in {"running", "saving"}
  BY DEF SkipGroup, FinishSave, FinishPartition, AtGroup, Writing
<1>2. pos[p] \in Nat /\ cmd \in Commands
  BY <1>1, ThreadFacts
<1>3. ThreadType'
  <2>1. CASE SkipGroup(p)
    BY <1>2, <2>1, GroupEndType, IndexTypes DEF SkipGroup, ThreadType
  <2>2. CASE FinishSave(p) \/ FinishPartition(p)
    BY <2>2 DEF FinishSave, FinishPartition, ThreadType
  <2> QED
    BY <2>1, <2>2
<1>4. ckpt' \in [Parts -> [OpIdx -> {None, Corrupt} \cup Dataset]]
  <2>1. CASE FinishSave(p)
    <3>1. status[p] = "saving"
      BY <2>1 DEF FinishSave, Writing
    <3>2. Saved(ckpt[p][LastOpIdx(p)], data[p]) \in {None, Corrupt} \cup Dataset
      BY <1>1, <3>1, SavingFacts, SavedType
    <3> QED
      BY <2>1, <3>2 DEF FinishSave, DiskType
  <2>2. CASE UNCHANGED ckpt
    BY <2>2 DEF DiskType
  <2> QED
    BY <2>1, <2>2 DEF SkipGroup, FinishPartition
<1>5. \A q \in Parts : status'[q] # "idle" => status[q] # "idle"
  BY <1>1 DEF SkipGroup, FinishSave, FinishPartition, ThreadType
<1>6. \A q \in Parts : status'[q] = "saving" => pos'[q] >= 1
  BY <1>1 DEF SkipGroup, FinishSave, FinishPartition, ThreadType, Shape, AtGroup
<1>7. JobUnchanged
  BY DEF SkipGroup, FinishSave, FinishPartition
<1> QED
  BY <1>1, <1>3, <1>4, <1>5, <1>6, <1>7, TInvThreads

(* A write cut short leaves a checkpoint of the right type.                *)
LEMMA CutShortKeeps ==
    ASSUME TInv, NEW p \in Parts, phase = "process", status[p] = "saving",
           NEW left \in CutShort(ckpt[p][LastOpIdx(p)], data[p])
    PROVE  [ckpt EXCEPT ![p][LastOpIdx(p)] = left]
               \in [Parts -> [OpIdx -> {None, Corrupt} \cup Dataset]]
<1>1. left \in {None, Corrupt} \cup Dataset
  BY SavingFacts, CutShortType
<1> QED
  BY <1>1 DEF TInv, TypeOK, DiskType

LEMMA TInvFailPartition ==
    ASSUME TInv, NEW p \in Parts, FailPartition(p)
    PROVE  TInv'
<1> USE DEF TInv, TypeOK
<1>1. phase = "process" /\ status[p] \in {"running", "saving"} /\ JobUnchanged
  BY DEF FailPartition, AtGroup, Writing
<1>2. ckpt' \in [Parts -> [OpIdx -> {None, Corrupt} \cup Dataset]]
  <2>1. CASE UNCHANGED ckpt
    BY <2>1 DEF DiskType
  <2>2. CASE /\ Writing(p)
             /\ \E left \in CutShort(ckpt[p][LastOpIdx(p)], data[p]) :
                   ckpt' = [ckpt EXCEPT ![p][LastOpIdx(p)] = left]
    BY <1>1, <2>2, CutShortKeeps DEF Writing
  <2> QED
    BY <2>1, <2>2 DEF FailPartition
<1>3. ThreadType'
  BY DEF FailPartition, ThreadType
<1>4. /\ \A q \in Parts : status'[q] # "idle" => status[q] # "idle"
      /\ \A q \in Parts : status'[q] = "saving" => pos'[q] >= 1
  BY <1>1 DEF FailPartition, ThreadType, Shape
<1> QED
  BY <1>1, <1>2, <1>3, <1>4, TInvThreads

LEMMA TInvGroup ==
    ASSUME TInv, NEW g \in Parts, GroupStep(g)
    PROVE  TInv'
<1> USE DEF TInv, TypeOK
<1>1. phase = "process" /\ JobUnchanged
  BY DEF GroupStep, BeginExecutionGroup, RunExecutionGroup, FinishExecutionGroup,
         FailExecutionGroup, InGroup, Writing
<1>2. Group(g) \subseteq Parts
  BY DEF Group
<1>3. CASE BeginExecutionGroup(g)
  <2>1. \A p \in Group(g) : status[p] = "queued"
    BY <1>3 DEF BeginExecutionGroup, InGroup
  <2>2. \A p \in Group(g) : Applied(parts[p], << >>) \in Dataset
    BY <1>1, <1>2, <2>1, ThreadFacts
  <2>3. ThreadType'
    BY <1>3, <2>2 DEF BeginExecutionGroup, ThreadType
  <2>4. /\ ckpt' \in [Parts -> [OpIdx -> {None, Corrupt} \cup Dataset]]
        /\ \A q \in Parts : status'[q] # "idle" => status[q] # "idle"
        /\ \A q \in Parts : status'[q] = "saving" => pos'[q] >= 1
    BY <1>2, <1>3, <2>1 DEF BeginExecutionGroup, DiskType, ThreadType, Shape
  <2> QED
    BY <1>1, <2>3, <2>4, TInvThreads
<1>4. CASE RunExecutionGroup(g)
  <2>1. \A p \in Group(g) : status[p] = "running"
    BY <1>4 DEF RunExecutionGroup, InGroup
  <2>2. PICK q \in Group(g) : \E e \in GroupEnd(pos[q]) : ExecuteTogether(g, e)
    BY <1>4 DEF RunExecutionGroup
  <2>3. PICK e \in GroupEnd(pos[q]) : ExecuteTogether(g, e)
    BY <2>2
  <2>4. /\ cmd \in Commands
        /\ \A p \in Group(g) : pos[p] \in Nat /\ data[p] \in Dataset
    BY <1>1, <1>2, <2>1, ThreadFacts
  <2>5. e \in 1..MaxOps /\ e <= Len(Plan[cmd])
    BY <2>4, GroupEndType, LastType, PlanType
  <2>6. \A p \in Group(g) : Process(data[p], Slice(pos[p], e)) \in Dataset
    BY <2>4, <2>5, RecipeSliceType, ProcessType
  <2>7. \A p \in Group(g) : pos[p]..(e - 1) \subseteq OpIdx
    BY <2>4, <2>5, IndexTypes DEF OpIdx
  <2>8. ThreadType'
    <3>1. (status \in [Parts -> {"idle", "queued", "running", "saving", "done",
                                 "failed", "cancelled"}])'
      BY <2>3 DEF ThreadType, ExecuteTogether
    <3>2. (pos \in [Parts -> 0..MaxOps])' /\ (latest \in [Parts -> -1..(MaxOps - 1)])'
      BY <2>3, <2>5, IndexTypes DEF ThreadType, ExecuteTogether
    <3>3. (data \in [Parts -> Dataset])'
      BY <2>3, <2>6 DEF ThreadType, ExecuteTogether
    <3>4. (ran \in [Parts -> SUBSET OpIdx])'
      BY <2>3, <2>7 DEF ThreadType, ExecuteTogether
    <3> QED
      BY <3>1, <3>2, <3>3, <3>4 DEF ThreadType
  <2>9. /\ ckpt' \in [Parts -> [OpIdx -> {None, Corrupt} \cup Dataset]]
        /\ \A p \in Parts : status'[p] # "idle" => status[p] # "idle"
        /\ \A p \in Parts : status'[p] = "saving" => pos'[p] >= 1
    BY <1>2, <2>1, <2>3, <2>5 DEF DiskType, ThreadType, Shape, ExecuteTogether
  <2> QED
    BY <1>1, <2>8, <2>9, TInvThreads
<1>5. CASE FinishExecutionGroup(g) \/ FailExecutionGroup(g)
  <2>1. ckpt' \in [Parts -> [OpIdx -> {None, Corrupt} \cup Dataset]]
    <3>1. CASE UNCHANGED ckpt
      BY <3>1 DEF DiskType
    <3>2. ASSUME NEW p \in Group(g), Writing(p),
                 \E left \in CutShort(ckpt[p][LastOpIdx(p)], data[p]) :
                    ckpt' = [ckpt EXCEPT ![p][LastOpIdx(p)] = left]
          PROVE  ckpt' \in [Parts -> [OpIdx -> {None, Corrupt} \cup Dataset]]
      BY <1>1, <1>2, <3>2, CutShortKeeps DEF Writing
    <3> QED
      BY <1>5, <3>1, <3>2 DEF FinishExecutionGroup, FailExecutionGroup
  <2>2. ThreadType'
    BY <1>5 DEF FinishExecutionGroup, FailExecutionGroup, ThreadType
  <2>3. /\ \A p \in Parts : status'[p] # "idle" => status[p] # "idle" \/ p < num
        /\ \A p \in Parts : status'[p] = "saving" => pos'[p] >= 1
    BY <1>5 DEF FinishExecutionGroup, FailExecutionGroup, ThreadType, Shape, Group
  <2> QED
    BY <1>1, <2>1, <2>2, <2>3, TInvThreads
<1> QED
  BY <1>3, <1>4, <1>5 DEF GroupStep

-----------------------------------------------------------------------------
(* The driver once the threads run, and the kill.                          *)

LEMMA TInvCancel ==
    ASSUME TInv, CancelQueued
    PROVE  TInv'
<1> USE DEF TInv, TypeOK
<1>1. ThreadType'
  BY DEF CancelQueued, ThreadType
<1>2. /\ ckpt' \in [Parts -> [OpIdx -> {None, Corrupt} \cup Dataset]]
      /\ \A p \in Parts : status'[p] # "idle" => status[p] # "idle"
      /\ \A p \in Parts : status'[p] = "saving" => pos'[p] >= 1
  BY DEF CancelQueued, DiskType, ThreadType, Shape
<1> QED
  BY <1>1, <1>2, TInvThreads DEF CancelQueued

LEMMA TInvMerge ==
    ASSUME TInv, Merge
    PROVE  TInv'
<1> USE DEF TInv, TypeOK, disk, workdir, setup, threads
<1>1. phase = "process" /\ phase' = "export" /\ cmd \in Commands /\ num \in 1..MaxPartitions
  BY DEF Merge, Shape, Cut
<1>2. 0..(num - 1) \subseteq Parts /\ num - 1 \in Parts
  BY <1>1, IndexTypes DEF Parts
<1>3. Rest \in Seq(Ops)
  BY <1>1, LastType, PlanType, RecipeSliceType DEF Rest
<1>4. \A p \in 0..(num - 1) : Process(data[p], Rest) \in Dataset
  BY <1>2, <1>3, ProcessType DEF ThreadType
<1>5. merged' \in [0..(num - 1) -> Dataset]
  BY <1>4 DEF Merge
<1>6. merged' \in Outputs
  BY <1>2, <1>5 DEF Outputs
<1>7. DiskType' /\ ThreadType' /\ RunType'
  BY <1>1 DEF Merge, DiskType, ThreadType, RunType, Active
<1>8. Shape'
  BY <1>1, <1>6 DEF Merge, Shape, Before, Cut
<1> QED
  BY <1>7, <1>8

LEMMA TInvExport ==
    ASSUME TInv, Export
    PROVE  TInv'
<1> USE DEF TInv, TypeOK, disk, workdir, setup, threads
<1>1. phase = "export" /\ phase' = "exported" /\ merged \in Outputs
  BY DEF Export, Shape
<1>2. exported' \in Seq(Outputs)
  BY <1>1 DEF Export, Shape
<1>3. \A k \in 1..Len(exported') : exported'[k] \in Outputs
  BY <1>2, ElementOfSeq
<1>4. DiskType'
  BY <1>3 DEF Export, DiskType, Outputs
<1>5. ThreadType' /\ RunType'
  BY <1>1 DEF Export, ThreadType, RunType, Active
<1>6. Shape'
  BY <1>1, <1>2 DEF Export, Shape, Before, Cut
<1> QED
  BY <1>4, <1>5, <1>6

LEMMA TInvCrash ==
    ASSUME TInv, Crash
    PROVE  TInv'
<1> USE DEF TInv, TypeOK, workdir, setup, threads
<1> DEFINE Saving == {p \in Parts : Writing(p)}
           Left(p) == CutShort(ckpt[p][LastOpIdx(p)], data[p])
<1>1. PICK left \in [Saving -> UNION {Left(p) : p \in Saving}] :
        /\ \A p \in Saving : left[p] \in Left(p)
        /\ ckpt' = [p \in Parts |-> IF p \in Saving
                                    THEN [ckpt[p] EXCEPT ![LastOpIdx(p)] = left[p]]
                                    ELSE ckpt[p]]
  BY DEF Crash
<1>2. \A p \in Saving : left[p] \in {None, Corrupt} \cup Dataset
  BY <1>1, SavingFacts, CutShortType DEF Writing
<1>3. ckpt' \in [Parts -> [OpIdx -> {None, Corrupt} \cup Dataset]]
  <2>1. ASSUME NEW p \in Saving
        PROVE  [ckpt[p] EXCEPT ![LastOpIdx(p)] = left[p]]
                   \in [OpIdx -> {None, Corrupt} \cup Dataset]
    <3>1. ckpt[p] \in [OpIdx -> {None, Corrupt} \cup Dataset]
      BY DEF DiskType
    <3>2. left[p] \in {None, Corrupt} \cup Dataset
      BY <1>2
    <3> QED
      BY <3>1, <3>2
  <2> HIDE DEF Saving
  <2> QED
    BY <1>1, <2>1 DEF DiskType
<1>4. DiskType'
  BY <1>3 DEF Crash, DiskType
<1>5. ThreadType' /\ RunType'
  BY DEF Crash, ThreadType, RunType, Ended
<1>6. Shape'
  BY DEF Crash, Shape, Before, Cut, Active
<1> QED
  BY <1>4, <1>5, <1>6

LEMMA TInvNext == TInv /\ [Next]_vars => TInv'
<1> SUFFICES ASSUME TInv, [Next]_vars PROVE TInv'
  OBVIOUS
<1>1. CASE UNCHANGED vars
  BY <1>1 DEF TInv, TypeOK, DiskType, RunType, ThreadType, Shape, vars
<1>2. ASSUME NEW c \in Commands, NEW i \in Inputs, NEW m \in Modes[c], Start(c, m, i)
      PROVE  TInv'
  <2>1. m \in AllModes
    BY KindsAssumption
  <2> QED
    BY <1>2, <2>1, TInvStart
<1>3. CASE Driver
  BY <1>3, TInvPhase, TInvEnter, TInvFixCount, TInvUnpartitioned, TInvResumeSplit,
     TInvFreshSplit, TInvClear, TInvWriteInfo, TInvGroup, TInvCancel, TInvMerge,
     TInvExport DEF Driver
<1>4. ASSUME NEW p \in Parts, PartitionStep(p)
      PROVE  TInv'
  BY <1>4, TInvBegin, TInvRun, TInvResume, TInvSave, TInvFailPartition DEF PartitionStep
<1>5. CASE Crash
  BY <1>5, TInvCrash
<1> QED
  BY <1>1, <1>2, <1>3, <1>4, <1>5 DEF Next

(* Every variable keeps its type through every run, fault and restart: no  *)
(* thread writes a checkpoint it has no index for, no partition is cut     *)
(* beyond the input, no operator runs that the recipe does not have.       *)
THEOREM TypeCorrect == Spec => []TypeOK
<1>1. Init => TInv
  BY TInvInit
<1>2. TInv /\ [Next]_vars => TInv'
  BY TInvNext
<1>3. TInv => TypeOK
  BY DEF TInv
<1> QED
  BY <1>1, <1>2, <1>3, PTL DEF Spec

-----------------------------------------------------------------------------
(* Cuts.                                                                   *)

LEMMA SmallestIndex ==
    ASSUME NEW n \in Nat, NEW S \in SUBSET (0..n), S # {}
    PROVE  \E m \in S : \A k \in S : m <= k
<1> DEFINE T == {0..m : m \in S}
<1>1. IsFiniteSet(0..n)
  BY FS_Interval
<1>2. T \subseteq FiniteSubsetsOf(0..n) /\ T # {}
  <2>1. \A m \in S : 0..m \in SUBSET (0..n)
    OBVIOUS
  <2>2. \A m \in S : 0..m \in FiniteSubsetsOf(0..n)
    BY <1>1, <2>1, FS_FiniteSubsetsOfFinite
  <2> QED
    BY <2>2
<1>3. IsWellFoundedOn(StrictSubsetOrdering(0..n), FiniteSubsetsOf(0..n))
  BY FS_StrictSubsetOrderingWellFounded
<1>4. PICK U \in T : \A V \in T : ~(<<V, U>> \in StrictSubsetOrdering(0..n))
  <2> HIDE DEF T
  <2> QED
    BY <1>2, <1>3, WFMin
<1>5. PICK m \in S : U = 0..m
  BY <1>4
<1>6. ASSUME NEW k \in S, ~(m <= k) PROVE FALSE
  <2>1. <<0..k, U>> \notin StrictSubsetOrdering(0..n)
    BY <1>4
  <2>2. 0..k \in SUBSET (0..n) /\ 0..m \in SUBSET (0..n) /\ 0..k \subseteq 0..m /\ 0..k # 0..m
    <3>1. m \in 0..m /\ m \notin 0..k
      BY <1>6
    <3> QED
      BY <1>6, <3>1
  <2> QED
    BY <1>5, <2>1, <2>2 DEF StrictSubsetOrdering
<1> QED
  BY <1>6

(* The boundaries of n partitions begin at zero, end with the last row, and *)
(* are one of two distances apart.                                          *)
LEMMA BoundaryFacts ==
    ASSUME NEW total \in Nat, NEW n \in Nat \ {0}
    PROVE  /\ total \div n \in Nat
           /\ Boundary(total, n, 0) = 0 /\ Boundary(total, n, n) = total
           /\ \A p \in 0..(n - 1) :
                 Boundary(total, n, p + 1) - Boundary(total, n, p)
                     \in {total \div n, total \div n + 1}
           /\ \A p \in 0..n : Boundary(total, n, p) \in 0..total
           /\ n <= total => total \div n >= 1
<1> DEFINE q == total \div n
           r == total % n
<1>1. q \in Nat /\ r \in Nat /\ r < n /\ total = n * q + r
  OBVIOUS
<1>2. \A p \in 0..n : Boundary(total, n, p) = p * q + (IF p <= r THEN p ELSE r)
  BY DEF Boundary, MinOf
<1>3. n <= total => q >= 1
  <2>1. CASE q = 0
    BY <1>1, <2>1
  <2> QED
    BY <1>1, <2>1
<1> HIDE DEF q, r
<1>4. \A a \in Nat : (a + 1) * q = a * q + q
  BY <1>1
<1>5. \A a, b \in Nat : a * b \in Nat
  OBVIOUS
<1>6. \A p \in 0..n : p * q \in Nat /\ p * q <= n * q
  <2>1. ASSUME NEW p \in 0..n PROVE p * q <= n * q
    <3>1. n * q = p * q + (n - p) * q
      BY <1>1
    <3>2. (n - p) * q \in Nat /\ p * q \in Nat
      BY <1>1, <1>5
    <3> QED
      BY <3>1, <3>2
  <2> QED
    BY <1>1, <1>5, <2>1
<1>7. Boundary(total, n, 0) = 0
  BY <1>1, <1>2
<1>8. Boundary(total, n, n) = total
  BY <1>1, <1>2
<1>9. \A p \in 0..(n - 1) : Boundary(total, n, p + 1) - Boundary(total, n, p) \in {q, q + 1}
  <2> SUFFICES ASSUME NEW p \in 0..(n - 1)
               PROVE  Boundary(total, n, p + 1) - Boundary(total, n, p) \in {q, q + 1}
    OBVIOUS
  <2>1. (p + 1) * q = p * q + q /\ p * q \in Nat
    BY <1>1, <1>4, <1>5
  <2>2. /\ Boundary(total, n, p) = p * q + (IF p <= r THEN p ELSE r)
        /\ Boundary(total, n, p + 1) = (p + 1) * q + (IF p + 1 <= r THEN p + 1 ELSE r)
    BY <1>2
  <2> QED
    BY <1>1, <2>1, <2>2
<1>10. \A p \in 0..n : Boundary(total, n, p) \in 0..total
  BY <1>1, <1>2, <1>5, <1>6
<1> QED
  BY <1>1, <1>3, <1>7, <1>8, <1>9, <1>10 DEF q

(* A partition of a balanced cut has one of two lengths, and none is empty *)
(* when there are rows for all.                                            *)
LEMMA BalancedFacts ==
    ASSUME NEW rows \in Seq(Rows), NEW n \in Nat \ {0}, NEW p \in 0..(n - 1)
    PROVE  /\ Balanced(rows, n)[p] \in Seq(Rows)
           /\ Len(Balanced(rows, n)[p]) \in {Len(rows) \div n, Len(rows) \div n + 1}
           /\ n <= Len(rows) => Len(rows) \div n >= 1
           /\ Len(rows) \div n \in Nat
<1> DEFINE total == Len(rows)
           from == Boundary(total, n, p)
           to == Boundary(total, n, p + 1)
<1>1. total \in Nat
  BY LenProperties
<1>2. /\ from \in 0..total /\ to \in 0..total
      /\ to - from \in {total \div n, total \div n + 1} /\ total \div n \in Nat
      /\ p = n - 1 => to = total
      /\ n <= total => total \div n >= 1
  <2>1. p \in 0..n /\ p + 1 \in 0..n /\ (p = n - 1 => p + 1 = n)
    OBVIOUS
  <2> HIDE DEF total
  <2> QED
    BY <1>1, <2>1, BoundaryFacts
<1>3. Balanced(rows, n)[p] = SubSeq(rows, from + 1, to)
  <2>1. Balanced(rows, n)[p] =
          SubSeq(rows, from + 1, IF p = n - 1 THEN total ELSE MinOf(to, total))
    BY DEF Balanced, CutAt
  <2>2. MinOf(to, total) = to
    BY <1>1, <1>2 DEF MinOf
  <2> HIDE DEF from, to
  <2> QED
    BY <1>2, <2>1, <2>2
<1>4. \A i \in (from + 1)..to : rows[i] \in Rows
  <2> HIDE DEF from, to
  <2>1. \A i \in (from + 1)..to : i \in 1..Len(rows)
    BY <1>1, <1>2
  <2> QED
    BY <2>1, ElementOfSeq
<1> HIDE DEF from, to
<1>5. /\ SubSeq(rows, from + 1, to) \in Seq(Rows)
      /\ Len(SubSeq(rows, from + 1, to)) = IF from + 1 <= to THEN to - (from + 1) + 1 ELSE 0
  BY <1>1, <1>2, <1>4, SubSeqProperties
<1> QED
  BY <1>1, <1>2, <1>3, <1>5

(* Whatever the boundaries, a cut is the input in order: they only grow,   *)
(* and the last partition takes all that is left.                          *)
LEMMA CutCovers ==
    ASSUME NEW rows \in Seq(Rows), NEW total \in Nat, NEW n \in Nat \ {0}
    PROVE  Concat(CutAt(rows, total, n), n) = rows
<1> DEFINE f == CutAt(rows, total, n)
           L == Len(rows)
           upto(k) == IF k = n THEN L ELSE MinOf(Boundary(total, n, k), L)
           w == [k \in 0..n |-> SubSeq(rows, 1, upto(k))]
           Def(g) == g = [k \in 0..n |-> IF k = 0 THEN << >> ELSE g[k - 1] \o f[k - 1]]
           u == CHOOSE g : Def(g)
<1>1. L \in Nat /\ SubSeq(rows, 1, L) = rows
  BY LenProperties, SubSeqFull
<1>2. \A k \in 0..n : Boundary(total, n, k) \in 0..total
  BY BoundaryFacts
<1>3. \A k \in 0..n : upto(k) \in 0..L
  BY <1>1, <1>2 DEF MinOf
<1>4. upto(0) = 0 /\ upto(n) = L
  BY <1>1, BoundaryFacts DEF MinOf
<1>5. ASSUME NEW k \in 1..n
      PROVE  w[k - 1] \o f[k - 1] = w[k]
  <2> DEFINE b == Boundary(total, n, k - 1)
             c == upto(k - 1)
             d == upto(k)
  <2>1. k - 1 \in 0..(n - 1) /\ k - 1 \in 0..n /\ k \in 0..n /\ k - 1 # n /\ k - 1 + 1 = k
    OBVIOUS
  <2>2. f[k - 1] = SubSeq(rows, b + 1, d)
    <3>1. f[k - 1] = SubSeq(rows, b + 1, IF k - 1 = n - 1 THEN Len(rows)
                                         ELSE MinOf(Boundary(total, n, k - 1 + 1), Len(rows)))
      BY <2>1 DEF CutAt
    <3>2. k - 1 = n - 1 <=> k = n
      OBVIOUS
    <3>3. f[k - 1] = SubSeq(rows, b + 1, IF k = n THEN Len(rows)
                                         ELSE MinOf(Boundary(total, n, k), Len(rows)))
      BY <2>1, <3>1, <3>2
    <3> QED
      BY <3>3
  <2>3. b \in Nat /\ c = MinOf(b, L) /\ c \in 0..L /\ d \in 0..L
    BY <1>2, <1>3, <2>1
  <2>4. c <= d
    <3>1. k # n => b <= Boundary(total, n, k) /\ Boundary(total, n, k) \in Nat
      <4>1. total \div n \in Nat
            /\ Boundary(total, n, k - 1 + 1) - b \in {total \div n, total \div n + 1}
        BY <2>1, BoundaryFacts
      <4>2. Boundary(total, n, k) - b >= 0 /\ Boundary(total, n, k) \in Nat
        BY <1>2, <2>1, <2>3, <4>1
      <4> QED
        BY <2>3, <4>2
    <3> QED
      BY <1>1, <2>3, <3>1 DEF MinOf
  <2>5. w[k - 1] = SubSeq(rows, 1, c) /\ w[k] = SubSeq(rows, 1, d)
    BY <2>1
  <2> HIDE DEF w, f, b, c, d, upto
  <2>6. CASE b <= L
    <3>1. c = b
      BY <1>1, <2>3, <2>6 DEF MinOf
    <3>2. 1 \in 1..(Len(rows) + 1) /\ c \in (1 - 1)..Len(rows) /\ d \in c..Len(rows)
      BY <1>1, <2>3, <2>4
    <3> QED
      BY <2>2, <2>5, <3>1, <3>2, ConcatAdjacentSubSeq
  <2>7. CASE ~(b <= L)
    <3>4. c = L
      BY <2>3, <2>7 DEF MinOf
    <3> HIDE DEF L
    <3>1. c = L /\ d = L /\ d < b + 1
      BY <1>1, <2>3, <2>4, <2>7, <3>4
    <3> USE DEF L
    <3>2. f[k - 1] = << >>
      BY <2>2, <2>3, <3>1, SubSeqEmpty
    <3> QED
      BY <1>1, <2>5, <3>1, <3>2, ConcatEmptySeq
  <2> QED
    BY <2>6, <2>7
<1>6. w[0] = << >>
  BY <1>4, SubSeqEmpty
<1>7. Def(w)
  <2>1. \A k \in 0..n : w[k] = IF k = 0 THEN << >> ELSE w[k - 1] \o f[k - 1]
    <3>1. \A k \in 0..n : k = 0 \/ k \in 1..n
      OBVIOUS
    <3> HIDE DEF w, f
    <3> QED
      BY <1>5, <1>6, <3>1
  <2> DEFINE rhs == [k \in 0..n |-> IF k = 0 THEN << >> ELSE w[k - 1] \o f[k - 1]]
  <2>2. \A k \in 0..n : w[k] = rhs[k]
    <3> HIDE DEF w, f
    <3> QED
      BY <2>1
  <2> QED
    BY <2>2
<1>8. Def(u)
  <2> HIDE DEF Def
  <2> QED
    BY <1>7
<1>9. \A k \in 0..n : u[k] = w[k]
  <2> DEFINE Bad == {k \in 0..n : u[k] # w[k]}
  <2> HIDE DEF u, w, f
  <2> SUFFICES ASSUME Bad # {} PROVE FALSE
    OBVIOUS
  <2>1. n \in Nat /\ Bad \in SUBSET (0..n)
    OBVIOUS
  <2>2. PICK m \in Bad : \A k \in Bad : m <= k
    BY <2>1, SmallestIndex
  <2>3. CASE m = 0
    BY <1>6, <1>8, <2>3
  <2>4. CASE m # 0
    <3>1. m \in 1..n /\ m - 1 \in 0..n /\ m - 1 \notin Bad
      BY <2>2, <2>4
    <3>2. u[m - 1] = w[m - 1]
      BY <3>1
    <3>3. u[m] = u[m - 1] \o f[m - 1]
      BY <1>8, <2>4, <3>1
    <3> QED
      BY <1>5, <2>2, <3>1, <3>2, <3>3
  <2> QED
    BY <2>3, <2>4
<1>10. Concat(f, n) = u[n]
  <2> HIDE DEF f
  <2> QED
    BY DEF Concat
<1>11. w[n] = SubSeq(rows, 1, upto(n)) /\ n \in 0..n
  <2>1. n \in 0..n
    OBVIOUS
  <2> HIDE DEF upto
  <2> QED
    BY <2>1
<1>12. Concat(f, n) = rows
  <2> HIDE DEF u, f, w, upto, L
  <2> QED
    BY <1>1, <1>4, <1>9, <1>10, <1>11
<1> QED
  BY <1>12

(* Inputs that are cut into the same partitions are the same, so hashes    *)
(* that match say that the input is the one that was saved.                *)
LEMMA MatchesSame ==
    ASSUME NEW rows \in Seq(Rows), NEW total \in Nat, NEW n \in Nat, NEW saved \in InfoFile,
           Matches(CutAt(rows, total, n), n, saved), saved.hashed
    PROVE  n = saved.n /\ rows = saved.rows
<1>1. n = saved.n /\ n \in Nat \ {0} /\ saved.rows \in Seq(Rows)
  BY IndexTypes DEF Matches, InfoFile
<1>2. \A p \in 0..(n - 1) : CutAt(rows, total, n)[p] = CutAt(saved.rows, Len(saved.rows), n)[p]
  BY <1>1 DEF Matches, Balanced
<1>3. Len(saved.rows) \in Nat
  BY <1>1, LenProperties
<1>4. CutAt(rows, total, n) = CutAt(saved.rows, Len(saved.rows), n)
  BY <1>2 DEF CutAt
<1>5. Concat(CutAt(saved.rows, Len(saved.rows), n), n) = saved.rows
  BY <1>1, <1>3, CutCovers
<1>6. Concat(CutAt(rows, total, n), n) = rows
  BY <1>1, CutCovers
<1> QED
  BY <1>1, <1>4, <1>5, <1>6

-----------------------------------------------------------------------------
(* Setting up: what partitioning_info.json says and what the run cut.      *)

Preparing == {"clear", "record", "recording"}

(* Every partition gets a row, unless there is none to get.                *)
WellSized(rows, n) == n <= Len(rows) \/ (n = 1 /\ rows = << >>)

SetupInv ==
    /\ phase \in Preparing => mode # "resume"
    /\ phase \in Cut => parts = Balanced(inp, num) /\ WellSized(inp, num)
    /\ Readable(info) => info.hashed = CheckpointEnabled /\ WellSized(info.rows, info.n)
    /\ phase = "process" =>
          Readable(info) /\ info.n = num /\ (CheckpointEnabled => info.rows = inp)

LEMMA SetupInit == Init => SetupInv
BY DEF Init, SetupInv, Preparing, Cut, Readable

(* The steps that leave the partitions and partitioning_info.json alone.   *)
LEMMA SetupAside ==
    ASSUME TInv, SetupInv, info' = info,
           \/ UNCHANGED <<phase, mode, inp, num, parts>>
           \/ phase' \notin Cut
           \/ phase = "clear" /\ phase' = "record" /\ UNCHANGED <<mode, inp, num, parts>>
    PROVE  SetupInv'
<1> USE DEF SetupInv, Preparing, Cut
<1>1. (Readable(info))' = Readable(info)
  BY DEF Readable
<1>2. CASE UNCHANGED <<phase, mode, inp, num, parts>>
  BY <1>1, <1>2
<1>3. CASE phase' \notin Cut
  BY <1>1, <1>3
<1>4. CASE phase = "clear" /\ phase' = "record" /\ UNCHANGED <<mode, inp, num, parts>>
  BY <1>1, <1>4
<1> QED
  BY <1>2, <1>3, <1>4

LEMMA SetupResume ==
    ASSUME TInv, SetupInv, ResumeSplit
    PROVE  SetupInv'
<1>1. /\ phase = "split" /\ phase' = "process" /\ parts' = CutAt(inp, Len(info.rows), num)
      /\ info.hashed /\ num = info.n /\ Matches(CutAt(inp, Len(info.rows), num), num, info)
      /\ UNCHANGED <<info, mode, inp, num>>
  BY DEF ResumeSplit, SavedCut, MayResume, disk, setup
<1>2. Readable(info) /\ info \in InfoFile /\ inp \in Seq(Rows) /\ num \in Nat
  BY <1>1, InputsAssumption, IndexTypes DEF ResumeSplit, TInv, TypeOK, Shape, DiskType, Readable
<1>3. Len(info.rows) \in Nat
  BY <1>2, LenProperties DEF InfoFile
<1>4. inp = info.rows
  BY <1>1, <1>2, <1>3, MatchesSame
<1> QED
  BY <1>1, <1>2, <1>4 DEF SetupInv, Preparing, Cut, Readable, Balanced

LEMMA SetupFresh ==
    ASSUME TInv, SetupInv, FreshSplit
    PROVE  SetupInv'
<1>1. /\ phase = "split" /\ mode # "resume" /\ inp \in Seq(Rows)
      /\ num' = FreshCount /\ num' \in Nat /\ parts' = CutAt(inp, Len(inp), num')
      /\ UNCHANGED <<info, mode, inp>>
  BY InputsAssumption, IndexTypes DEF FreshSplit, FreshCount, Balanced, disk, setup,
     TInv, TypeOK, RunType, Shape
<1>2. Len(inp) \in Nat /\ Len(<< >>) = 0
  BY <1>1, LenProperties, EmptySeq
<1>3. WellSized(inp, num')
  BY <1>1, <1>2 DEF FreshSplit, FreshCount, WellSized
<1>4. \/ phase' \in {"record", "clear"}
      \/ phase' = "process" /\ Readable(info) /\ Matches(parts', num', info)
  BY DEF FreshSplit
<1>5. ASSUME phase' = "process"
      PROVE  Readable(info) /\ info.n = num' /\ (CheckpointEnabled => info.rows = inp)
  <2>1. Readable(info) /\ Matches(parts', num', info) /\ info \in InfoFile
    BY <1>4, <1>5 DEF TInv, TypeOK, DiskType, Readable
  <2>2. CheckpointEnabled => info.rows = inp
    BY <1>1, <1>2, <2>1, MatchesSame DEF SetupInv
  <2> QED
    BY <2>1, <2>2 DEF Matches
<1> QED
  BY <1>1, <1>3, <1>4, <1>5 DEF SetupInv, Preparing, Cut, Readable, Balanced

LEMMA SetupInfo ==
    ASSUME TInv, SetupInv, ClearInfo \/ OpenInfo \/ WriteInfo
    PROVE  SetupInv'
<1>1. UNCHANGED <<mode, inp, num, parts>>
  BY DEF ClearInfo, OpenInfo, WriteInfo, setup
<1>2. CASE ClearInfo \/ OpenInfo
  <2>1. ~(Readable(info))'
    BY <1>2 DEF ClearInfo, OpenInfo, Readable
  <2>2. phase \in Preparing /\ phase' \in Preparing
    BY <1>2 DEF ClearInfo, OpenInfo, Preparing
  <2> QED
    BY <1>1, <2>1, <2>2 DEF SetupInv, Preparing, Cut
<1>3. CASE WriteInfo
  <2>1. /\ phase = "recording" /\ phase' = "process"
        /\ info' = [n |-> num, rows |-> inp, hashed |-> CheckpointEnabled]
    BY <1>3 DEF WriteInfo
  <2>2. num \in 1..MaxPartitions /\ inp \in Seq(Rows) /\ CheckpointEnabled \in BOOLEAN
    BY <2>1, InputsAssumption DEF TInv, Shape, Cut, CheckpointEnabled
  <2>3. info' \in InfoFile
    BY <2>1, <2>2 DEF InfoFile
  <2>4. info' # None /\ info' # Corrupt
    BY <2>3, FilesAssumption
  <2> QED
    BY <1>1, <2>1, <2>4 DEF SetupInv, Preparing, Cut, Readable
<1> QED
  BY <1>2, <1>3

(* Where a step may lead.                                                  *)
LEMMA Aside ==
    ASSUME TInv, [Next]_vars
    PROVE  \/ ResumeSplit \/ FreshSplit \/ ClearInfo \/ OpenInfo \/ WriteInfo
           \/ /\ info' = info
              /\ \/ UNCHANGED <<phase, mode, inp, num, parts>>
                 \/ phase' \notin Cut
                 \/ phase = "clear" /\ phase' = "record" /\ UNCHANGED <<mode, inp, num, parts>>
<1> USE DEF disk, setup, Cut
<1>1. CASE UNCHANGED vars
  BY <1>1 DEF vars
<1>2. ASSUME NEW c \in Commands, NEW i \in Inputs, NEW m \in Modes[c], Start(c, m, i)
      PROVE  info' = info /\ phase' \notin Cut
  BY <1>2 DEF Start
<1>3. CASE \/ AlreadyComplete \/ RefuseResume \/ Enter \/ FixCount \/ RefuseNoInfo
           \/ RunUnpartitioned \/ RefuseSplit \/ FailSplit \/ Cleared \/ FailJob \/ Merge
           \/ FailMerge \/ Export \/ Complete \/ Crash
  BY <1>3 DEF AlreadyComplete, RefuseResume, Enter, FixCount, RefuseNoInfo, StopAs,
     RunUnpartitioned, RefuseSplit, FailSplit, Cleared, FailJob, Merge, FailMerge, Export,
     Complete, Crash
<1>4. ASSUME NEW p \in Parts, NEW i \in OpIdx, ClearCheckpoint(p, i)
      PROVE  UNCHANGED <<info, phase, mode, inp, num, parts>>
  BY <1>4 DEF ClearCheckpoint
<1>5. CASE CancelQueued \/ (\E g \in Parts : GroupStep(g)) \/ (\E p \in Parts : PartitionStep(p))
  <2>1. JobUnchanged
    BY <1>5 DEF CancelQueued, GroupStep, BeginExecutionGroup, RunExecutionGroup,
       FinishExecutionGroup, FailExecutionGroup, PartitionStep, Begin, SkipGroup, RunGroup,
       ResumeGroup, RestartGroup, FinishSave, FinishPartition, FailPartition
  <2> QED
    BY <2>1 DEF JobUnchanged
<1> QED
  BY <1>1, <1>2, <1>3, <1>4, <1>5 DEF Next, Driver

LEMMA SetupNext == TInv /\ SetupInv /\ [Next]_vars => SetupInv'
<1> SUFFICES ASSUME TInv, SetupInv, [Next]_vars PROVE SetupInv'
  OBVIOUS
<1> QED
  BY Aside, SetupAside, SetupResume, SetupFresh, SetupInfo

LEMMA SetupAlways == Spec => [](TInv /\ SetupInv)
BY TInvInit, TInvNext, SetupInit, SetupNext, PTL DEF Spec

(* The threads of every run, resumed or fresh, start from partitions that  *)
(* are the input of this run, cut in order and evenly.                     *)
THEOREM PartitionsCoverInput == Spec => []PartsCoverInput
<1>1. TInv /\ SetupInv => PartsCoverInput
  <2> SUFFICES ASSUME TInv, SetupInv, phase = "process"
               PROVE  /\ Concat(parts, num) = inp
                      /\ \A p, q \in 0..(num - 1) :
                            /\ Len(parts[p]) - Len(parts[q]) \in -1..1
                            /\ inp # << >> => parts[p] # << >>
    BY DEF PartsCoverInput
  <2>1. /\ parts = Balanced(inp, num) /\ WellSized(inp, num)
        /\ inp \in Seq(Rows) /\ num \in Nat \ {0} /\ Len(inp) \in Nat
    BY InputsAssumption, IndexTypes, LenProperties DEF TInv, Shape, SetupInv, Cut
  <2>2. Concat(parts, num) = inp
    BY <2>1, CutCovers DEF Balanced
  <2>3. \A p \in 0..(num - 1) :
          /\ parts[p] \in Seq(Rows) /\ Len(inp) \div num \in Nat
          /\ Len(parts[p]) \in {Len(inp) \div num, Len(inp) \div num + 1}
          /\ num <= Len(inp) => Len(inp) \div num >= 1
    BY <2>1, BalancedFacts
  <2>4. \A p, q \in 0..(num - 1) : Len(parts[p]) - Len(parts[q]) \in -1..1
    BY <2>3
  <2>5. \A p \in 0..(num - 1) : inp # << >> => parts[p] # << >>
    BY <2>1, <2>3, EmptySeq DEF WellSized
  <2> QED
    BY <2>2, <2>4, <2>5
<1> QED
  BY <1>1, SetupAlways, PTL

(* A run started with --resume writes nothing into the checkpoint          *)
(* directory before its threads run, whatever makes it give up.            *)
THEOREM ResumeChangesNothing == Spec => ResumeReadOnly
<1>1. TInv /\ SetupInv /\ [Next]_vars => [mode = "resume" /\ phase # "process" => UNCHANGED disk]_vars
  <2> SUFFICES ASSUME TInv, SetupInv, Next, mode = "resume", phase # "process"
               PROVE  UNCHANGED disk
    BY DEF vars, disk
  <2>1. phase \notin Preparing /\ ckpt \in [Parts -> [OpIdx -> {None, Corrupt} \cup Dataset]]
    BY DEF SetupInv, TInv, TypeOK, DiskType
  <2>2. CASE \/ AlreadyComplete \/ RefuseResume \/ Enter \/ FixCount \/ RefuseNoInfo
             \/ RunUnpartitioned \/ ResumeSplit \/ RefuseSplit \/ FailSplit \/ FreshSplit
             \/ Cleared \/ CancelQueued \/ FailJob \/ Merge \/ FailMerge \/ Export \/ Complete
    BY <2>2 DEF AlreadyComplete, RefuseResume, Enter, FixCount, RefuseNoInfo, StopAs,
       RunUnpartitioned, ResumeSplit, RefuseSplit, FailSplit, FreshSplit, Cleared,
       CancelQueued, FailJob, Merge, FailMerge, Export, Complete, disk
  <2>3. ASSUME NEW c \in Commands, NEW i \in Inputs, NEW m \in Modes[c], Start(c, m, i)
        PROVE  UNCHANGED disk
    BY <2>3 DEF Start
  <2>4. ~(ClearInfo \/ OpenInfo \/ WriteInfo)
    BY <2>1 DEF ClearInfo, OpenInfo, WriteInfo, Preparing
  <2>5. ~(\E p \in Parts, i \in OpIdx : ClearCheckpoint(p, i))
    BY <2>1 DEF ClearCheckpoint, Preparing
  <2>6. ~(\E g \in Parts : GroupStep(g)) /\ ~(\E p \in Parts : PartitionStep(p))
    BY DEF GroupStep, BeginExecutionGroup, RunExecutionGroup, FinishExecutionGroup,
       FailExecutionGroup, InGroup, PartitionStep, Begin, SkipGroup, RunGroup, ResumeGroup,
       RestartGroup, FinishSave, FinishPartition, FailPartition, AtGroup, Writing
  <2>7. CASE Crash
    <3>1. \A p \in Parts : ~Writing(p)
      BY DEF Writing
    <3>2. info' = info /\ ckpt' = [p \in Parts |-> ckpt[p]]
      BY <2>7, <3>1 DEF Crash
    <3> QED
      BY <2>1, <3>2 DEF disk
  <2> QED
    BY <2>2, <2>3, <2>4, <2>5, <2>6, <2>7 DEF Next, Driver
<1> QED
  BY <1>1, SetupAlways, PTL DEF Spec, ResumeReadOnly

-----------------------------------------------------------------------------
(* Threads.  A step of the threads is a move of each of them; without torn *)
(* writes and failing reads a checkpoint that is there can be loaded.      *)

Intact == Faults \cap {"torn", "load"} = {}

Stays(p) ==
    /\ status'[p] = status[p] /\ pos'[p] = pos[p] /\ latest'[p] = latest[p]
    /\ data'[p] = data[p] /\ ran'[p] = ran[p] /\ ckpt'[p] = ckpt[p]

Begins(p) ==
    /\ status[p] = "queued" /\ status'[p] = "running"
    /\ IF Grouped THEN latest'[p] = latest[p] ELSE IsLatest(p, latest'[p])
    /\ data'[p] = Applied(parts[p], << >>)
    /\ pos'[p] = pos[p] /\ ran'[p] = ran[p] /\ ckpt'[p] = ckpt[p]

Runs(p, d, i, e) ==
    /\ data'[p] = Process(d, Slice(i, e)) /\ ran'[p] = ran[p] \cup i..(e - 1)
    /\ status'[p] = IF ShouldCheckpoint(e - 1) THEN "saving" ELSE "running"

Goes(p, e) ==
    /\ status[p] = "running" /\ pos'[p] = e
    /\ latest'[p] = latest[p] /\ ckpt'[p] = ckpt[p]
    /\ \/ latest[p] < pos[p] /\ Runs(p, data[p], pos[p], e)
       \/ /\ latest[p] \in pos[p]..(e - 2)
          /\ Runs(p, ckpt[p][latest[p]], latest[p] + 1, e)
       \/ /\ latest[p] = e - 1 /\ data'[p] = ckpt[p][latest[p]]
          /\ ran'[p] = ran[p] /\ status'[p] = "running"
       \/ /\ latest[p] >= e /\ data'[p] = data[p]
          /\ ran'[p] = ran[p] /\ status'[p] = "running"

Stores(p) ==
    /\ status[p] = "saving" /\ status'[p] = "running"
    /\ ckpt'[p] = [ckpt[p] EXCEPT ![pos[p] - 1] = Saved(@, data[p])]
    /\ pos'[p] = pos[p] /\ latest'[p] = latest[p]
    /\ data'[p] = data[p] /\ ran'[p] = ran[p]

Ends(p) ==
    /\ \/ status[p] = "running" /\ pos[p] = Last /\ status'[p] = "done"
       \/ status'[p] = "failed"
       \/ status[p] = "queued" /\ status'[p] = "cancelled"
    /\ pos'[p] = pos[p] /\ latest'[p] = latest[p]
    /\ data'[p] = data[p] /\ ran'[p] = ran[p] /\ ckpt'[p] = ckpt[p]

Moves(p) ==
    \/ Stays(p) \/ Begins(p) \/ Stores(p) \/ Ends(p)
    \/ \E e \in GroupEnd(pos[p]) : Goes(p, e)

Thread(p) ==
    /\ status[p] \in {"idle", "queued", "cancelled"} =>
          pos[p] = 0 /\ latest[p] = -1 /\ ran[p] = {}
    /\ status[p] \in {"running", "saving", "done"} =>
          ran[p] = (latest[p] + 1)..(pos[p] - 1)
    /\ status[p] \in {"running", "saving"} /\ latest[p] # -1 =>
          ckpt[p][latest[p]] # None
    /\ status[p] = "saving" => latest[p] < pos[p] - 1
    /\ status[p] = "done" => pos[p] = Last
    /\ \A i \in OpIdx : ckpt[p][i] # Corrupt

Lockstep ==
    phase = "process" /\ Grouped =>
        /\ \A p \in Parts : latest[p] = -1
        /\ \A g \in Parts : \A p, q \in Group(g) : pos[p] = pos[q]

ThreadInv == (\A p \in Parts : Thread(p)) /\ Lockstep

(* One partition thread moves, the others stay.                            *)
LEMMA ThreadMoves ==
    ASSUME TInv, ThreadInv, Intact, NEW p \in Parts, PartitionStep(p)
    PROVE  /\ phase = "process" /\ JobUnchanged
           /\ Moves(p) /\ \A q \in Parts : q # p => Stays(q)
           /\ Grouped => latest'[p] = latest[p] /\ pos'[p] = pos[p]
<1>1. phase = "process" /\ JobUnchanged /\ status[p] # "idle"
  BY DEF PartitionStep, Begin, SkipGroup, RunGroup, ResumeGroup, RestartGroup, FinishSave,
         FinishPartition, FailPartition, AtGroup, Writing
<1>2. /\ ckpt \in [Parts -> [OpIdx -> {None, Corrupt} \cup Dataset]]
      /\ DOMAIN status = Parts /\ DOMAIN pos = Parts /\ DOMAIN latest = Parts
      /\ DOMAIN data = Parts /\ DOMAIN ran = Parts
      /\ pos[p] \in 0..MaxOps /\ latest[p] \in -1..(MaxOps - 1)
  BY DEF TInv, TypeOK, ThreadType, DiskType
<1>3. Thread(p) /\ cmd \in Commands /\ pos[p] \in Nat
  BY <1>1, ThreadFacts DEF ThreadInv
<1>4. CASE Begin(p)
  <2>1. Begins(p)
    BY <1>2, <1>4 DEF Begin, Begins
  <2>2. \A q \in Parts : q # p => Stays(q)
    BY <1>2, <1>4 DEF Begin, Stays
  <2> QED
    BY <1>1, <1>4, <2>1, <2>2 DEF Begin, Moves
<1>5. CASE SkipGroup(p)
  <2>1. PICK e \in GroupEnd(pos[p]) : latest[p] >= e /\ pos' = [pos EXCEPT ![p] = e]
    BY <1>5 DEF SkipGroup
  <2>2. Goes(p, e)
    BY <1>2, <1>5, <2>1 DEF SkipGroup, AtGroup, Goes
  <2>3. \A q \in Parts : q # p => Stays(q)
    BY <1>2, <1>5, <2>1 DEF SkipGroup, Stays
  <2> QED
    BY <1>1, <1>5, <2>2, <2>3 DEF SkipGroup, AtGroup, Moves
<1>6. ASSUME NEW d, NEW i, NEW e, Execute(p, d, i, e)
      PROVE  /\ Runs(p, d, i, e) /\ pos'[p] = e
             /\ latest'[p] = latest[p] /\ ckpt'[p] = ckpt[p]
             /\ \A q \in Parts : q # p => Stays(q)
  <2>1. Runs(p, d, i, e) /\ pos'[p] = e /\ latest'[p] = latest[p] /\ ckpt'[p] = ckpt[p]
    BY <1>2, <1>6 DEF Execute, Runs
  <2>2. \A q \in Parts : q # p => Stays(q)
    BY <1>2, <1>6 DEF Execute, Stays
  <2> QED
    BY <2>1, <2>2
<1>7. CASE RunGroup(p)
  <2>1. PICK e \in GroupEnd(pos[p]) :
          latest[p] < pos[p] /\ Execute(p, data[p], pos[p], e)
    BY <1>7 DEF RunGroup
  <2>2. Goes(p, e) /\ \A q \in Parts : q # p => Stays(q)
    BY <1>6, <1>7, <2>1 DEF RunGroup, AtGroup, Goes
  <2> QED
    BY <1>1, <1>7, <2>2 DEF RunGroup, AtGroup, Moves
<1>8. ASSUME status[p] = "running", NEW e \in GroupEnd(pos[p]), latest[p] \in pos[p]..(e - 1)
      PROVE  LoadResults(ckpt[p][latest[p]]) = {ckpt[p][latest[p]]}
                 /\ ckpt[p][latest[p]] # None
  <2>1. e \in 1..MaxOps
    BY <1>3, GroupEndType
  <2>2. latest[p] \in OpIdx /\ latest[p] # -1
    BY <1>3, <1>8, <2>1, IndexTypes DEF OpIdx
  <2>3. ckpt[p][latest[p]] # Corrupt /\ ckpt[p][latest[p]] # None
    BY <1>3, <1>8, <2>2 DEF Thread
  <2> QED
    BY <2>3 DEF LoadResults, Intact
<1>9. CASE ResumeGroup(p)
  <2>1. PICK e \in GroupEnd(pos[p]), d \in LoadResults(ckpt[p][latest[p]]) \ {None} :
          /\ latest[p] \in pos[p]..(e - 1)
          /\ IF ResumeFrom(p) < e THEN Execute(p, d, ResumeFrom(p), e)
             ELSE /\ data' = [data EXCEPT ![p] = d]
                  /\ pos' = [pos EXCEPT ![p] = e]
                  /\ UNCHANGED <<ckpt, status, latest, ran>>
    BY <1>9 DEF ResumeGroup
  <2>2. d = ckpt[p][latest[p]] /\ status[p] = "running" /\ ~Grouped
    BY <1>8, <1>9, <2>1 DEF ResumeGroup, AtGroup
  <2>3. e \in 1..MaxOps
    BY <1>3, GroupEndType
  <2>4. Goes(p, e) /\ \A q \in Parts : q # p => Stays(q)
    <3>1. CASE ResumeFrom(p) < e
      <4>1. latest[p] \in pos[p]..(e - 2) /\ Execute(p, d, latest[p] + 1, e)
        BY <1>2, <2>1, <2>3, <3>1 DEF ResumeFrom
      <4> QED
        BY <1>6, <2>2, <4>1 DEF Goes
    <3>2. CASE ~(ResumeFrom(p) < e)
      <4>1. latest[p] = e - 1
        BY <1>2, <2>1, <2>3, <3>2 DEF ResumeFrom
      <4>2. Goes(p, e)
        BY <1>2, <2>1, <2>2, <3>2, <4>1 DEF Goes
      <4>3. \A q \in Parts : q # p => Stays(q)
        BY <1>2, <2>1, <3>2 DEF Stays
      <4> QED
        BY <4>2, <4>3
    <3> QED
      BY <3>1, <3>2
  <2> QED
    BY <1>1, <2>2, <2>4 DEF Moves
<1>10. ~RestartGroup(p)
  BY <1>8 DEF RestartGroup, AtGroup
<1>11. CASE FinishSave(p)
  <2>1. Stores(p)
    BY <1>2, <1>11 DEF FinishSave, Writing, LastOpIdx, Stores
  <2>2. \A q \in Parts : q # p => Stays(q)
    BY <1>2, <1>11 DEF FinishSave, Stays
  <2> QED
    BY <1>1, <1>11, <2>1, <2>2 DEF FinishSave, Moves
<1>12. CASE FinishPartition(p)
  <2>1. Ends(p)
    BY <1>2, <1>12 DEF FinishPartition, AtGroup, Ends
  <2>2. \A q \in Parts : q # p => Stays(q)
    BY <1>2, <1>12 DEF FinishPartition, Stays
  <2> QED
    BY <1>1, <1>12, <2>1, <2>2 DEF FinishPartition, Moves
<1>13. CASE FailPartition(p)
  <2>1. ckpt' = ckpt
    <3>1. \A old, d : CutShort(old, d) = {old}
      BY DEF CutShort, Intact
    <3> QED
      BY <1>2, <1>13, <3>1 DEF FailPartition
  <2>2. Ends(p)
    BY <1>1, <1>2, <1>13, <2>1 DEF FailPartition, Ends
  <2>3. \A q \in Parts : q # p => Stays(q)
    BY <1>2, <1>13, <2>1 DEF FailPartition, Stays
  <2> QED
    BY <1>1, <1>13, <2>2, <2>3 DEF FailPartition, Moves
<1> QED
  BY <1>4, <1>5, <1>7, <1>9, <1>10, <1>11, <1>12, <1>13 DEF PartitionStep

(* The partitions of an execution group move together, or one after the    *)
(* other when they save; the queued ones are cancelled together.           *)
LEMMA GroupMoves ==
    ASSUME TInv, ThreadInv, Intact, NEW g \in Parts, GroupStep(g)
    PROVE  /\ phase = "process" /\ JobUnchanged /\ latest' = latest /\ ckpt' = ckpt
           /\ \A p \in Parts : Moves(p)
           /\ \/ pos' = pos
              \/ \E e \in 1..MaxOps :
                    pos' = [p \in Parts |-> IF p \in Group(g) THEN e ELSE pos[p]]
<1>1. /\ phase = "process" /\ JobUnchanged /\ Grouped /\ latest' = latest
      /\ Group(g) \subseteq Parts
  <2>1. phase = "process" /\ JobUnchanged /\ Grouped
    BY DEF GroupStep, BeginExecutionGroup, RunExecutionGroup, FinishExecutionGroup,
           FailExecutionGroup, InGroup, Writing
  <2>2. latest' = latest
    BY DEF GroupStep, BeginExecutionGroup, RunExecutionGroup, FinishExecutionGroup,
           FailExecutionGroup, ExecuteTogether
  <2> QED
    BY <2>1, <2>2 DEF Group
<1>2. /\ ckpt \in [Parts -> [OpIdx -> {None, Corrupt} \cup Dataset]]
      /\ DOMAIN status = Parts /\ DOMAIN pos = Parts /\ DOMAIN latest = Parts
      /\ DOMAIN data = Parts /\ DOMAIN ran = Parts
      /\ \A p \in Parts : pos[p] \in 0..MaxOps /\ latest[p] = -1
  BY <1>1 DEF TInv, TypeOK, ThreadType, DiskType, ThreadInv, Lockstep
<1>3. CASE BeginExecutionGroup(g)
  <2>1. \A p \in Parts : p \in Group(g) => Begins(p)
    BY <1>1, <1>2, <1>3 DEF BeginExecutionGroup, InGroup, Begins
  <2>2. \A p \in Parts : p \notin Group(g) => Stays(p)
    BY <1>1, <1>2, <1>3 DEF BeginExecutionGroup, Stays
  <2> QED
    BY <1>1, <1>3, <2>1, <2>2 DEF BeginExecutionGroup, Moves
<1>4. CASE RunExecutionGroup(g)
  <2>1. PICK q \in Group(g) : \E e \in GroupEnd(pos[q]) : ExecuteTogether(g, e)
    BY <1>4 DEF RunExecutionGroup
  <2>2. PICK e \in GroupEnd(pos[q]) : ExecuteTogether(g, e)
    BY <2>1
  <2>3. \A p \in Group(g) : pos[p] = pos[q] /\ status[p] = "running"
    BY <1>1, <1>4, <2>1 DEF ThreadInv, Lockstep, RunExecutionGroup, InGroup
  <2>4. cmd \in Commands
    BY <1>1, <2>1, <2>3, ThreadFacts
  <2>5. e \in 1..MaxOps /\ pos' = [p \in Parts |-> IF p \in Group(g) THEN e ELSE pos[p]]
    BY <1>1, <1>2, <2>1, <2>2, <2>4, GroupEndType DEF ExecuteTogether
  <2>6. ASSUME NEW p \in Parts, p \in Group(g)
        PROVE  e \in GroupEnd(pos[p]) /\ Goes(p, e)
    <3>1. e \in GroupEnd(pos[p]) /\ status[p] = "running" /\ latest[p] < pos[p]
      BY <1>2, <2>2, <2>3, <2>6
    <3>2. Runs(p, data[p], pos[p], e)
      BY <2>2, <2>6 DEF ExecuteTogether, Runs
    <3>3. pos'[p] = e /\ latest'[p] = latest[p] /\ ckpt'[p] = ckpt[p]
      BY <2>2, <2>6 DEF ExecuteTogether
    <3> QED
      BY <3>1, <3>2, <3>3 DEF Goes
  <2>7. \A p \in Parts : p \notin Group(g) => Stays(p)
    BY <1>2, <2>2 DEF ExecuteTogether, Stays
  <2>8. ckpt' = ckpt
    BY <2>2 DEF ExecuteTogether
  <2> QED
    BY <1>1, <2>5, <2>6, <2>7, <2>8 DEF Moves
<1>5. CASE FinishExecutionGroup(g)
  <2>1. \A p \in Parts : p \in Group(g) => Ends(p)
    BY <1>2, <1>5 DEF FinishExecutionGroup, InGroup, Ends
  <2>2. \A p \in Parts : p \notin Group(g) => Stays(p)
    BY <1>2, <1>5 DEF FinishExecutionGroup, Stays
  <2> QED
    BY <1>1, <1>5, <2>1, <2>2 DEF FinishExecutionGroup, Moves
<1>6. CASE FailExecutionGroup(g)
  <2>1. ckpt' = ckpt
    <3>1. \A old, d : CutShort(old, d) = {old}
      BY DEF CutShort, Intact
    <3> QED
      BY <1>1, <1>2, <1>6, <3>1 DEF FailExecutionGroup
  <2>3. \A p \in Parts : p \in Group(g) => Ends(p)
    BY <1>1, <1>2, <1>6, <2>1 DEF FailExecutionGroup, InGroup, Ends
  <2>4. \A p \in Parts : p \notin Group(g) => Stays(p)
    BY <1>2, <1>6, <2>1 DEF FailExecutionGroup, Stays
  <2> QED
    BY <1>1, <1>6, <2>1, <2>3, <2>4 DEF FailExecutionGroup, Moves
<1> QED
  BY <1>3, <1>4, <1>5, <1>6 DEF GroupStep

LEMMA CancelMoves ==
    ASSUME TInv, CancelQueued
    PROVE  /\ phase = "process" /\ JobUnchanged /\ latest' = latest /\ pos' = pos
           /\ ckpt' = ckpt
           /\ \A p \in Parts : Moves(p)
<1>1. DOMAIN status = Parts
  BY DEF TInv, TypeOK, ThreadType
<1>2. \A p \in Parts : status[p] = "queued" => Ends(p)
  BY <1>1 DEF CancelQueued, Ends
<1>3. \A p \in Parts : status[p] # "queued" => Stays(p)
  BY <1>1 DEF CancelQueued, Stays
<1> QED
  BY <1>2, <1>3 DEF CancelQueued, Moves

(* A completed write replaces nothing by an unreadable file or by none.    *)
LEMMA SavedReadable ==
    ASSUME NEW old \in {None} \cup Dataset, NEW d \in Dataset
    PROVE  Saved(old, d) \in Dataset /\ Saved(old, d) # None /\ Saved(old, d) # Corrupt
<1>1. Saved(old, d) \in Dataset
  BY ConcatProperties, FilesAssumption DEF Saved, Dataset
<1> QED
  BY <1>1, FilesAssumption

LEMMA MoveKeeps ==
    ASSUME TInv, TInv', phase = "process", JobUnchanged,
           NEW p \in Parts, Thread(p), Moves(p)
    PROVE  Thread(p)'
<1>1. /\ pos[p] \in 0..MaxOps /\ pos'[p] \in 0..MaxOps /\ MaxOps \in Nat
      /\ latest[p] \in -1..(MaxOps - 1) /\ latest'[p] \in -1..(MaxOps - 1)
      /\ data[p] \in Dataset
      /\ ckpt[p] \in [OpIdx -> {None, Corrupt} \cup Dataset]
      /\ OpIdx = 0..(MaxOps - 1)
  BY IndexTypes DEF TInv, TypeOK, ThreadType, DiskType, OpIdx
<1>2. Last' = Last /\ cmd' = cmd
  BY DEF JobUnchanged, setup, Last, PreLen
<1>3. CASE Stays(p)
  BY <1>2, <1>3 DEF Stays, Thread
<1>4. CASE Begins(p)
  <2>1. latest'[p] # -1 => ckpt[p][latest'[p]] # None
    BY <1>4 DEF Begins, IsLatest, Thread
  <2>2. {} = (latest'[p] + 1)..(pos'[p] - 1)
    BY <1>1, <1>4 DEF Begins, Thread
  <2> QED
    BY <1>4, <2>1, <2>2 DEF Begins, Thread
<1>5. CASE Stores(p)
  <2>1. pos[p] - 1 \in OpIdx
    BY <1>1, <1>5 DEF Stores, TInv, Shape
  <2>2. ckpt[p][pos[p] - 1] \in {None} \cup Dataset
    BY <1>1, <2>1 DEF Thread
  <2>3. /\ Saved(ckpt[p][pos[p] - 1], data[p]) # None
        /\ Saved(ckpt[p][pos[p] - 1], data[p]) # Corrupt
    BY <1>1, <2>2, SavedReadable
  <2>4. \A i \in OpIdx : ckpt'[p][i] # Corrupt /\ (ckpt[p][i] # None => ckpt'[p][i] # None)
    BY <1>1, <1>5, <2>1, <2>3 DEF Stores, Thread
  <2>5. latest[p] \in OpIdx \/ latest[p] = -1
    BY <1>1
  <2> QED
    BY <1>5, <2>4, <2>5 DEF Stores, Thread
<1>6. CASE Ends(p)
  <2>1. CASE status[p] = "running" /\ pos[p] = Last /\ status'[p] = "done"
    BY <1>2, <1>6, <2>1 DEF Ends, Thread
  <2>2. CASE status'[p] = "failed"
    BY <1>6, <2>2 DEF Ends, Thread
  <2>3. CASE status[p] = "queued" /\ status'[p] = "cancelled"
    BY <1>6, <2>3 DEF Ends, Thread
  <2> QED
    BY <1>6, <2>1, <2>2, <2>3 DEF Ends
<1>7. ASSUME NEW e \in GroupEnd(pos[p]), Goes(p, e)
      PROVE  Thread(p)'
  <2>1. e \in (pos[p] + 1)..MaxOps
    <3>1. cmd \in Commands /\ pos[p] \in Nat
      BY <1>7, ThreadFacts DEF Goes
    <3> QED
      BY <1>1, <3>1, GroupEndType
  <2>2. /\ status[p] = "running" /\ pos'[p] = e /\ latest'[p] = latest[p] /\ ckpt'[p] = ckpt[p]
        /\ ran[p] = (latest[p] + 1)..(pos[p] - 1)
        /\ status'[p] \in {"running", "saving"}
    BY <1>7 DEF Goes, Runs, Thread
  <2>3. ran'[p] = (latest[p] + 1)..(e - 1)
    <3>1. CASE latest[p] < pos[p] /\ Runs(p, data[p], pos[p], e)
      BY <1>1, <2>1, <2>2, <3>1 DEF Runs
    <3>2. CASE latest[p] \in pos[p]..(e - 2) /\ Runs(p, ckpt[p][latest[p]], latest[p] + 1, e)
      BY <1>1, <2>1, <2>2, <3>2 DEF Runs
    <3>3. CASE latest[p] >= e - 1 /\ ran'[p] = ran[p]
      BY <1>1, <2>1, <2>2, <3>3
    <3> QED
      BY <1>1, <1>7, <2>1, <3>1, <3>2, <3>3 DEF Goes
  <2>4. status'[p] = "saving" => latest[p] < e - 1
    BY <1>1, <1>7, <2>1 DEF Goes
  <2> QED
    BY <2>2, <2>3, <2>4 DEF Thread
<1> QED
  BY <1>3, <1>4, <1>5, <1>6, <1>7 DEF Moves

LEMMA ThreadStep ==
    ASSUME TInv, TInv', ThreadInv, Intact,
           \/ \E p \in Parts : PartitionStep(p)
           \/ \E g \in Parts : GroupStep(g)
           \/ CancelQueued
    PROVE  ThreadInv'
<1>1. phase = "process" /\ JobUnchanged
  BY ThreadMoves, GroupMoves, CancelMoves
<1>2. \A p \in Parts : Moves(p)
  <2>1. ASSUME NEW p \in Parts, PartitionStep(p)
        PROVE  \A q \in Parts : Moves(q)
    BY <2>1, ThreadMoves DEF Moves
  <2> QED
    BY <2>1, GroupMoves, CancelMoves
<1>3. \A p \in Parts : Thread(p)'
  BY <1>1, <1>2, MoveKeeps DEF ThreadInv
<1>4. /\ Grouped' = Grouped /\ phase' = phase /\ DOMAIN latest = Parts /\ DOMAIN pos = Parts
      /\ \A g \in Parts : Group(g)' = Group(g) /\ Group(g) \subseteq Parts
  BY <1>1 DEF JobUnchanged, Grouped, Group, TInv, TypeOK, ThreadType
<1>5. Lockstep'
  <2> SUFFICES ASSUME Grouped
               PROVE  /\ \A p \in Parts : latest'[p] = -1
                      /\ \A g \in Parts : \A p, q \in Group(g) : pos'[p] = pos'[q]
    BY <1>4 DEF Lockstep
  <2>1. /\ \A p \in Parts : latest[p] = -1
        /\ \A g \in Parts : \A p, q \in Group(g) : pos[p] = pos[q]
    BY <1>1 DEF ThreadInv, Lockstep
  <2>2. ASSUME NEW p \in Parts, PartitionStep(p)
        PROVE  \A q \in Parts : latest'[q] = latest[q] /\ pos'[q] = pos[q]
    BY <2>2, ThreadMoves DEF Stays
  <2>3. ASSUME latest' = latest, pos' = pos
        PROVE  \A q \in Parts : latest'[q] = latest[q] /\ pos'[q] = pos[q]
    BY <2>3
  <2>4. ASSUME latest' = latest, NEW h \in Parts, NEW e \in 1..MaxOps,
               pos' = [p \in Parts |-> IF p \in Group(h) THEN e ELSE pos[p]]
        PROVE  /\ \A p \in Parts : latest'[p] = -1
               /\ \A g \in Parts : \A p, q \in Group(g) : pos'[p] = pos'[q]
    <3>1. \A p \in Parts : latest'[p] = -1
      BY <2>1, <2>4
    <3>2. ASSUME NEW g \in Parts, NEW p \in Group(g), NEW q \in Group(g)
          PROVE  pos'[p] = pos'[q]
      <4>1. p \in Group(h) <=> q \in Group(h)
        BY DEF Group
      <4>2. p \in Parts /\ q \in Parts /\ pos[p] = pos[q]
        BY <1>4, <2>1
      <4> QED
        BY <2>4, <4>1, <4>2
    <3> QED
      BY <3>1, <3>2
  <2>5. CASE \A q \in Parts : latest'[q] = latest[q] /\ pos'[q] = pos[q]
    BY <1>4, <2>1, <2>5
  <2> QED
    BY <2>2, <2>3, <2>4, <2>5, GroupMoves, CancelMoves
<1> QED
  BY <1>3, <1>5 DEF ThreadInv

ThreadsMove ==
    \/ \E p \in Parts : PartitionStep(p)
    \/ \E g \in Parts : GroupStep(g)
    \/ CancelQueued

(* A kill leaves the checkpoints as they are when writes are whole.        *)
LEMMA CrashIntact ==
    ASSUME TInv, Intact, Crash
    PROVE  ckpt' = ckpt
<1> DEFINE Saving == {p \in Parts : Writing(p)}
           Left(p) == CutShort(ckpt[p][LastOpIdx(p)], data[p])
<1>1. PICK left \in [Saving -> UNION {Left(p) : p \in Saving}] :
        /\ \A p \in Saving : left[p] \in Left(p)
        /\ ckpt' = [p \in Parts |-> IF p \in Saving
                                    THEN [ckpt[p] EXCEPT ![LastOpIdx(p)] = left[p]]
                                    ELSE ckpt[p]]
  BY DEF Crash
<1>2. \A p \in Saving : left[p] = ckpt[p][LastOpIdx(p)]
  BY <1>1 DEF CutShort, Intact
<1>3. ckpt \in [Parts -> [OpIdx -> {None, Corrupt} \cup Dataset]]
  BY DEF TInv, TypeOK, DiskType
<1> HIDE DEF Saving
<1>4. \A p \in Parts : ckpt'[p] = ckpt[p]
  BY <1>1, <1>2, <1>3
<1> QED
  BY <1>1, <1>3, <1>4

(* What a step that is not one of the threads does to them and to the      *)
(* checkpoints.                                                            *)
LEMMA OtherSteps ==
    ASSUME TInv, Intact, [Next]_vars
    PROVE  \/ ThreadsMove
           \/ \E c \in Commands, i \in Inputs : \E m \in Modes[c] : Start(c, m, i)
           \/ \E p \in Parts, i \in OpIdx : ClearCheckpoint(p, i)
           \/ /\ UNCHANGED <<ckpt, threads, cmd>>
              /\ phase' # "process" \/ UNCHANGED <<phase, resuming, num, parts>>
           \/ /\ ResumeSplit \/ FreshSplit \/ WriteInfo
              /\ phase \in {"split", "recording"} /\ phase' = "process" /\ StartThreads(num')
              /\ UNCHANGED <<ckpt, cmd>>
<1> USE DEF disk, setup
<1>1. CASE UNCHANGED vars
  BY <1>1 DEF vars, threads
<1>2. CASE \/ AlreadyComplete \/ RefuseResume \/ Enter \/ FixCount \/ RefuseNoInfo
           \/ RunUnpartitioned \/ RefuseSplit \/ FailSplit \/ ClearInfo \/ Cleared \/ OpenInfo
           \/ FailJob \/ Merge \/ FailMerge \/ Export \/ Complete
  BY <1>2 DEF AlreadyComplete, RefuseResume, Enter, FixCount, RefuseNoInfo, StopAs,
     RunUnpartitioned, RefuseSplit, FailSplit, ClearInfo, Cleared, OpenInfo, FailJob, Merge,
     FailMerge, Export, Complete
<1>3. CASE ResumeSplit \/ FreshSplit \/ WriteInfo
  BY <1>3 DEF ResumeSplit, FreshSplit, WriteInfo
<1>4. CASE Crash
  BY <1>4, CrashIntact DEF Crash
<1> QED
  BY <1>1, <1>2, <1>3, <1>4 DEF Next, Driver, ThreadsMove

LEMMA ThreadInit == Init => ThreadInv
<1> SUFFICES ASSUME Init PROVE ThreadInv
  OBVIOUS
<1>1. \A p \in Parts : Thread(p)
  BY FilesAssumption DEF Init, Thread
<1> QED
  BY <1>1 DEF ThreadInv, Lockstep, Init

LEMMA ThreadNext ==
    ASSUME TInv, TInv', ThreadInv, Intact, [Next]_vars
    PROVE  ThreadInv'
<1>1. CASE ThreadsMove
  BY <1>1, ThreadStep DEF ThreadsMove
<1>2. ASSUME NEW c \in Commands, NEW i \in Inputs, NEW m \in Modes[c], Start(c, m, i)
      PROVE  ThreadInv'
  <2>1. \A p \in Parts : Thread(p)'
    BY <1>2 DEF Start, disk, ThreadInv, Thread
  <2> QED
    BY <1>2, <2>1 DEF Start, ThreadInv, Lockstep
<1>3. ASSUME NEW p \in Parts, NEW i \in OpIdx, ClearCheckpoint(p, i)
      PROVE  ThreadInv'
  <2>1. /\ phase = "clear" /\ phase' = "clear" /\ UNCHANGED <<threads, cmd>>
        /\ ckpt' = [ckpt EXCEPT ![p][i] = None]
    BY <1>3 DEF ClearCheckpoint, setup
  <2>2. \A q \in Parts : status[q] = "idle"
    BY <2>1 DEF TInv, Shape, Before
  <2>3. \A q \in Parts, j \in OpIdx : ckpt'[q][j] # Corrupt
    BY <2>1, FilesAssumption DEF ThreadInv, Thread, TInv, TypeOK, DiskType
  <2>4. \A q \in Parts : Thread(q)'
    BY <2>1, <2>2, <2>3 DEF ThreadInv, Thread, threads
  <2> QED
    BY <2>1, <2>4 DEF ThreadInv, Lockstep
<1>4. ASSUME UNCHANGED <<ckpt, threads, cmd>>,
             phase' # "process" \/ UNCHANGED <<phase, resuming, num, parts>>
      PROVE  ThreadInv'
  <2>1. \A p \in Parts : Thread(p)'
    BY <1>4 DEF ThreadInv, Thread, threads, Last, PreLen
  <2>2. Lockstep'
    BY <1>4 DEF ThreadInv, Lockstep, threads, Grouped, Group
  <2> QED
    BY <2>1, <2>2 DEF ThreadInv
<1>5. ASSUME phase \in {"split", "recording"}, phase' = "process", StartThreads(num'),
             UNCHANGED <<ckpt, cmd>>
      PROVE  ThreadInv'
  <2>1. \A p \in Parts : status[p] = "idle"
    BY <1>5 DEF TInv, Shape, Before
  <2>2. /\ \A p \in Parts : status'[p] \in {"idle", "queued"}
        /\ UNCHANGED <<pos, latest, ran>>
    BY <1>5 DEF StartThreads
  <2>3. \A p \in Parts : Thread(p)'
    BY <1>5, <2>1, <2>2 DEF ThreadInv, Thread
  <2>4. \A p \in Parts : latest'[p] = -1 /\ pos'[p] = 0
    BY <2>1, <2>2 DEF ThreadInv, Thread
  <2>5. Lockstep'
    BY <2>4 DEF Lockstep, Group
  <2> QED
    BY <2>3, <2>5 DEF ThreadInv
<1> QED
  BY <1>1, <1>2, <1>3, <1>4, <1>5, OtherSteps

LEMMA ThreadAlways == Intact => (Spec => [](TInv /\ ThreadInv))
<1> SUFFICES ASSUME Intact PROVE Spec => [](TInv /\ ThreadInv)
  OBVIOUS
<1>1. Init => TInv /\ ThreadInv
  BY TInvInit, ThreadInit
<1>2. TInv /\ ThreadInv /\ [Next]_vars => (TInv /\ ThreadInv)'
  BY TInvNext, ThreadNext
<1> QED
  BY <1>1, <1>2, PTL DEF Spec

(* A partition thread runs the operators after its latest checkpoint, each *)
(* once, and no others, as long as checkpoints can be loaded: one that     *)
(* cannot sends the thread back to its original partition.                 *)
THEOREM FinishedWorkSkipped ==
    Faults \cap {"torn", "load"} = {} => (Spec => []OnlyUnfinishedWork)
<1> SUFFICES ASSUME Intact PROVE Spec => []OnlyUnfinishedWork
  BY DEF Intact
<1>1. TInv /\ ThreadInv => OnlyUnfinishedWork
  BY DEF ThreadInv, Thread, OnlyUnfinishedWork
<1> QED
  BY <1>1, ThreadAlways, PTL

-----------------------------------------------------------------------------
(* Recipes.  Two ways to use a job under which its checkpoints stay those  *)
(* of one recipe.  Strict: the job is created once and resumed with        *)
(* --resume alone, from one recipe file.                                   *)
(* OneRecipe: whatever runs come, every one has the same operators.        *)

Strict ==
    /\ \A c \in Commands : Modes[c] \subseteq {"new", "resume"}
    /\ \A c, d \in Commands :
          c.name = d.name /\ (c.text = d.text => Plan[c] = Plan[d])

OneRecipe ==
    /\ \A c, d \in Commands : Plan[c] = Plan[d]
    /\ ~Gpu /\ "clear" \notin Faults

(* The run has logged its start and not ended.                             *)
Entered == Active \ {"init"}

Bare == \A p \in Parts : \A i \in OpIdx : ckpt[p][i] = None

(* Where a step may lead but for a run that starts or logs its start.      *)
LEMMA Flow ==
    ASSUME TInv, [Next]_vars
    PROVE  \/ Enter \/ \E c \in Commands, i \in Inputs : \E m \in Modes[c] : Start(c, m, i)
           \/ /\ UNCHANGED <<workdir, setup, resuming, origin>>
              /\ events' = events \/ (phase = "exported" /\ events' # None)
              /\ \/ phase' = phase /\ (phase \in Before \cup {"idle"} => phase = "clear" \/ UNCHANGED disk)
                 \/ phase # "idle" /\ phase' \in Ended \ {"idle"}
                        /\ (phase = "clear" => "clear" \in Faults)
                 \/ phase = "load" /\ phase' = "split" /\ UNCHANGED disk
                 \/ phase = "split" /\ phase' \in {"export", "process"}
                 \/ phase = "split" /\ phase' = "record" /\ UNCHANGED disk /\ ~Readable(info)
                 \/ phase = "split" /\ phase' = "clear" /\ UNCHANGED disk /\ Readable(info)
                        /\ mode # "resume"
                 \/ phase = "clear" /\ phase' = "record" /\ Bare /\ UNCHANGED disk
                 \/ phase = "record" /\ phase' = "recording" /\ UNCHANGED ckpt
                 \/ phase = "recording" /\ phase' = "process"
                 \/ phase = "process" /\ phase' = "export"
                 \/ phase = "export" /\ phase' = "exported"
<1> USE DEF disk, setup
<1>1. CASE UNCHANGED vars
  BY <1>1 DEF vars, workdir
<1>2. CASE \/ AlreadyComplete \/ RefuseResume \/ FixCount \/ RefuseNoInfo
           \/ RunUnpartitioned \/ RefuseSplit \/ FailSplit \/ FailJob \/ FailMerge
  BY <1>2 DEF AlreadyComplete, RefuseResume, FixCount, RefuseNoInfo, StopAs,
     RunUnpartitioned, RefuseSplit, FailSplit, FailJob, FailMerge, Ended
<1>3. CASE ResumeSplit \/ FreshSplit \/ WriteInfo
  BY <1>3 DEF ResumeSplit, FreshSplit, WriteInfo
<1>4. CASE ClearInfo \/ Cleared \/ OpenInfo \/ \E p \in Parts, i \in OpIdx : ClearCheckpoint(p, i)
  BY <1>4 DEF ClearInfo, Cleared, OpenInfo, ClearCheckpoint, Empty, Bare, StopAs
<1>5. CASE Merge \/ Export
  BY <1>5 DEF Merge, Export
<1>6. CASE Complete \/ Crash
  <2>1. "complete" # None
    BY FilesAssumption
  <2> QED
    BY <1>6, <2>1 DEF Complete, Crash, Ended, Active
<1>7. CASE CancelQueued \/ (\E g \in Parts : GroupStep(g)) \/ (\E p \in Parts : PartitionStep(p))
  <2>1. phase = "process" /\ JobUnchanged
    BY <1>7 DEF CancelQueued, GroupStep, BeginExecutionGroup, RunExecutionGroup,
       FinishExecutionGroup, FailExecutionGroup, PartitionStep, Begin, SkipGroup, RunGroup,
       ResumeGroup, RestartGroup, FinishSave, FinishPartition, FailPartition, InGroup, AtGroup,
       Writing
  <2> QED
    BY <2>1 DEF JobUnchanged, Before
<1> QED
  BY <1>1, <1>2, <1>3, <1>4, <1>5, <1>6, <1>7 DEF Next, Driver

(* What a strict job keeps of its recipe.                                  *)
RecipeInv ==
    /\ mode \in {"new", "resume", None}
    /\ phase = "idle" => runs = 0
    /\ runs = 0 => /\ phase = "idle" /\ events = None /\ origin = None
                   /\ info = None /\ Bare /\ \A f \in Names : backup[f] = None
    /\ mode = "new" => runs = 1
    /\ mode = "new" /\ phase = "init" => backup[cmd.name] = cmd.text
    /\ events = None <=> origin = None
    /\ \A f \in Names : backup[f] # None => \A c \in Commands : c.name = f
    /\ origin # None => backup[origin.name] = origin.text
    /\ phase = "init" /\ same /\ origin # None => cmd.text = origin.text
    /\ resuming => origin # None /\ cmd.text = origin.text
    /\ runs # 0 => savedCli = cmd.cli
    /\ phase = "init" /\ same /\ origin # None => cmd.cli \in tried
    /\ resuming => cmd.cli \in tried
    /\ phase \in Entered =>
          origin # None /\ cmd.text = origin.text /\ (mode = "new" <=> ~resuming)
    /\ phase \in Before /\ mode = "new" => Bare /\ (phase = "recording" \/ info = None)
    /\ phase # "clear"

LEMMA RecipeInit == Init => RecipeInv
<1>1. "idle" \notin Entered \cup Before /\ "idle" # "clear" /\ "idle" # "init"
  BY DEF Entered, Active, Before
<1> QED
  BY <1>1, FilesAssumption DEF Init, RecipeInv, Bare, AllModes

LEMMA RecipeStart ==
    ASSUME TInv, RecipeInv, Strict, NEW c \in Commands, NEW i \in Inputs, NEW m \in Modes[c],
           Start(c, m, i)
    PROVE  RecipeInv'
<1>1. /\ m \in {"new", "resume"} /\ runs \in Nat /\ (m = "new" => runs = 0)
      /\ runs' = runs + 1 /\ mode' = m /\ cmd' = c /\ phase' = "init" /\ resuming' = FALSE
      /\ UNCHANGED <<info, ckpt, events, origin>>
  BY IndexTypes DEF Strict, Start, disk, TInv, TypeOK, RunType
<1>2. /\ c.name \in Names /\ c.text \in STRING /\ c.text # None
      /\ backup \in [Names -> STRING \cup {None}]
      /\ origin # None => origin \in Commands /\ origin.name = c.name /\ origin.text # None
  BY CommandsAssumption, FilesAssumption DEF TInv, TypeOK, DiskType, Strict
<1>3. \A f \in Names : backup'[f] # None => \A d \in Commands : d.name = f
  BY <1>2 DEF Start, BackedUp, RecipeInv, Strict
<1>4. origin # None => backup'[origin.name] = origin.text
  BY <1>2 DEF Start, BackedUp, RecipeInv
<1>5. same' /\ origin # None => c.text = origin.text
  BY <1>1, <1>2 DEF Start, SameConfig, RecipeInv
<1>6. "init" \notin Entered /\ "init" # "idle" /\ "init" # "clear"
  BY DEF Entered, Active
<1>7. m = "new" => backup'[c.name] = c.text
  BY <1>1, <1>2 DEF Start, BackedUp, RecipeInv
<1>8. runs' # 0 /\ (m = "new" => runs' = 1 /\ info = None /\ Bare) /\ Bare' = Bare
  BY <1>1 DEF RecipeInv, Bare
<1>9. savedCli' = c.cli /\ (same' /\ origin # None => c.cli \in tried')
  BY <1>1 DEF Start, SameConfig, RecipeInv
<1> QED
  BY <1>1, <1>3, <1>4, <1>5, <1>6, <1>7, <1>8, <1>9 DEF RecipeInv

LEMMA RecipeEnter ==
    ASSUME TInv, RecipeInv, Strict, Enter
    PROVE  RecipeInv'
<1>1. /\ phase = "init" /\ phase' = "load" /\ cmd \in Commands /\ mode \in {"new", "resume"}
      /\ runs # 0 /\ cmd # None /\ "load" \in Entered
      /\ events' = "incomplete" /\ "incomplete" # None
      /\ UNCHANGED <<info, ckpt, backup, savedCli, mode, cmd, same, runs, tried>>
  BY FilesAssumption DEF Enter, disk, workdir, setup, TInv, Shape, RecipeInv, Entered, Active
<1>2. Bare' = Bare
  BY <1>1 DEF Bare
<1>3. CASE mode = "new"
  <2>1. resuming' = FALSE /\ origin' = cmd
    BY <1>3 DEF Enter
  <2>2. runs = 1 /\ backup[cmd.name] = cmd.text
    BY <1>1, <1>3 DEF RecipeInv
  <2> QED
    BY <1>1, <1>2, <1>3, <2>1, <2>2 DEF RecipeInv, Before
<1>4. CASE mode = "resume"
  <2>1. resuming' = TRUE /\ origin' = origin /\ events # None /\ same
    BY <1>4 DEF Enter, ResumeResult
  <2> QED
    BY <1>1, <1>2, <1>4, <2>1 DEF RecipeInv, Before
<1> QED
  BY <1>1, <1>3, <1>4

LEMMA RecipeNext ==
    ASSUME TInv, RecipeInv, Strict, [Next]_vars
    PROVE  RecipeInv'
<1>1. CASE Enter \/ \E c \in Commands, i \in Inputs : \E m \in Modes[c] : Start(c, m, i)
  BY <1>1, RecipeStart, RecipeEnter
<1>2. CASE /\ UNCHANGED <<workdir, setup, resuming, origin>>
           /\ events' = events \/ (phase = "exported" /\ events' # None)
           /\ \/ phase' = phase /\ (phase \in Before \cup {"idle"} => phase = "clear" \/ UNCHANGED disk)
              \/ phase # "idle" /\ phase' \in Ended \ {"idle"}
                     /\ (phase = "clear" => "clear" \in Faults)
              \/ phase = "load" /\ phase' = "split" /\ UNCHANGED disk
              \/ phase = "split" /\ phase' \in {"export", "process"}
              \/ phase = "split" /\ phase' = "record" /\ UNCHANGED disk /\ ~Readable(info)
              \/ phase = "split" /\ phase' = "clear" /\ UNCHANGED disk /\ Readable(info)
                     /\ mode # "resume"
              \/ phase = "clear" /\ phase' = "record" /\ Bare /\ UNCHANGED disk
              \/ phase = "record" /\ phase' = "recording" /\ UNCHANGED ckpt
              \/ phase = "recording" /\ phase' = "process"
              \/ phase = "process" /\ phase' = "export"
              \/ phase = "export" /\ phase' = "exported"
  <2> USE <1>2 DEF disk, setup, workdir
  <2>1. /\ UNCHANGED <<backup, savedCli, mode, cmd, same, runs, tried, resuming, origin>>
        /\ (events' = None) <=> (events = None)
    <3>1. "exported" \in Entered
      BY DEF Entered, Active
    <3> QED
      BY <3>1 DEF RecipeInv
  <2>2. ckpt' = ckpt => Bare' = Bare
    BY DEF Bare
  <2>3. phase' # "init" \/ phase' = phase
    BY DEF Ended
  <2>4. phase' # "clear"
    <3>1. ~(phase = "split" /\ Readable(info) /\ mode # "resume")
      <4>1. phase = "split" => mode \in AllModes
        BY DEF TInv, Shape
      <4>2. mode \in {"new", "resume", None} /\ None \notin AllModes
        BY FilesAssumption DEF RecipeInv
      <4>3. phase = "split" /\ mode = "new" => info = None
        BY DEF RecipeInv, Before
      <4> QED
        BY <4>1, <4>2, <4>3 DEF Readable
    <3> QED
      BY <3>1 DEF RecipeInv, Ended
  <2>5. phase' \in Entered => phase \in Entered
    BY DEF Entered, Active, Ended
  <2>6. phase' \in Before /\ mode = "new" =>
          Bare' /\ (phase' = "recording" \/ info' = None)
    BY <2>2, <2>4 DEF RecipeInv, Before, Ended
  <2>7. phase # "idle" => phase' # "idle"
    BY DEF Ended
  <2>8. runs = 0 => phase' = "idle" /\ info' = None /\ Bare'
    <3> SUFFICES ASSUME runs = 0 PROVE phase' = "idle" /\ info' = None /\ Bare'
      OBVIOUS
    <3>1. phase = "idle" /\ info = None /\ Bare
      BY DEF RecipeInv
    <3>2. phase' = "idle"
      BY <3>1
    <3>3. UNCHANGED disk
      BY <3>1, <3>2
    <3> QED
      BY <2>2, <3>1, <3>2, <3>3
  <2> QED
    BY <2>1, <2>3, <2>4, <2>5, <2>6, <2>7, <2>8 DEF RecipeInv
<1> QED
  BY <1>1, <1>2, Flow

LEMMA RecipeAlways == Strict => (Spec => [](TInv /\ RecipeInv))
<1> SUFFICES ASSUME Strict PROVE Spec => [](TInv /\ RecipeInv)
  OBVIOUS
<1>1. Init => TInv /\ RecipeInv
  BY TInvInit, RecipeInit
<1>2. TInv /\ RecipeInv /\ [Next]_vars => (TInv /\ RecipeInv)'
  BY TInvNext, RecipeNext
<1> QED
  BY <1>1, <1>2, PTL DEF Spec

(* A run that resumes has the recipe of the run that created the job and   *)
(* CLI overrides that an earlier run of the job had, when every run of the *)
(* job names the same recipe file and all but the first say --resume.  The *)
(* overrides may differ from run to run: every attempt, a refused one too, *)
(* replaces cli.yaml, so they need not be those of the creating run.       *)
THEOREM ResumesItsRecipe == Strict => (Spec => []ResumeSameRecipe)
<1> SUFFICES ASSUME Strict PROVE Spec => []ResumeSameRecipe
  OBVIOUS
<1>1. RecipeInv => ResumeSameRecipe
  BY DEF RecipeInv, ResumeSameRecipe
<1> QED
  BY <1>1, RecipeAlways, PTL

(* What either way of using the job gives the checkpoints: the recipe of   *)
(* the run is that of the run that created the job; an execution group     *)
(* starts from an empty directory; a run that creates the job anew finds   *)
(* an empty one or the same recipe; and no kill interrupts its clearing.   *)
Kept ==
    /\ phase \in Entered => origin \in Commands /\ Plan[cmd] = Plan[origin]
    /\ phase \in Before \ {"init"} /\ Grouped => Bare
    /\ phase = "init" /\ mode # "resume" /\ origin # None =>
          Bare \/ Plan[cmd] = Plan[origin]
    /\ phase = "clear" => "clear" \notin Faults

LEMMA StrictKept == TInv /\ RecipeInv /\ Strict => Kept
<1> SUFFICES ASSUME TInv, RecipeInv, Strict PROVE Kept
  OBVIOUS
<1>1. phase \in Entered => origin \in Commands /\ Plan[cmd] = Plan[origin]
  <2> SUFFICES ASSUME phase \in Entered PROVE origin \in Commands /\ Plan[cmd] = Plan[origin]
    OBVIOUS
  <2>1. origin \in Commands /\ cmd.text = origin.text
    BY DEF RecipeInv, TInv, TypeOK, DiskType
  <2>2. cmd \in Commands
    BY DEF Entered, Active, TInv, Shape
  <2> QED
    BY <2>1, <2>2 DEF Strict
<1>2. phase \in Before \ {"init"} /\ Grouped => Bare
  BY DEF RecipeInv, Grouped, Before, Entered, Active
<1>3. phase = "init" /\ mode # "resume" => Bare
  <2>1. phase = "init" => mode \in AllModes
    BY DEF TInv, Shape
  <2> QED
    BY <2>1, FilesAssumption DEF RecipeInv, Before
<1> QED
  BY <1>1, <1>2, <1>3 DEF Kept, RecipeInv

(* When every run has the same operators nothing else is asked of them.    *)
OneInv ==
    /\ events # None => origin # None
    /\ phase \in Entered => origin # None

LEMMA OneAlways == Spec => [](TInv /\ OneInv)
<1>1. Init => TInv /\ OneInv
  <2>1. "idle" \notin Entered
    BY DEF Entered, Active
  <2> QED
    BY <2>1, TInvInit DEF Init, OneInv
<1>2. ASSUME TInv, OneInv, [Next]_vars PROVE OneInv'
  <2> USE <1>2
  <2>1. CASE Enter
    <3>1. cmd # None
      BY <2>1, FilesAssumption DEF Enter, TInv, Shape
    <3> QED
      BY <2>1, <3>1 DEF Enter, ResumeResult, OneInv
  <2>2. ASSUME NEW c \in Commands, NEW i \in Inputs, NEW m \in Modes[c], Start(c, m, i)
        PROVE  OneInv'
    <3>1. "init" \notin Entered
      BY DEF Entered
    <3> QED
      BY <2>2, <3>1 DEF Start, OneInv
  <2>3. "exported" \in Entered
    BY DEF Entered, Active
  <2>4. ASSUME origin' = origin, events' = events \/ phase = "exported",
               phase' \in Entered => phase \in Entered
        PROVE  OneInv'
    BY <2>3, <2>4 DEF OneInv
  <2>5. \/ Enter \/ \E c \in Commands, i \in Inputs : \E m \in Modes[c] : Start(c, m, i)
        \/ /\ origin' = origin /\ (events' = events \/ phase = "exported")
           /\ phase' \in Entered => phase \in Entered
    BY Flow DEF Entered, Active, Ended
  <2> QED
    BY <2>1, <2>2, <2>4, <2>5
<1>3. TInv /\ OneInv /\ [Next]_vars => (TInv /\ OneInv)'
  BY <1>2, TInvNext
<1> QED
  BY <1>1, <1>3, PTL DEF Spec

LEMMA OneKept == TInv /\ OneInv /\ OneRecipe => Kept
<1> SUFFICES ASSUME TInv, OneInv, OneRecipe PROVE Kept
  OBVIOUS
<1>1. origin # None => origin \in Commands
  BY DEF TInv, TypeOK, DiskType
<1>2. phase \in Entered \cup {"init"} => cmd \in Commands
  BY DEF Entered, Active, TInv, Shape
<1> QED
  BY <1>1, <1>2 DEF Kept, OneInv, OneRecipe, Grouped

LEMMA KeptAlways == Strict \/ OneRecipe => (Spec => [](TInv /\ Kept))
<1>1. CASE Strict
  <2>1. TInv /\ RecipeInv => Kept
    BY <1>1, StrictKept
  <2> QED
    BY <1>1, <2>1, RecipeAlways, PTL
<1>2. CASE OneRecipe
  <2>1. TInv /\ OneInv => Kept
    BY <1>2, OneKept
  <2> QED
    BY <2>1, OneAlways, PTL
<1> QED
  BY <1>1, <1>2

-----------------------------------------------------------------------------
(* Datasets, operator by operator.                                         *)

LEMMA AppliedLen ==
    ASSUME NEW rows \in Seq(Rows), NEW s
    PROVE  Len(Applied(rows, s)) = Len(rows)
<1>1. Len(rows) \in Nat
  BY LenProperties
<1> QED
  BY <1>1 DEF Applied

(* The operators t after the operators s are the operators s and then t.   *)
LEMMA ProcessApplied ==
    ASSUME NEW rows \in Seq(Rows), NEW s \in Seq(Ops), NEW t \in Seq(Ops)
    PROVE  Process(Applied(rows, s), t) = Applied(rows, s \o t)
<1> DEFINE d == Applied(rows, s)
<1>1. Len(d) = Len(rows)
  BY AppliedLen
<1>2. \A k \in 1..Len(rows) : d[k].row = rows[k] /\ d[k].ops = s
  BY DEF Applied
<1> HIDE DEF d
<1>3. Process(d, t) = [k \in 1..Len(rows) |-> [row |-> rows[k], ops |-> s \o t]]
  BY <1>1, <1>2 DEF Process
<1> QED
  BY <1>3 DEF Applied, d

LEMMA SliceJoin ==
    ASSUME cmd \in Commands, NEW j \in 0..Len(Plan[cmd]), NEW i \in 0..j
    PROVE  /\ Slice(0, i) \in Seq(Ops) /\ Slice(i, j) \in Seq(Ops)
           /\ Slice(0, i) \o Slice(i, j) = Slice(0, j)
           /\ Slice(0, 0) = << >> /\ Slice(0, Len(Plan[cmd])) = Plan[cmd]
<1>1. Plan[cmd] \in Seq(Ops) /\ Len(Plan[cmd]) \in Nat
  BY PlanType
<1>2. Slice(0, i) \in Seq(Ops) /\ Slice(i, j) \in Seq(Ops)
  BY <1>1, SliceType DEF Slice
<1>3. SubSeq(Plan[cmd], 1, i) \o SubSeq(Plan[cmd], i + 1, j) = SubSeq(Plan[cmd], 1, j)
  <2>1. 1 \in 1..(Len(Plan[cmd]) + 1) /\ i \in (1 - 1)..Len(Plan[cmd]) /\ j \in i..Len(Plan[cmd])
    BY <1>1
  <2> QED
    BY <1>1, <2>1, ConcatAdjacentSubSeq
<1>4. Slice(0, i) \o Slice(i, j) = Slice(0, j)
  BY <1>3 DEF Slice
<1>5. Slice(0, 0) = << >>
  BY <1>1, SubSeqEmpty DEF Slice
<1>6. Slice(0, Len(Plan[cmd])) = Plan[cmd]
  BY <1>1, SubSeqFull DEF Slice
<1> QED
  BY <1>2, <1>4, <1>5, <1>6

-----------------------------------------------------------------------------
(* Checkpoints: each is what its name and partitioning_info.json say.  The *)
(* thread that is to write one has the partition after the operators so    *)
(* far, and finds no checkpoint at that name.                              *)

CheckpointInv ==
    \A p \in Parts, i \in OpIdx : ckpt[p][i] # None =>
        /\ CheckpointEnabled /\ origin # None /\ i < PreLen(origin)
        /\ phase \notin {"record", "recording"}
        /\ phase # "clear" =>
              /\ Readable(info) /\ p < info.n
              /\ ckpt[p][i] = Applied(Balanced(info.rows, info.n)[p],
                                      SubSeq(Plan[origin], 1, i + 1))

Work(p) ==
    /\ status[p] \in {"running", "saving"} =>
          /\ pos[p] <= Last
          /\ \A i \in OpIdx : i >= pos[p] /\ ckpt[p][i] # None => i <= latest[p]
    /\ status[p] = "saving" => ckpt[p][pos[p] - 1] = None /\ ShouldCheckpoint(pos[p] - 1)
    /\ status[p] \in {"running", "saving", "done"} =>
          /\ latest[p] < Last
          /\ data[p] = Applied(parts[p], IF latest[p] < pos[p] THEN Slice(0, pos[p])
                                         ELSE << >>)
    /\ status[p] = "queued" /\ Grouped => \A i \in OpIdx : ckpt[p][i] = None

WorkInv == phase = "process" => \A p \in Parts : Work(p)

(* The checkpoints of a run whose threads run are those of its partitions. *)
LEMMA OwnCheckpoints ==
    ASSUME TInv, SetupInv, Kept, CheckpointInv, phase = "process", NEW p \in Parts
    PROVE  /\ cmd \in Commands /\ PreLen(origin) = Last /\ Last \in 0..Len(Plan[cmd])
           /\ origin # None /\ Plan[origin] = Plan[cmd]
           /\ \A i \in OpIdx : ckpt[p][i] # None =>
                 CheckpointEnabled /\ i < Last /\ ckpt[p][i] = Applied(parts[p], Slice(0, i + 1))
<1>1. /\ cmd \in Commands /\ origin \in Commands /\ Plan[cmd] = Plan[origin]
      /\ parts = Balanced(inp, num) /\ Readable(info) /\ info.n = num
      /\ CheckpointEnabled => info.rows = inp
  BY DEF TInv, Shape, SetupInv, Kept, Cut, Entered, Active
<1>2. PreLen(origin) = Last
  BY <1>1 DEF Last, PreLen
<1>3. Last \in 0..Len(Plan[cmd])
  BY <1>1, LastType
<1>4. origin # None
  BY <1>1, FilesAssumption
<1>5. ASSUME NEW i \in OpIdx, ckpt[p][i] # None
      PROVE  CheckpointEnabled /\ i < Last /\ ckpt[p][i] = Applied(parts[p], Slice(0, i + 1))
  <2>1. /\ CheckpointEnabled /\ i < PreLen(origin)
        /\ ckpt[p][i] = Applied(Balanced(info.rows, info.n)[p], SubSeq(Plan[origin], 1, i + 1))
    BY <1>5 DEF CheckpointInv
  <2>2. Slice(0, i + 1) = SubSeq(Plan[cmd], 1, i + 1)
    BY DEF Slice
  <2> QED
    BY <1>1, <1>2, <2>1, <2>2
<1> QED
  BY <1>1, <1>2, <1>3, <1>4, <1>5

LEMMA WorkMoves ==
    ASSUME TInv, TInv', SetupInv, ThreadInv, Kept, CheckpointInv,
           phase = "process", JobUnchanged, NEW p \in Parts, Work(p), Moves(p)
    PROVE  /\ Work(p)'
           /\ \A i \in OpIdx : ckpt'[p][i] # None =>
                 CheckpointEnabled /\ i < Last /\ ckpt'[p][i] = Applied(parts[p], Slice(0, i + 1))
<1> DEFINE Right(c) == \A i \in OpIdx : c[i] # None =>
                         CheckpointEnabled /\ i < Last /\ c[i] = Applied(parts[p], Slice(0, i + 1))
<1>1. /\ pos[p] \in 0..MaxOps /\ pos'[p] \in 0..MaxOps /\ MaxOps \in Nat
      /\ latest[p] \in -1..(MaxOps - 1) /\ latest'[p] \in -1..(MaxOps - 1)
      /\ data[p] \in Dataset
      /\ ckpt[p] \in [OpIdx -> {None, Corrupt} \cup Dataset]
      /\ OpIdx = 0..(MaxOps - 1)
  BY IndexTypes DEF TInv, TypeOK, ThreadType, DiskType, OpIdx
<1>2. /\ cmd \in Commands /\ Last \in 0..Len(Plan[cmd]) /\ Len(Plan[cmd]) \in 0..MaxOps
      /\ Right(ckpt[p]) /\ Thread(p)
  BY OwnCheckpoints, PlanType DEF ThreadInv
<1>3. /\ Last' = Last /\ parts' = parts /\ Grouped' = Grouped
      /\ \A i, j : Slice(i, j)' = Slice(i, j)
      /\ \A i : ShouldCheckpoint(i)' = ShouldCheckpoint(i)
  BY DEF JobUnchanged, setup, Last, PreLen, Grouped, Slice, ShouldCheckpoint
<1>4. CASE Stays(p)
  BY <1>2, <1>3, <1>4 DEF Stays, Work
<1>5. CASE Begins(p)
  <2>1. /\ pos'[p] = 0 /\ status'[p] = "running" /\ ckpt'[p] = ckpt[p]
        /\ data'[p] = Applied(parts[p], << >>)
    BY <1>2, <1>5 DEF Begins, Thread
  <2>2. /\ \A i \in OpIdx : ckpt[p][i] # None => i <= latest'[p]
        /\ latest'[p] = -1 \/ (latest'[p] \in OpIdx /\ ckpt[p][latest'[p]] # None)
    <3>1. CASE Grouped
      BY <1>2, <1>5, <3>1 DEF Begins, Work, Thread
    <3>2. CASE ~Grouped
      BY <1>1, <1>2, <1>5, <3>2 DEF Begins, IsLatest
    <3> QED
      BY <3>1, <3>2
  <2>3. latest'[p] < Last
    BY <1>1, <1>2, <2>2
  <2>4. 0 <= Last /\ Slice(0, 0) = << >>
    BY <1>1, <1>2, SliceJoin, SMTT(30)
  <2>5. data'[p] = Applied(parts[p], IF latest'[p] < pos'[p] THEN Slice(0, pos'[p]) ELSE << >>)
    BY <2>1, <2>4
  <2> QED
    BY <1>2, <1>3, <2>1, <2>2, <2>3, <2>4, <2>5 DEF Work
<1>6. CASE Stores(p)
  <2>1. /\ status[p] = "saving" /\ status'[p] = "running"
        /\ pos'[p] = pos[p] /\ latest'[p] = latest[p] /\ data'[p] = data[p]
        /\ ckpt'[p] = [ckpt[p] EXCEPT ![pos[p] - 1] = Saved(@, data[p])]
    BY <1>6 DEF Stores
  <2>2. /\ pos[p] <= Last /\ latest[p] < pos[p] - 1
        /\ ckpt[p][pos[p] - 1] = None /\ ShouldCheckpoint(pos[p] - 1)
        /\ data[p] = Applied(parts[p], IF latest[p] < pos[p] THEN Slice(0, pos[p]) ELSE << >>)
        /\ latest[p] < Last
        /\ \A i \in OpIdx : i >= pos[p] /\ ckpt[p][i] # None => i <= latest[p]
    BY <1>2, <2>1 DEF Work, Thread
  <2>3. pos[p] >= 1 /\ pos[p] - 1 \in OpIdx /\ latest[p] < pos[p]
    BY <1>1, <2>1, <2>2 DEF TInv, Shape
  <2>4. /\ ckpt'[p][pos[p] - 1] = data[p]
        /\ \A i \in OpIdx : i # pos[p] - 1 => ckpt'[p][i] = ckpt[p][i]
    BY <1>1, <2>1, <2>2, <2>3 DEF Saved
  <2>5. CheckpointEnabled
    <3>1. cmd \in Commands /\ Strategy[cmd] # "disabled"
      BY <1>2, <2>2 DEF ShouldCheckpoint
    <3> QED
      BY <3>1, KindsAssumption DEF CheckpointEnabled
  <2>6. data[p] = Applied(parts[p], Slice(0, pos[p] - 1 + 1)) /\ pos[p] - 1 < Last
    BY <1>1, <1>2, <2>2, <2>3
  <2>7. Right(ckpt'[p])
    BY <1>2, <2>3, <2>4, <2>5, <2>6
  <2>8. ASSUME NEW i \in OpIdx, i >= pos[p], ckpt'[p][i] # None PROVE i <= latest[p]
    <3>1. i # pos[p] - 1
      <4>1. i \in Int /\ pos[p] \in Int
        BY <1>1
      <4> QED
        BY <2>8, <4>1
    <3> QED
      BY <2>2, <2>4, <2>8, <3>1
  <2> QED
    BY <1>3, <2>1, <2>2, <2>7, <2>8 DEF Work
<1>7. CASE Ends(p)
  <2>1. status'[p] \in {"done", "failed", "cancelled"} /\ (status'[p] = "done" => status[p] = "running")
    BY <1>7 DEF Ends
  <2> QED
    BY <1>2, <1>3, <1>7, <2>1 DEF Ends, Work
<1>8. ASSUME NEW e \in GroupEnd(pos[p]), Goes(p, e)
      PROVE  Work(p)' /\ Right(ckpt'[p])
  <2>1. e \in (pos[p] + 1)..Last /\ pos[p] \in Nat
    <3>1. pos[p] \in Nat
      BY <1>1
    <3> QED
      BY <1>2, <3>1, GroupEndType
  <2>2. /\ status[p] = "running" /\ pos'[p] = e /\ latest'[p] = latest[p] /\ ckpt'[p] = ckpt[p]
        /\ status'[p] \in {"running", "saving"}
        /\ latest[p] < Last
        /\ data[p] = Applied(parts[p], IF latest[p] < pos[p] THEN Slice(0, pos[p]) ELSE << >>)
        /\ \A i \in OpIdx : i >= pos[p] /\ ckpt[p][i] # None => i <= latest[p]
        /\ latest[p] # -1 => ckpt[p][latest[p]] # None
    BY <1>2, <1>8 DEF Goes, Runs, Work, Thread
  <2>3. parts[p] \in Seq(Rows)
    BY <2>2, ThreadFacts
  <2>4. ASSUME NEW i \in 0..e, Runs(p, Applied(parts[p], Slice(0, i)), i, e)
        PROVE  data'[p] = Applied(parts[p], Slice(0, e))
    <3>1. e \in 0..Len(Plan[cmd])
      BY <1>2, <2>1
    <3>2. /\ Slice(0, i) \in Seq(Ops) /\ Slice(i, e) \in Seq(Ops)
          /\ Slice(0, i) \o Slice(i, e) = Slice(0, e)
      BY <1>2, <3>1, SliceJoin
    <3> QED
      BY <2>3, <2>4, <3>2, ProcessApplied DEF Runs
  <2>5. data'[p] = Applied(parts[p], IF latest[p] < e THEN Slice(0, e) ELSE << >>)
    <3>1. CASE latest[p] < pos[p] /\ Runs(p, data[p], pos[p], e)
      <4>1. Runs(p, Applied(parts[p], Slice(0, pos[p])), pos[p], e) /\ pos[p] \in 0..e /\ latest[p] < e
        BY <1>1, <2>1, <2>2, <3>1
      <4> QED
        BY <2>4, <4>1
    <3>2. CASE latest[p] \in pos[p]..(e - 2) /\ Runs(p, ckpt[p][latest[p]], latest[p] + 1, e)
      <4>1. latest[p] \in OpIdx /\ latest[p] # -1 /\ latest[p] + 1 \in 0..e /\ latest[p] < e
        BY <1>1, <2>1, <3>2, SMTT(30)
      <4>2. ckpt[p][latest[p]] = Applied(parts[p], Slice(0, latest[p] + 1))
        BY <1>2, <2>2, <4>1
      <4> QED
        BY <2>4, <3>2, <4>1, <4>2
    <3>3. CASE latest[p] = e - 1 /\ data'[p] = ckpt[p][latest[p]]
      <4>1. latest[p] \in OpIdx /\ latest[p] # -1 /\ latest[p] + 1 = e /\ latest[p] < e
        BY <1>1, <2>1, <3>3
      <4> QED
        BY <1>2, <2>2, <3>3, <4>1
    <3>4. CASE latest[p] >= e /\ data'[p] = data[p]
      BY <1>1, <2>1, <2>2, <3>4
    <3> QED
      BY <1>8, <3>1, <3>2, <3>3, <3>4 DEF Goes
  <2>6. status'[p] = "saving" =>
          ckpt[p][e - 1] = None /\ ShouldCheckpoint(e - 1)
    <3> SUFFICES ASSUME status'[p] = "saving"
                 PROVE  ckpt[p][e - 1] = None /\ ShouldCheckpoint(e - 1)
      OBVIOUS
    <3>1. ShouldCheckpoint(e - 1) /\ latest[p] < e - 1
      BY <1>1, <1>8, <2>1 DEF Goes, Runs
    <3>2. e - 1 \in OpIdx /\ e - 1 >= pos[p] /\ ~(e - 1 <= latest[p])
      BY <1>1, <1>2, <2>1, <3>1, SMTT(30)
    <3> QED
      BY <2>2, <3>1, <3>2
  <2>7. \A i \in OpIdx : i >= e /\ ckpt[p][i] # None => i <= latest[p]
    BY <1>1, <2>1, <2>2
  <2>8. e <= Last
    BY <2>1
  <2> QED
    BY <1>2, <1>3, <2>2, <2>5, <2>6, <2>7, <2>8 DEF Work
<1> QED
  BY <1>4, <1>5, <1>6, <1>7, <1>8 DEF Moves
OutInv ==
    /\ phase = "export" => merged = [p \in DOMAIN parts |-> Applied(parts[p], Plan[cmd])]
    /\ OutputCorrect

DurableInv == SetupInv /\ ThreadInv /\ CheckpointInv /\ WorkInv /\ OutInv

LEMMA DurableThreads ==
    ASSUME TInv, TInv', DurableInv, Kept, Intact, ThreadsMove
    PROVE  CheckpointInv' /\ WorkInv'
<1> USE DEF DurableInv
<1>1. phase = "process" /\ JobUnchanged /\ phase' = "process"
  BY ThreadMoves, GroupMoves, CancelMoves DEF ThreadsMove, JobUnchanged
<1>2. \A p \in Parts : Moves(p)
  <2>1. ASSUME NEW p \in Parts, PartitionStep(p)
        PROVE  \A q \in Parts : Moves(q)
    BY <2>1, ThreadMoves DEF Moves
  <2> QED
    BY <2>1, GroupMoves, CancelMoves DEF ThreadsMove
<1>3. ASSUME NEW p \in Parts
      PROVE  /\ Work(p)'
             /\ \A i \in OpIdx : ckpt'[p][i] # None =>
                   CheckpointEnabled /\ i < Last /\ ckpt'[p][i] = Applied(parts[p], Slice(0, i + 1))
  BY <1>1, <1>2, WorkMoves DEF WorkInv
<1>4. ASSUME NEW p \in Parts, NEW i \in OpIdx, ckpt'[p][i] # None
      PROVE  p < info.n
  <2>1. CASE ckpt'[p] = ckpt[p]
    BY <1>1, <1>4, <2>1 DEF CheckpointInv
  <2>2. CASE status[p] = "saving"
    BY <1>1, <2>2 DEF TInv, Shape, SetupInv
  <2> QED
    BY <1>2, <2>1, <2>2 DEF Moves, Stays, Begins, Stores, Ends, Goes
<1>5. /\ PreLen(origin) = Last /\ origin # None /\ Plan[origin] = Plan[cmd]
      /\ Readable(info) /\ info.n = num /\ parts = Balanced(inp, num)
      /\ CheckpointEnabled => info.rows = inp
      /\ UNCHANGED <<info, origin>>
  <2>1. 0 \in Parts
    BY IndexTypes DEF Parts
  <2> QED
    BY <1>1, <2>1, OwnCheckpoints DEF SetupInv, Cut, JobUnchanged
<1>6. CheckpointInv'
  <2> SUFFICES ASSUME NEW p \in Parts, NEW i \in OpIdx, ckpt'[p][i] # None
               PROVE  /\ CheckpointEnabled /\ origin # None /\ i < PreLen(origin)
                      /\ Readable(info) /\ p < info.n
                      /\ ckpt'[p][i] = Applied(Balanced(info.rows, info.n)[p],
                                               SubSeq(Plan[origin], 1, i + 1))
    BY <1>1, <1>5 DEF CheckpointInv, Readable, CheckpointEnabled, PreLen
  <2>1. CheckpointEnabled /\ i < Last /\ ckpt'[p][i] = Applied(parts[p], Slice(0, i + 1))
    BY <1>3
  <2>2. Slice(0, i + 1) = SubSeq(Plan[cmd], 1, i + 1)
    BY DEF Slice
  <2> QED
    BY <1>4, <1>5, <2>1, <2>2
<1> QED
  BY <1>3, <1>6 DEF WorkInv

LEMMA DurableInfo ==
    ASSUME TInv, TInv', DurableInv, Kept, Intact, [Next]_vars, ~ThreadsMove
    PROVE  CheckpointInv'
<1> USE DEF DurableInv
<1>1. \A c, d \in Commands : Plan[c] = Plan[d] => PreLen(c) = PreLen(d)
  BY DEF PreLen
<1>2. CASE Bare'
  BY <1>2 DEF Bare, CheckpointInv
<1>3. CASE Enter
  <2>1. /\ phase = "init" /\ phase' = "load" /\ cmd \in Commands /\ UNCHANGED <<info, ckpt>>
        /\ mode \in AllModes
    BY <1>3 DEF Enter, disk, TInv, Shape
  <2>2. CASE origin' = origin
    BY <2>1, <2>2 DEF CheckpointInv, Readable, CheckpointEnabled, PreLen
  <2>3. CASE origin' = cmd /\ mode # "resume" /\ origin = None
    BY <2>1, <2>3 DEF CheckpointInv
  <2>4. CASE origin' = cmd /\ mode # "resume" /\ origin # None /\ Bare
    BY <1>2, <2>1, <2>4 DEF Bare
  <2>5. CASE origin' = cmd /\ mode # "resume" /\ origin # None /\ Plan[cmd] = Plan[origin]
    <3>1. origin \in Commands /\ cmd # None /\ PreLen(cmd) = PreLen(origin)
      BY <1>1, <2>1, <2>5, FilesAssumption DEF TInv, TypeOK, DiskType
    <3> QED
      BY <2>1, <2>5, <3>1 DEF CheckpointInv, Readable, CheckpointEnabled, PreLen
  <2>6. origin' = origin \/ (origin' = cmd /\ mode # "resume")
    BY <1>3 DEF Enter
  <2> QED
    BY <2>1, <2>2, <2>3, <2>4, <2>5, <2>6 DEF Kept
<1>4. ASSUME NEW c \in Commands, NEW i \in Inputs, NEW m \in Modes[c], Start(c, m, i)
      PROVE  CheckpointInv'
  BY <1>4 DEF Start, disk, Ended, CheckpointInv, Readable, CheckpointEnabled, PreLen
<1>5. ASSUME NEW p \in Parts, NEW i \in OpIdx, ClearCheckpoint(p, i)
      PROVE  CheckpointInv'
  <2>1. /\ phase = "clear" /\ phase' = "clear" /\ origin' = origin
        /\ \A q \in Parts, j \in OpIdx : ckpt'[q][j] # None => ckpt[q][j] # None
    BY <1>5 DEF ClearCheckpoint, TInv, TypeOK, DiskType
  <2> QED
    BY <2>1 DEF CheckpointInv, CheckpointEnabled, PreLen
<1>6. CASE UNCHANGED <<info, ckpt, origin>>
  <2>1. Bare \/ (phase' \in {"record", "recording"} => phase' = phase)
    BY <1>6, Flow, <1>3, <1>4 DEF CheckpointInv, Bare, Ended, Enter, Start
  <2>2. Bare \/ phase' = "clear" \/ phase # "clear"
    BY <1>6, Flow, <1>3, <1>4 DEF Kept, Bare, Enter, Start, Ended
  <2>3. Bare' = Bare
    BY <1>6 DEF Bare
  <2>4. CASE ~Bare
    BY <1>6, <2>1, <2>2, <2>4 DEF CheckpointInv, Readable, CheckpointEnabled, PreLen
  <2> QED
    BY <1>2, <2>3, <2>4
<1>7. CASE ClearInfo
  BY <1>7 DEF ClearInfo, CheckpointInv, CheckpointEnabled, PreLen
<1>8. CASE OpenInfo \/ WriteInfo
  <2>1. phase \in {"record", "recording"} /\ ckpt' = ckpt
    BY <1>8 DEF OpenInfo, WriteInfo
  <2>2. Bare'
    BY <2>1 DEF Bare, CheckpointInv
  <2> QED
    BY <1>2, <2>2
<1>9. CASE ResumeSplit \/ FreshSplit
  BY <1>6, <1>9 DEF ResumeSplit, FreshSplit, disk
<1>10. \/ Enter \/ \E c \in Commands, i \in Inputs : \E m \in Modes[c] : Start(c, m, i)
       \/ \E p \in Parts, i \in OpIdx : ClearCheckpoint(p, i)
       \/ UNCHANGED <<info, ckpt, origin>>
       \/ ClearInfo \/ OpenInfo \/ WriteInfo \/ ResumeSplit \/ FreshSplit
  BY Flow, Aside, OtherSteps
<1> QED
  BY <1>3, <1>4, <1>5, <1>6, <1>7, <1>8, <1>9, <1>10

LEMMA DurableStart ==
    ASSUME TInv, TInv', DurableInv, Kept, Intact, [Next]_vars, ~ThreadsMove
    PROVE  WorkInv'
<1> USE DEF DurableInv
<1>1. CASE phase' # "process"
  BY <1>1 DEF WorkInv
<1>2. CASE UNCHANGED <<ckpt, threads, cmd, phase, resuming, num, parts>>
  BY <1>2 DEF WorkInv, Work, threads, Last, PreLen, Slice, ShouldCheckpoint, Grouped
<1>3. CASE /\ ResumeSplit \/ FreshSplit \/ WriteInfo
           /\ phase \in {"split", "recording"} /\ phase' = "process" /\ StartThreads(num')
           /\ UNCHANGED <<ckpt, cmd>>
  <2>1. Grouped' = Grouped
    BY <1>3 DEF ResumeSplit, FreshSplit, WriteInfo, Grouped
  <2>2. Grouped => Bare
    BY <1>3 DEF Kept, Before
  <2>3. \A p \in Parts : status'[p] \in {"idle", "queued"}
    BY <1>3 DEF StartThreads
  <2> QED
    BY <1>3, <2>1, <2>2, <2>3 DEF WorkInv, Work, Bare
<1> QED
  BY <1>1, <1>2, <1>3, OtherSteps DEF Start, ClearCheckpoint
(* The steps that lead to a result, or stay with one.                      *)
LEMMA ResultSteps ==
    ASSUME TInv, [Next]_vars, phase' \in {"export", "exported", "done"}
    PROVE  Merge \/ RunUnpartitioned \/ Export \/ Complete \/ UNCHANGED vars
<1>1. CASE \/ AlreadyComplete \/ RefuseResume \/ Enter \/ FixCount \/ RefuseNoInfo
           \/ RefuseSplit \/ FailSplit \/ Cleared \/ FailJob \/ FailMerge \/ Crash
           \/ ResumeSplit \/ FreshSplit \/ OpenInfo \/ WriteInfo \/ ClearInfo
           \/ \E p \in Parts, i \in OpIdx : ClearCheckpoint(p, i)
  BY <1>1 DEF AlreadyComplete, RefuseResume, Enter, FixCount, RefuseNoInfo, StopAs,
     RefuseSplit, FailSplit, Cleared, FailJob, FailMerge, Crash, ResumeSplit, FreshSplit,
     OpenInfo, WriteInfo, ClearInfo, ClearCheckpoint
<1>2. ~\E c \in Commands, i \in Inputs : \E m \in Modes[c] : Start(c, m, i)
  BY DEF Start
<1>3. CASE CancelQueued \/ (\E g \in Parts : GroupStep(g)) \/ (\E p \in Parts : PartitionStep(p))
  <2>1. phase = "process" /\ JobUnchanged
    BY <1>3 DEF CancelQueued, GroupStep, BeginExecutionGroup, RunExecutionGroup,
       FinishExecutionGroup, FailExecutionGroup, PartitionStep, Begin, SkipGroup, RunGroup,
       ResumeGroup, RestartGroup, FinishSave, FinishPartition, FailPartition, InGroup, AtGroup,
       Writing
  <2> QED
    BY <2>1 DEF JobUnchanged
<1> QED
  BY <1>1, <1>2, <1>3 DEF Next, Driver

LEMMA DurableOut ==
    ASSUME TInv, DurableInv, Kept, [Next]_vars
    PROVE  OutInv'
<1> USE DEF DurableInv
<1> DEFINE right == [p \in DOMAIN parts |-> Applied(parts[p], Plan[cmd])]
<1>1. CASE phase' \notin {"export", "exported", "done"}
  BY <1>1 DEF OutInv, OutputCorrect
<1>2. CASE UNCHANGED vars
  BY <1>2 DEF vars, OutInv, OutputCorrect
<1>3. CASE Merge
  <2>1. /\ phase = "process" /\ phase' = "export" /\ UNCHANGED <<parts, cmd>>
        /\ merged' = [p \in 0..(num - 1) |-> Process(data[p], Rest)]
        /\ \A p \in Parts : p < num => status[p] = "done"
    BY <1>3 DEF Merge, AllDone, setup
  <2>2. /\ num \in 1..MaxPartitions /\ DOMAIN parts = 0..(num - 1) /\ cmd \in Commands
        /\ 0..(num - 1) \subseteq Parts
    BY <2>1, IndexTypes DEF TInv, Shape, Cut, Parts
  <2>3. Last \in 0..Len(Plan[cmd]) /\ Len(Plan[cmd]) \in Nat
    BY <2>2, LastType, PlanType
  <2>4. /\ Slice(0, Last) \in Seq(Ops) /\ Rest \in Seq(Ops)
        /\ Slice(0, Last) \o Rest = Plan[cmd]
    <3>1. Len(Plan[cmd]) \in 0..Len(Plan[cmd]) /\ Last \in 0..Len(Plan[cmd])
      BY <2>3
    <3> QED
      BY <2>2, <3>1, SliceJoin DEF Rest
  <2>5. ASSUME NEW p \in 0..(num - 1)
        PROVE  Process(data[p], Rest) = Applied(parts[p], Plan[cmd])
    <3>1. p \in Parts /\ status[p] = "done"
      BY <2>1, <2>2
    <3>2. pos[p] = Last /\ latest[p] < Last /\ parts[p] \in Seq(Rows)
      BY <2>1, <3>1, ThreadFacts DEF ThreadInv, Thread, WorkInv, Work
    <3>3. data[p] = Applied(parts[p], Slice(0, Last))
      BY <2>1, <3>1, <3>2 DEF WorkInv, Work
    <3> QED
      BY <2>4, <3>2, <3>3, ProcessApplied
  <2>6. merged' = right
    BY <2>1, <2>2, <2>5
  <2> QED
    BY <2>1, <2>6 DEF OutInv, OutputCorrect
<1>4. CASE RunUnpartitioned
  <2>1. /\ phase' = "export" /\ cmd' = cmd /\ parts' = [p \in {0} |-> inp]
        /\ merged' = [p \in {0} |-> Process(Applied(inp, << >>), Plan[cmd])]
        /\ inp \in Seq(Rows) /\ cmd \in Commands
    BY <1>4, InputsAssumption DEF RunUnpartitioned, setup, TInv, Shape
  <2>2. Plan[cmd] \in Seq(Ops) /\ << >> \in Seq(Ops) /\ << >> \o Plan[cmd] = Plan[cmd]
    BY <2>1, PlanType, EmptySeq, ConcatEmptySeq
  <2>3. Process(Applied(inp, << >>), Plan[cmd]) = Applied(inp, Plan[cmd])
    BY <2>1, <2>2, ProcessApplied
  <2> QED
    BY <2>1, <2>3 DEF OutInv, OutputCorrect
<1>5. CASE Export
  <2>1. /\ phase = "export" /\ phase' = "exported" /\ UNCHANGED <<parts, cmd>>
        /\ exported' = Append(exported, merged) /\ merged = right
    BY <1>5 DEF Export, setup, OutInv
  <2>2. exported \in Seq(Outputs) /\ Len(exported) \in Nat
    BY LenProperties DEF TInv, Shape
  <2>3. exported'[Len(exported')] = merged
    BY <2>1, <2>2
  <2> QED
    BY <2>1, <2>3 DEF OutInv, OutputCorrect
<1>6. CASE Complete
  BY <1>6 DEF Complete, setup, OutInv, OutputCorrect
<1> QED
  BY <1>1, <1>2, <1>3, <1>4, <1>5, <1>6, ResultSteps

LEMMA DurableInit == Init => DurableInv
<1> SUFFICES ASSUME Init PROVE DurableInv
  OBVIOUS
<1>1. CheckpointInv /\ WorkInv /\ OutInv
  BY DEF Init, CheckpointInv, WorkInv, OutInv, OutputCorrect
<1> QED
  BY <1>1, SetupInit, ThreadInit DEF DurableInv

LEMMA DurableAlways ==
    Intact /\ (Strict \/ OneRecipe) => (Spec => [](TInv /\ Kept /\ DurableInv))
<1> SUFFICES ASSUME Intact, Strict \/ OneRecipe
             PROVE  Spec => [](TInv /\ Kept /\ DurableInv)
  OBVIOUS
<1>1. TInv /\ Kept /\ DurableInv /\ TInv' /\ [Next]_vars => DurableInv'
  <2> SUFFICES ASSUME TInv, Kept, DurableInv, TInv', [Next]_vars PROVE DurableInv'
    OBVIOUS
  <2>1. SetupInv' /\ ThreadInv'
    BY SetupNext, ThreadNext DEF DurableInv
  <2>2. CheckpointInv' /\ WorkInv'
    BY DurableThreads, DurableInfo, DurableStart
  <2> QED
    BY <2>1, <2>2, DurableOut DEF DurableInv
<1>2. Spec => [](TInv /\ Kept)
  BY KeptAlways
<1>3. Init => DurableInv
  BY DurableInit
<1> QED
  BY <1>1, <1>2, <1>3, PTL DEF Spec

(* Every checkpoint on disk is the state of a partition described by the   *)
(* partitioning_info.json beside it, after a prefix of the recipe of the   *)
(* job, whenever runs are killed or fail, for a job that is strict and for *)
(* one that is run again at will with the same operators.                  *)
THEOREM CheckpointsAlwaysSound ==
    Faults \cap {"torn", "load"} = {} /\ (Strict \/ OneRecipe)
        => (Spec => []CheckpointsSound)
<1> SUFFICES ASSUME Intact, Strict \/ OneRecipe PROVE Spec => []CheckpointsSound
  BY DEF Intact
<1>1. DurableInv => CheckpointsSound
  BY DEF DurableInv, CheckpointInv, CheckpointsSound
<1> QED
  BY <1>1, DurableAlways, PTL

(* What a run of such a job exports is its own input, partition by         *)
(* partition, with each operator of its own recipe applied once and in     *)
(* order, whichever checkpoints it reused.                                 *)
THEOREM ResumedOutputCorrect ==
    Faults \cap {"torn", "load"} = {} /\ (Strict \/ OneRecipe)
        => (Spec => []OutputCorrect)
<1> SUFFICES ASSUME Intact, Strict \/ OneRecipe PROVE Spec => []OutputCorrect
  BY DEF Intact
<1>1. DurableInv => OutputCorrect
  BY DEF DurableInv, OutInv
<1> QED
  BY <1>1, DurableAlways, PTL
-----------------------------------------------------------------------------
(* Refinement: a strict job of recipes that run on partitions, with writes *)
(* that are whole and no kill between the export and its event, is what    *)
(* ResumableJob promises.                                                  *)

Promising ==
    /\ Strict /\ Intact /\ "export" \notin Faults
    /\ \A c \in Commands : PreLen(c) > 0 \/ Plan[c] = << >>

(* Only one run publishes, and what it publishes is the job on record.     *)
PublishInv ==
    /\ exported # << >> => phase = "exported" \/ events = "complete"
    /\ events = "complete" => phase \in Ended \cup {"init"}
    /\ phase = "init" /\ mode = "new" => events = None
    /\ phase = "recording" => info = Corrupt
    /\ phase \in {"process", "export", "exported"} =>
          /\ Readable(info) /\ info.rows = inp /\ info.n = num
          /\ parts = Balanced(inp, num)

StrictInv == RecipeInv /\ Kept /\ DurableInv /\ PublishInv

LEMMA PublishInit == Init => PublishInv
BY FilesAssumption DEF Init, PublishInv

LEMMA PublishNext ==
    ASSUME Promising, TInv, StrictInv, [Next]_vars
    PROVE  PublishInv'
<1> USE DEF StrictInv, disk, setup
<1>1. CASE UNCHANGED vars
  BY <1>1 DEF vars, PublishInv, Readable
<1>2. ASSUME NEW c \in Commands, NEW i \in Inputs, NEW m \in Modes[c], Start(c, m, i)
      PROVE  PublishInv'
  <2>1. m = "new" => events = None
    BY <1>2 DEF Start, RecipeInv
  <2>2. exported # << >> => events = "complete"
    BY <1>2 DEF Start, PublishInv, Ended
  <2> QED
    BY <1>2, <2>1, <2>2 DEF Start, PublishInv
<1>3. CASE Enter
  <2>1. /\ phase = "init" /\ phase' = "load" /\ events' = "incomplete"
        /\ mode \in {"new", "resume"} /\ UNCHANGED <<exported, mode>>
    BY <1>3, FilesAssumption DEF Enter, RecipeInv, TInv, Shape
  <2>2. events # "complete"
    BY <1>3, <2>1, FilesAssumption DEF Enter, ResumeResult, PublishInv
  <2> QED
    BY <2>1, <2>2 DEF PublishInv
<1>4. CASE AlreadyComplete \/ RefuseResume
  BY <1>4 DEF AlreadyComplete, RefuseResume, StopAs, PublishInv, Ended
<1>5. CASE FixCount \/ OpenInfo \/ Cleared
  BY <1>5 DEF FixCount, OpenInfo, Cleared, StopAs, PublishInv, Ended
<1>6. CASE RefuseNoInfo \/ RefuseSplit \/ FailSplit \/ FailJob \/ FailMerge
  BY <1>6 DEF RefuseNoInfo, RefuseSplit, FailSplit, FailJob, FailMerge, StopAs, PublishInv, Ended
<1>7. ~RunUnpartitioned
  <2>1. phase = "split" => cmd \in Commands
    BY DEF TInv, Shape
  <2> QED
    BY <2>1 DEF RunUnpartitioned, Partitioned, Last, Promising
<1>8. CASE ResumeSplit
  <2>1. /\ phase = "split" /\ phase' = "process" /\ info.hashed
        /\ UNCHANGED <<info, inp, num, events, exported, mode>> /\ Readable(info)
    BY <1>8 DEF ResumeSplit, MayResume, TInv, Shape
  <2>2. SetupInv' /\ CheckpointEnabled
    BY <1>8, <2>1, SetupResume DEF DurableInv, SetupInv
  <2> QED
    BY <2>1, <2>2 DEF PublishInv, SetupInv, Ended, Readable, CheckpointEnabled, Cut
<1>9. CASE FreshSplit
  <2>1. phase = "split" /\ mode = "new"
    BY <1>9, FilesAssumption DEF FreshSplit, RecipeInv, TInv, Shape
  <2>2. ~Readable(info)
    BY <2>1 DEF RecipeInv, Before, Readable
  <2> QED
    BY <1>9, <2>1, <2>2 DEF FreshSplit, PublishInv, Ended
<1>10. ~ClearInfo /\ ~\E p \in Parts, i \in OpIdx : ClearCheckpoint(p, i)
  BY DEF ClearInfo, ClearCheckpoint, RecipeInv
<1>11. CASE WriteInfo
  <2>1. SetupInv'
    BY <1>11, SetupInfo DEF DurableInv
  <2> QED
    BY <1>11, <2>1 DEF WriteInfo, PublishInv, SetupInv, Cut, Ended
<1>12. CASE CancelQueued \/ (\E g \in Parts : GroupStep(g)) \/ (\E p \in Parts : PartitionStep(p))
  <2>1. JobUnchanged
    BY <1>12, CancelMoves, GroupMoves, ThreadMoves DEF DurableInv, Promising
  <2> QED
    BY <2>1 DEF JobUnchanged, PublishInv, Readable
<1>13. CASE Merge \/ Export \/ Complete
  BY <1>13 DEF Merge, Export, Complete, PublishInv, Readable, Ended
<1>14. CASE Crash
  BY <1>14 DEF Crash, PublishInv, Promising, Ended, Active
<1> QED
  BY <1>1, <1>2, <1>3, <1>4, <1>5, <1>6, <1>7, <1>8, <1>9, <1>10, <1>11, <1>12, <1>13, <1>14
     DEF Next, Driver
(* The progress of a partition is the operator of its last checkpoint.     *)
LEMMA LargestIndex ==
    ASSUME NEW n \in Nat, NEW S \in SUBSET (0..n), S # {}
    PROVE  \E m \in S : \A k \in S : k <= m
<1> DEFINE R == {n - k : k \in S}
<1>1. R \in SUBSET (0..n) /\ R # {}
  <2>1. \A k \in S : n - k \in 0..n
    OBVIOUS
  <2> QED
    BY <2>1
<1>2. PICK r \in R : \A k \in R : r <= k
  BY <1>1, SmallestIndex
<1>3. PICK m \in S : r = n - m
  BY <1>2
<1>4. \A k \in S : k <= m
  BY <1>2, <1>3
<1> QED
  BY <1>4

Top(S) == IF S = {} THEN 0 ELSE 1 + CHOOSE i \in S : \A j \in S : j <= i

LEMMA TopIs ==
    ASSUME NEW S \in SUBSET OpIdx
    PROVE  /\ S = {} => Top(S) = 0
           /\ \A m \in S : (\A k \in S : k <= m) => Top(S) = m + 1
           /\ S # {} => \E m \in S : Top(S) = m + 1
<1>1. S \in SUBSET (0..(MaxOps - 1)) /\ MaxOps - 1 \in Nat
  BY IndexTypes DEF OpIdx
<1>2. ASSUME NEW m \in S, \A k \in S : k <= m
      PROVE  Top(S) = m + 1
  <2> DEFINE c == CHOOSE i \in S : \A j \in S : j <= i
  <2>1. c \in S /\ \A j \in S : j <= c
    BY <1>2
  <2> HIDE DEF c
  <2>2. c = m
    BY <1>1, <1>2, <2>1
  <2>3. Top(S) = 1 + c
    BY <1>2 DEF Top, c
  <2>4. m \in Int
    BY <1>1
  <2> QED
    BY <2>2, <2>3, <2>4
<1>3. S # {} => \E m \in S : Top(S) = m + 1
  BY <1>1, <1>2, LargestIndex
<1> QED
  BY <1>2, <1>3 DEF Top

LEMMA ProgressIs ==
    /\ AbstractProgress = [p \in Parts |-> Top(Saves(p))]
    /\ AbstractProgress' = [p \in Parts |-> Top(Saves(p)')]
    /\ \A p \in Parts : Saves(p) \in SUBSET OpIdx /\ Saves(p)' \in SUBSET OpIdx
BY DEF AbstractProgress, Top, Saves

LEMMA RefineInit == Init => Job!Init
<1> SUFFICES ASSUME Init PROVE Job!Init
  OBVIOUS
<1>1. AbstractJob = None
  BY DEF Init, AbstractJob, Readable
<1>2. \A p \in Parts : Saves(p) = {}
  BY DEF Init, Saves
<1>3. AbstractProgress = [p \in Parts |-> 0]
  BY <1>2 DEF AbstractProgress
<1> QED
  BY <1>1, <1>3 DEF Init, Job!Init

(* The steps that are none of the job's.                                   *)
LEMMA RefineStutter ==
    ASSUME UNCHANGED <<ckpt, exported>>,
           \/ UNCHANGED <<info, origin>>
           \/ ~Readable(info) /\ ~(Readable(info))'
    PROVE  UNCHANGED Job!jobVars
<1>1. AbstractJob' = AbstractJob
  BY DEF AbstractJob, Readable
<1>2. \A p \in Parts : Saves(p)' = Saves(p)
  BY DEF Saves
<1>3. AbstractProgress' = AbstractProgress
  BY <1>2, ProgressIs
<1> QED
  BY <1>1, <1>3 DEF Job!jobVars

LEMMA RefineFix ==
    ASSUME TInv, StrictInv, WriteInfo
    PROVE  Job!Next
<1>1. /\ phase = "recording" /\ inp \in Inputs /\ num \in 1..MaxPartitions
      /\ inp \in Seq(Rows) /\ origin \in Commands /\ ~Readable(info)
      /\ info' = [n |-> num, rows |-> inp, hashed |-> CheckpointEnabled]
      /\ UNCHANGED <<ckpt, exported, origin>>
  <2>1. phase = "recording" => info = Corrupt
    BY DEF StrictInv, PublishInv
  <2> QED
    BY <2>1, InputsAssumption DEF WriteInfo, TInv, Shape, Cut, Readable, StrictInv, Kept,
       Entered, Active
<1>2. (Readable(info))'
  <2>1. info' \in InfoFile
    BY <1>1 DEF InfoFile, CheckpointEnabled
  <2> QED
    BY <2>1, FilesAssumption DEF Readable
<1>3. AbstractJob = None /\ AbstractJob' = [rows |-> inp, n |-> num, cmd |-> origin]
  BY <1>1, <1>2 DEF AbstractJob
<1>4. AbstractJob' \in JobKinds
  BY <1>1, <1>3 DEF JobKinds
<1>5. \A p \in Parts : Saves(p)' = Saves(p)
  BY <1>1 DEF Saves
<1>6. AbstractProgress' = AbstractProgress
  BY <1>5, ProgressIs
<1>7. Job!Fix(AbstractJob')
  BY <1>1, <1>3, <1>6 DEF Job!Fix
<1> QED
  BY <1>4, <1>7 DEF Job!Next
(* A checkpoint that is written advances its partition: the ones that are  *)
(* there are of earlier operators.                                         *)
LEMMA RefineSave ==
    ASSUME TInv, StrictInv, phase = "process", JobUnchanged, NEW p \in Parts, Stores(p),
           \A q \in Parts : q # p => Stays(q)
    PROVE  Job!Next
<1> USE DEF StrictInv, DurableInv
<1>1. /\ pos[p] \in 0..MaxOps /\ MaxOps \in Nat /\ latest[p] \in -1..(MaxOps - 1)
      /\ data[p] \in Dataset /\ OpIdx = 0..(MaxOps - 1)
      /\ ckpt[p] \in [OpIdx -> {None, Corrupt} \cup Dataset]
  BY IndexTypes DEF TInv, TypeOK, ThreadType, DiskType, OpIdx
<1>2. /\ pos[p] >= 1 /\ latest[p] < pos[p] - 1
      /\ ckpt[p][pos[p] - 1] = None
      /\ \A i \in OpIdx : i >= pos[p] /\ ckpt[p][i] # None => i <= latest[p]
      /\ ckpt'[p] = [ckpt[p] EXCEPT ![pos[p] - 1] = Saved(@, data[p])]
  BY DEF Stores, TInv, Shape, ThreadInv, Thread, WorkInv, Work
<1>3. pos[p] - 1 \in OpIdx /\ pos[p] \in 1..MaxOps
  BY <1>1, <1>2
<1>4. /\ ckpt'[p][pos[p] - 1] # None
      /\ \A i \in OpIdx : i # pos[p] - 1 => ckpt'[p][i] = ckpt[p][i]
  BY <1>1, <1>2, <1>3, FilesAssumption DEF Saved
<1>5. Saves(p)' = Saves(p) \cup {pos[p] - 1}
  BY <1>3, <1>4 DEF Saves
<1>6. \A i \in Saves(p) : i < pos[p] - 1
  BY <1>1, <1>2 DEF Saves
<1>7. \A q \in Parts : q # p => Saves(q)' = Saves(q)
  BY DEF Stays, Saves
<1>8. Top(Saves(p)') = pos[p]
  <2>1. /\ pos[p] - 1 \in Saves(p)' /\ Saves(p)' \in SUBSET OpIdx
        /\ \A k \in Saves(p)' : k <= pos[p] - 1
    BY <1>1, <1>3, <1>5, <1>6, SMTT(30) DEF Saves
  <2>2. Top(Saves(p)') = pos[p] - 1 + 1
    BY <2>1, TopIs
  <2> QED
    BY <1>1, <2>2
<1>9. Top(Saves(p)) < pos[p]
  <2>1. Saves(p) \in SUBSET OpIdx
    BY ProgressIs
  <2>2. CASE Saves(p) = {}
    BY <1>1, <1>2, <2>1, <2>2, TopIs, SMTT(30)
  <2>3. CASE Saves(p) # {}
    <3>1. PICK m \in Saves(p) : Top(Saves(p)) = m + 1
      BY <2>1, <2>3, TopIs
    <3>2. m \in OpIdx /\ m < pos[p] - 1
      BY <1>6, <2>1
    <3> QED
      BY <1>1, <3>1, <3>2
  <2> QED
    BY <2>2, <2>3
<1>10. AbstractProgress' = [AbstractProgress EXCEPT ![p] = pos[p]]
  BY <1>7, <1>8, ProgressIs
<1>11. AbstractProgress[p] = Top(Saves(p))
  BY ProgressIs
<1>12. AbstractJob' = AbstractJob /\ AbstractJob # None /\ exported' = exported
  <2>1. Readable(info) /\ UNCHANGED <<info, origin, exported>>
    BY DEF SetupInv, JobUnchanged
  <2>2. AbstractJob = [rows |-> info.rows, n |-> info.n, cmd |-> origin]
    BY <2>1 DEF AbstractJob
  <2>3. info.rows \in Inputs /\ info.n \in 1..MaxPartitions /\ origin \in Commands
    BY DEF PublishInv, TInv, Shape, Cut, Kept, Entered, Active
  <2>4. AbstractJob # None
    BY <2>2, <2>3, NoJobAssumption DEF JobKinds
  <2> QED
    BY <2>1, <2>4 DEF AbstractJob, Readable
<1>13. Job!Advance(p, pos[p])
  BY <1>1, <1>9, <1>10, <1>11, <1>12 DEF Job!Advance
<1> QED
  BY <1>3, <1>13 DEF Job!Next

LEMMA RefineExport ==
    ASSUME Promising, TInv, StrictInv, Export
    PROVE  Job!Next
<1> USE DEF StrictInv, DurableInv
<1>1. /\ phase = "export" /\ exported' = Append(exported, merged)
      /\ UNCHANGED <<info, ckpt, origin>>
  BY DEF Export, disk
<1>2. exported = << >>
  BY <1>1 DEF PublishInv, Ended
<1>3. /\ merged = [p \in DOMAIN parts |-> Applied(parts[p], Plan[cmd])]
      /\ Plan[cmd] = Plan[origin] /\ Readable(info) /\ info.rows = inp /\ info.n = num
      /\ parts = Balanced(inp, num)
  BY <1>1 DEF OutInv, Kept, Entered, Active, PublishInv
<1>4. DOMAIN parts = 0..(num - 1)
  BY <1>3 DEF Balanced, CutAt
<1>5. AbstractJob = [rows |-> inp, n |-> num, cmd |-> origin] /\ AbstractJob' = AbstractJob
  BY <1>1, <1>3 DEF AbstractJob, Readable
<1>6. merged = JobResult(AbstractJob)
  BY <1>3, <1>4, <1>5 DEF JobResult
<1>7. exported' = <<merged>>
  BY <1>1, <1>2
<1>8. \A p \in Parts : Saves(p)' = Saves(p)
  BY <1>1 DEF Saves
<1>9. AbstractProgress' = AbstractProgress
  BY <1>8, ProgressIs
<1>10. AbstractJob # None
  <2>1. inp \in Inputs /\ num \in 1..MaxPartitions /\ origin \in Commands
    <3>1. info.n \in 1..MaxPartitions
      BY <1>3 DEF TInv, TypeOK, DiskType, InfoFile, Readable
    <3> QED
      BY <1>1, <1>3, <3>1 DEF TInv, Shape, Kept, Entered, Active
  <2> QED
    BY <1>5, <2>1, NoJobAssumption DEF JobKinds
<1>11. Job!Publish
  BY <1>2, <1>5, <1>6, <1>7, <1>9, <1>10 DEF Job!Publish
<1> QED
  BY <1>11 DEF Job!Next

LEMMA RefineNext ==
    ASSUME Promising, TInv, StrictInv, [Next]_vars
    PROVE  Job!Next \/ UNCHANGED Job!jobVars
<1> USE DEF StrictInv, DurableInv
<1>1. CASE ThreadsMove
  <2>1. ASSUME NEW p \in Parts, PartitionStep(p)
        PROVE  Job!Next \/ UNCHANGED Job!jobVars
    <3>1. /\ phase = "process" /\ JobUnchanged /\ Moves(p)
          /\ \A q \in Parts : q # p => Stays(q)
      BY <2>1, ThreadMoves DEF Promising
    <3>2. CASE Stores(p)
      BY <3>1, <3>2, RefineSave
    <3>3. CASE ckpt'[p] = ckpt[p]
      <4>1. \A q \in Parts : Saves(q)' = Saves(q)
        BY <3>1, <3>3 DEF Stays, Saves
      <4>2. AbstractProgress' = AbstractProgress
        BY <4>1, ProgressIs
      <4> QED
        BY <3>1, <4>2 DEF JobUnchanged, AbstractJob, Readable, Job!jobVars
    <3> QED
      BY <3>1, <3>2, <3>3 DEF Moves, Stays, Begins, Ends, Goes
  <2>2. ASSUME JobUnchanged, ckpt' = ckpt
        PROVE  UNCHANGED Job!jobVars
    BY <2>2, RefineStutter DEF JobUnchanged
  <2> QED
    BY <1>1, <2>1, <2>2, GroupMoves, CancelMoves DEF ThreadsMove, Promising
<1>2. CASE UNCHANGED vars
  BY <1>2, RefineStutter DEF vars
<1>3. ASSUME NEW c \in Commands, NEW i \in Inputs, NEW m \in Modes[c], Start(c, m, i)
      PROVE  UNCHANGED Job!jobVars
  BY <1>3, RefineStutter DEF Start, disk
<1>4. CASE \/ AlreadyComplete \/ RefuseResume \/ FixCount \/ RefuseNoInfo \/ RunUnpartitioned
           \/ ResumeSplit \/ RefuseSplit \/ FailSplit \/ FreshSplit \/ Cleared
           \/ FailJob \/ Merge \/ FailMerge \/ Complete
  <2>1. UNCHANGED <<info, ckpt, origin, exported>> \/ RunUnpartitioned
    BY <1>4 DEF AlreadyComplete, RefuseResume, FixCount, RefuseNoInfo, StopAs, ResumeSplit,
       RefuseSplit, FailSplit, FreshSplit, Cleared, FailJob, Merge, FailMerge, Complete, disk
  <2>2. RunUnpartitioned => UNCHANGED <<info, ckpt, origin, exported>>
    BY DEF RunUnpartitioned, disk
  <2> QED
    BY <2>1, <2>2, RefineStutter
<1>5. CASE Enter
  <2>1. phase = "init" /\ UNCHANGED <<info, ckpt, exported>> /\ mode \in {"new", "resume"}
    BY <1>5, FilesAssumption DEF Enter, disk, RecipeInv, TInv, Shape
  <2>2. CASE mode = "resume"
    <3>1. origin' = origin
      BY <1>5, <2>2 DEF Enter
    <3> QED
      BY <2>1, <3>1, RefineStutter
  <2>3. CASE mode = "new"
    <3>1. info = None
      BY <2>1, <2>3 DEF RecipeInv, Before
    <3> QED
      BY <2>1, <3>1, RefineStutter DEF Readable
  <2> QED
    BY <2>1, <2>2, <2>3
<1>6. ~ClearInfo /\ ~\E p \in Parts, i \in OpIdx : ClearCheckpoint(p, i)
  BY DEF ClearInfo, ClearCheckpoint, RecipeInv
<1>7. CASE OpenInfo
  <2>1. /\ phase = "record" /\ info' = Corrupt /\ UNCHANGED <<ckpt, origin, exported>>
        /\ mode = "new"
    BY <1>7, FilesAssumption DEF OpenInfo, RecipeInv, TInv, Shape, Cut, SetupInv, Preparing
  <2>2. info = None
    BY <2>1 DEF RecipeInv, Before
  <2> QED
    BY <2>1, <2>2, RefineStutter DEF Readable
<1>8. CASE Crash
  <2>1. ckpt' = ckpt
    BY <1>8, CrashIntact DEF Promising
  <2> QED
    BY <1>8, <2>1, RefineStutter DEF Crash
<1>9. CASE WriteInfo \/ Export
  BY <1>9, RefineFix, RefineExport
<1> QED
  BY <1>1, <1>2, <1>3, <1>4, <1>5, <1>6, <1>7, <1>8, <1>9 DEF Next, Driver, ThreadsMove

LEMMA StrictAlways == Promising => (Spec => [](TInv /\ StrictInv))
<1> SUFFICES ASSUME Promising PROVE Spec => [](TInv /\ StrictInv)
  OBVIOUS
<1>1. Strict /\ Intact
  BY DEF Promising
<1>2. Spec => [](TInv /\ Kept /\ DurableInv)
  BY <1>1, DurableAlways
<1>3. Spec => [](TInv /\ RecipeInv)
  BY <1>1, RecipeAlways
<1>4. TInv /\ Kept /\ DurableInv /\ RecipeInv /\ PublishInv /\ [Next]_vars => PublishInv'
  BY PublishNext DEF StrictInv
<1>5. TInv /\ Kept /\ DurableInv /\ RecipeInv /\ PublishInv => StrictInv
  BY DEF StrictInv
<1>6. Init => PublishInv
  BY PublishInit
<1> QED
  BY <1>2, <1>3, <1>4, <1>5, <1>6, PTL DEF Spec

(* Whatever runs come and go, killed, failed, refused or resumed on        *)
(* another input, the work directory of a strict job fixes one job, never  *)
(* loses progress and publishes that job's result once.                    *)
THEOREM ImplementsResumableJob == Promising => (Spec => ImplementsJob)
<1> SUFFICES ASSUME Promising PROVE Spec => ImplementsJob
  OBVIOUS
<1>1. TInv /\ StrictInv /\ [Next]_vars => [Job!Next]_(Job!jobVars)
  BY RefineNext
<1> QED
  BY <1>1, RefineInit, StrictAlways, PTL DEF Spec, ImplementsJob, Job!Spec
=============================================================================
