------------------------- MODULE ElasticJuicerProofs -------------------------
(***************************************************************************)
(* Proofs about the two parts of ElasticJuicer.  First AdaptiveBatch, for  *)
(* every operator batch size, every setting of the controller and every    *)
(* memory; then StageProfiles, for any number of actors and contexts, any  *)
(* limits of the store, any lifetime of evidence and whatever outer        *)
(* batches show.                                                           *)
(***************************************************************************)
EXTENDS AdaptiveBatch, StageProfiles, FiniteSetTheorems, SequenceTheorems,
        WellFoundedInduction, TLAPS

-----------------------------------------------------------------------------
(* Facts about the arithmetic of the controller.                           *)

LEMMA LesserGreater ==
    ASSUME NEW a \in Int, NEW b \in Int
    PROVE  /\ Lesser(a, b) \in Int /\ Lesser(a, b) <= a /\ Lesser(a, b) <= b
           /\ Lesser(a, b) \in {a, b}
           /\ Greater(a, b) \in Int /\ a <= Greater(a, b) /\ b <= Greater(a, b)
           /\ Greater(a, b) \in {a, b}
    BY DEF Lesser, Greater

LEMMA Quotients ==
    ASSUME NEW a \in Nat, NEW d \in Nat \ {0}
    PROVE  a \div d \in Nat /\ a \div d <= a
    OBVIOUS

LEMMA MaximumBounds ==
    ASSUME NEW s, s.up \in 0..MaxBatch
    PROVE  /\ EffectiveMaximum(s) \in Sizes
           /\ s.up = 0 => EffectiveMaximum(s) = MaxBatch
           /\ s.up > 1 => EffectiveMaximum(s) = s.up - 1
           /\ s.up = 1 => EffectiveMaximum(s) = 1
    BY SizesAssumption DEF EffectiveMaximum, Sizes, MinBatch, Lesser, Greater

LEMMA ClampBounds ==
    ASSUME NEW s, s.up \in 0..MaxBatch, NEW b \in Int
    PROVE  Clamp(s, b) \in Sizes /\ Clamp(s, b) <= EffectiveMaximum(s)
    BY SizesAssumption, MaximumBounds DEF Clamp, Sizes, MinBatch, Lesser, Greater

(* A set of sizes that is not empty has a largest member.                  *)
LEMMA LargestSize ==
    ASSUME NEW S \in SUBSET Sizes, S # {}
    PROVE  /\ (CHOOSE b \in S : \A d \in S : d <= b) \in S
           /\ \A d \in S : d <= (CHOOSE b \in S : \A e \in S : e <= b)
  <1> DEFINE above(b) == {d \in S : b <= d}
             T == {above(b) : b \in S}
  <1>1. S \subseteq Int
    BY DEF Sizes
  <1>2. IsFiniteSet(S)
    <2>1. IsFiniteSet(Sizes)
      BY FS_Interval, SizesAssumption DEF Sizes
    <2>2. QED
      BY <2>1, FS_Subset
  <1>3. T \subseteq FiniteSubsetsOf(S) /\ T # {}
    <2>1. \A b \in S : above(b) \in SUBSET S
      OBVIOUS
    <2>2. \A b \in S : above(b) \in FiniteSubsetsOf(S)
      BY <1>2, <2>1, FS_FiniteSubsetsOfFinite
    <2>3. QED
      BY <2>2
  <1>4. IsWellFoundedOn(StrictSubsetOrdering(S), FiniteSubsetsOf(S))
    BY FS_StrictSubsetOrderingWellFounded
  <1>5. PICK U \in T : \A V \in T : ~(<<V, U>> \in StrictSubsetOrdering(S))
    <2> HIDE DEF T
    <2> QED BY <1>3, <1>4, WFMin
  <1>6. PICK b \in S : U = above(b)
    BY <1>5
  <1>7. ASSUME NEW d \in S, ~(d <= b) PROVE FALSE
    <2>1. above(d) \in T /\ <<above(d), U>> \notin StrictSubsetOrdering(S)
      BY <1>5
    <2>2. above(d) \subseteq above(b) /\ b \in above(b) /\ b \notin above(d)
      <3>1. b \in Int /\ d \in Int /\ ~(d <= b)
        BY <1>1, <1>7
      <3>2. \A e \in S : e \in Int
        BY <1>1
      <3>3. \A e \in S : d <= e => b <= e
        BY <3>1, <3>2
      <3>4. b <= b
        BY <3>1
      <3>5. QED
        BY <3>1, <3>3, <3>4, Zenon
    <2>3. above(d) \in SUBSET S /\ above(b) \in SUBSET S
      OBVIOUS
    <2>4. above(d) # above(b)
      BY <2>2
    <2> HIDE DEF above, T
    <2>5. \A V, W \in SUBSET S : V \subseteq W /\ V # W => <<V, W>> \in StrictSubsetOrdering(S)
      BY DEF StrictSubsetOrdering
    <2>6. QED
      BY <1>6, <2>1, <2>2, <2>3, <2>4, <2>5
  <1>8. QED
    BY <1>7

LEMMA DoubledAtFirst == DoubledEvery(0, OomReprobeSuccesses)
  <1> DEFINE wait == [n \in 0..0 |-> OomReprobeSuccesses]
  <1>1. wait \in [0..0 -> 0..OomReprobeSuccesses] /\ wait[0] = OomReprobeSuccesses
    BY SizesAssumption
  <1>2. \A n \in 1..0 : wait[n] = 2 * wait[n - 1]
    OBVIOUS
  <1> HIDE DEF wait
  <1>3. QED
    BY <1>1, <1>2 DEF DoubledEvery

LEMMA DoubledAgain ==
    ASSUME NEW reprobes \in Nat, NEW interval \in Nat, DoubledEvery(reprobes, interval)
    PROVE  DoubledEvery(reprobes + 1, 2 * interval)
  <1>1. PICK wait \in [0..reprobes -> 0..interval] :
            /\ wait[0] = OomReprobeSuccesses /\ wait[reprobes] = interval
            /\ \A n \in 1..reprobes : wait[n] = 2 * wait[n - 1]
    BY DEF DoubledEvery
  <1> DEFINE next == [n \in 0..(reprobes + 1) |->
                        IF n <= reprobes THEN wait[n] ELSE 2 * interval]
  <1>2. next \in [0..(reprobes + 1) -> 0..(2 * interval)]
    BY <1>1
  <1>3. next[0] = OomReprobeSuccesses /\ next[reprobes + 1] = 2 * interval
    BY <1>1
  <1>4. \A n \in 1..(reprobes + 1) : next[n] = 2 * next[n - 1]
    BY <1>1
  <1> HIDE DEF next
  <1>5. QED
    BY <1>2, <1>3, <1>4 DEF DoubledEvery
-----------------------------------------------------------------------------
(* What is true of the controller between calls and slices.  Known leaves  *)
(* out the current size, which observe_oom sets last.                      *)

Known(s) ==
    /\ s \in Controllers
    /\ s.up # 0 => s.low < s.up /\ s.origin = 0
    /\ s.hint \/ s.floor => s.up # 0
    /\ s.hint => MaxOomReprobes # 0
    /\ s.reprobes <= MaxOomReprobes
    /\ s.origin # 0 => s.reprobes < MaxOomReprobes
    /\ DoubledEvery(s.reprobes, s.interval)

Sound(s) == Known(s) /\ s.cur <= EffectiveMaximum(s)

(* A controller with a field replaced by a value of its type is one again. *)
LEMMA FieldReplaced ==
    ASSUME NEW s \in Controllers
    PROVE  /\ \A v \in Sizes : [s EXCEPT !.cur = v] \in Controllers
           /\ \A v \in Sizes \cup {0} : [s EXCEPT !.low = v] \in Controllers
           /\ \A v \in Sizes \cup {0} : [s EXCEPT !.up = v] \in Controllers
           /\ \A v \in Nat : [s EXCEPT !.streak = v] \in Controllers
           /\ \A v \in 0..CooldownSuccesses : [s EXCEPT !.cooldown = v] \in Controllers
           /\ \A v \in Nat : [s EXCEPT !.reprobes = v] \in Controllers
           /\ \A v \in Nat : [s EXCEPT !.since = v] \in Controllers
           /\ \A v \in 0..MaxProbeOoms : [s EXCEPT !.probes = v] \in Controllers
           /\ \A v \in Nat : [s EXCEPT !.interval = v] \in Controllers
           /\ \A v \in 0..(MaxBatch + 1) : [s EXCEPT !.origin = v] \in Controllers
           /\ \A v \in BOOLEAN : [s EXCEPT !.hint = v] \in Controllers
           /\ \A v \in BOOLEAN : [s EXCEPT !.floor = v] \in Controllers
    BY DEF Controllers

LEMMA NewControllerSound == Sound(NewController)
  <1>1. NewController \in Controllers
    BY SizesAssumption DEF NewController, Controllers, Sizes
  <1>2. EffectiveMaximum(NewController) = MaxBatch
    BY DEF NewController, EffectiveMaximum
  <1>3. QED
    BY <1>1, <1>2, DoubledAtFirst, SizesAssumption DEF Sound, Known, NewController

LEMMA CountSinceSound ==
    ASSUME NEW s, Sound(s)
    PROVE  Sound(CountSince(s)) /\ CountSince(s) = [s EXCEPT !.since = CountSince(s).since]
  <1>1. Lesser(s.since + 1, Wait(s)) \in Nat
    BY SizesAssumption, LesserGreater DEF Sound, Known, Controllers, Wait, Lesser, Greater
  <1>2. CountSince(s).since \in Nat /\ CountSince(s) = [s EXCEPT !.since = CountSince(s).since]
    BY <1>1 DEF Sound, Known, Controllers, CountSince
  <1>3. QED
    BY <1>2 DEF Sound, Known, Controllers, EffectiveMaximum

LEMMA ReopenSound ==
    ASSUME NEW s, Sound(s)
    PROVE  Sound(Reopen(s)) /\ Reopen(s).cur = s.cur
  <1>1. CASE ~ReprobeDue(s)
    BY <1>1 DEF Reopen
  <1>2. CASE ReprobeDue(s)
    <2> DEFINE t == Reopen(s)
    <2>1. s \in Controllers
      BY DEF Sound, Known
    <2> DEFINE again == IF ContextReprobe(s) THEN 0 ELSE s.reprobes
               wait == IF ContextReprobe(s) THEN OomReprobeSuccesses ELSE s.interval
               origin == IF FloorReprobe(s) THEN s.up + 1 ELSE s.up
    <2>a. again \in Nat /\ wait \in Nat /\ origin \in 0..(MaxBatch + 1)
      BY <2>1, SizesAssumption DEF Controllers, Sizes
    <2>b. t = [s EXCEPT !.reprobes = again, !.interval = wait, !.origin = origin,
                        !.up = 0, !.since = 0, !.floor = FALSE, !.hint = FALSE]
      BY <1>2 DEF Reopen
    <2>2. t \in Controllers
      <3> HIDE DEF t, again, wait, origin
      <3> QED BY <2>1, <2>a, <2>b, FieldReplaced
    <2>3. /\ t.cur = s.cur /\ t.up = 0 /\ ~t.hint /\ ~t.floor
          /\ t.reprobes = IF ContextReprobe(s) THEN 0 ELSE s.reprobes
          /\ t.interval = IF ContextReprobe(s) THEN OomReprobeSuccesses ELSE s.interval
      BY <1>2, <2>1 DEF Reopen, Controllers
    <2>4. t.reprobes < MaxOomReprobes
      BY <1>2, <2>3, SizesAssumption DEF ReprobeDue, ContextReprobe, Sound, Known, Controllers
    <2>5. DoubledEvery(t.reprobes, t.interval)
      BY <2>3, DoubledAtFirst DEF Sound, Known
    <2>6. t.cur <= EffectiveMaximum(t)
      BY <2>1, <2>3 DEF EffectiveMaximum, Controllers, Sizes
    <2>7. Sound(t)
      <3> HIDE DEF t
      <3> QED BY <2>2, <2>3, <2>4, <2>5, <2>6, SizesAssumption DEF Sound, Known, Controllers
    <2>8. QED
      BY <2>3, <2>7
  <1>3. QED
    BY <1>1, <1>2

LEMMA ProveSound ==
    ASSUME NEW s, NEW b \in Sizes, Sound(s)
    PROVE  Sound(Prove(s, b)) /\ Prove(s, b).cur = s.cur
  <1> DEFINE t == Prove(s, b)
  <1>1. CASE s.origin = 0 \/ b < s.origin
    BY <1>1 DEF Prove
  <1>2. CASE ~(s.origin = 0 \/ b < s.origin)
    <2>1. s \in Controllers
      BY DEF Sound, Known
    <2>2. t \in Controllers
      <3>1. t = [s EXCEPT !.origin = 0, !.reprobes = 0, !.interval = OomReprobeSuccesses,
                          !.probes = 0, !.hint = FALSE]
        BY <1>2 DEF Prove
      <3>2. 0 \in 0..MaxProbeOoms /\ 0 \in 0..(MaxBatch + 1) /\ OomReprobeSuccesses \in Nat
        BY SizesAssumption
      <3> HIDE DEF t
      <3>3. QED
        BY <2>1, <3>1, <3>2, FieldReplaced
    <2>3. /\ t.cur = s.cur /\ t.up = s.up /\ t.low = s.low /\ ~t.hint /\ t.floor = s.floor
          /\ t.reprobes = 0 /\ t.interval = OomReprobeSuccesses /\ t.origin = 0
      BY <1>2, <2>1 DEF Prove, Controllers
    <2>4. EffectiveMaximum(t) = EffectiveMaximum(s)
      BY <2>3 DEF EffectiveMaximum
    <2>5. Sound(t)
      <3> HIDE DEF t
      <3> QED BY <2>2, <2>3, <2>4, DoubledAtFirst, SizesAssumption DEF Sound, Known
    <2>6. QED
      BY <2>3, <2>5
  <1>3. QED
    BY <1>1, <1>2

LEMMA RaiseLowSound ==
    ASSUME NEW s, NEW b \in Sizes, Sound(s)
    PROVE  Sound(RaiseLow(s, b)) /\ RaiseLow(s, b).cur = s.cur
  <1> DEFINE t == RaiseLow(s, b)
  <1>1. CASE s.up # 0 /\ b >= s.up
    BY <1>1 DEF RaiseLow
  <1>2. CASE ~(s.up # 0 /\ b >= s.up)
    <2>1. s \in Controllers
      BY DEF Sound, Known
    <2>2. Greater(s.low, b) \in {s.low, b}
      BY DEF Greater
    <2>3. t = [s EXCEPT !.low = Greater(s.low, b)]
      BY <1>2, <2>1 DEF RaiseLow
    <2>4. t \in Controllers /\ t.low = Greater(s.low, b) /\ t.up = s.up
      BY <2>1, <2>2, <2>3 DEF Controllers
    <2>5. s.up # 0 => t.low < t.up
      BY <1>2, <2>1, <2>2, <2>4 DEF Sound, Known, Controllers, Sizes
    <2>6. EffectiveMaximum(t) = EffectiveMaximum(s)
      BY <2>4 DEF EffectiveMaximum
    <2>7. t.cur = s.cur /\ t.hint = s.hint /\ t.floor = s.floor /\ t.origin = s.origin
          /\ t.reprobes = s.reprobes /\ t.interval = s.interval
      BY <2>1, <2>3 DEF Controllers
    <2>8. Sound(t)
      <3> HIDE DEF t
      <3> QED BY <2>4, <2>5, <2>6, <2>7 DEF Sound, Known
    <2>9. QED
      BY <2>7, <2>8
  <1>3. QED
    BY <1>1, <1>2

LEMMA NextProbeBounds ==
    ASSUME NEW s, Known(s)
    PROVE  NextProbe(s) \in Sizes /\ NextProbe(s) <= EffectiveMaximum(s)
  <1>1. s.up \in 0..MaxBatch /\ s.low \in Nat /\ s.up \in Nat /\ s.cur \in Nat
    BY SizesAssumption DEF Known, Controllers, Sizes
  <1>a. s.low + s.up \in Nat
    BY <1>1
  <1>b. (s.low + s.up) \div 2 \in Int
    BY <1>a, Quotients
  <1>2. Greater(s.low, (s.low + s.up) \div 2) \in Int
    BY <1>1, <1>b DEF Greater
  <1>3. s.cur + GrowthDivisor - 1 \in Nat
    BY <1>1, SizesAssumption
  <1>4. s.cur + (s.cur + GrowthDivisor - 1) \div GrowthDivisor \in Int
    BY <1>1, <1>3, Quotients, SizesAssumption
  <1>5. QED
    BY <1>1, <1>2, <1>4, ClampBounds DEF NextProbe

(* Streak, cooldown and size may change to anything within their bounds.   *)
LEMMA SteeredSound ==
    ASSUME NEW s, Known(s), NEW t, t \in Controllers, t.cur <= EffectiveMaximum(s),
           t = [s EXCEPT !.streak = t.streak, !.cooldown = t.cooldown, !.cur = t.cur]
    PROVE  Sound(t)
  <1>1. /\ t.up = s.up /\ t.low = s.low /\ t.hint = s.hint /\ t.floor = s.floor
        /\ t.origin = s.origin /\ t.reprobes = s.reprobes /\ t.interval = s.interval
    BY DEF Known, Controllers
  <1>2. EffectiveMaximum(t) = EffectiveMaximum(s)
    BY <1>1 DEF EffectiveMaximum
  <1>3. QED
    BY <1>1, <1>2 DEF Sound, Known

LEMMA GrowSound ==
    ASSUME NEW s, Sound(s)
    PROVE  Sound(Grow(s))
  <1> DEFINE t == Grow(s)
  <1>1. s \in Controllers /\ Known(s) /\ s.up \in 0..MaxBatch /\ s.cur \in Int
    BY SizesAssumption DEF Sound, Known, Controllers, Sizes
  <1>2. Clamp(s, s.cur) \in Sizes /\ Clamp(s, s.cur) <= EffectiveMaximum(s)
    BY <1>1, ClampBounds
  <1>3. NextProbe(s) \in Sizes /\ NextProbe(s) <= EffectiveMaximum(s)
    BY <1>1, NextProbeBounds
  <1>4. t \in Controllers
    <2>1. /\ s.cooldown > 0 => s.cooldown - 1 \in 0..CooldownSuccesses
          /\ s.streak + 1 \in Nat
      BY <1>1, SizesAssumption DEF Controllers
    <2>2. CASE s.cooldown > 0
      BY <1>1, <1>2, <2>1, <2>2, FieldReplaced DEF Grow
    <2>3. CASE ~(s.cooldown > 0) /\ s.streak + 1 < SuccessesBeforeGrowth
      BY <1>1, <2>1, <2>3, FieldReplaced DEF Grow
    <2>4. CASE ~(s.cooldown > 0) /\ ~(s.streak + 1 < SuccessesBeforeGrowth)
      BY <1>1, <1>3, <2>4, FieldReplaced DEF Grow
    <2>5. QED
      BY <2>2, <2>3, <2>4
  <1>5. t.cur \in {s.cur, Clamp(s, s.cur), NextProbe(s)}
    BY <1>1 DEF Grow, Controllers
  <1>6. t = [s EXCEPT !.streak = t.streak, !.cooldown = t.cooldown, !.cur = t.cur]
    BY <1>1 DEF Grow, Controllers
  <1>7. QED
    BY <1>1, <1>2, <1>3, <1>4, <1>5, <1>6, SteeredSound DEF Sound
LEMMA ObserveSuccessSound ==
    ASSUME NEW s, Sound(s), NEW b \in Sizes, NEW expired \in BOOLEAN
    PROVE  Sound(ObserveSuccess(s, b, expired))
  <1> DEFINE t == [s EXCEPT !.hint = s.hint /\ ~expired]
  <1>1. Sound(t)
    <2>1. s \in Controllers
      BY DEF Sound, Known
    <2>a. (s.hint /\ ~expired) \in BOOLEAN
      OBVIOUS
    <2>2. t \in Controllers
      BY <2>1, <2>a, FieldReplaced
    <2>3. /\ t.hint = (s.hint /\ ~expired) /\ t.cur = s.cur /\ t.up = s.up /\ t.low = s.low
          /\ t.floor = s.floor /\ t.reprobes = s.reprobes /\ t.interval = s.interval
          /\ t.origin = s.origin
      BY <2>1 DEF Controllers
    <2>4. EffectiveMaximum(t) = EffectiveMaximum(s)
      BY <2>3 DEF EffectiveMaximum
    <2> HIDE DEF t
    <2>5. QED
      BY <2>2, <2>3, <2>4 DEF Sound, Known
  <1>2. Sound(Grow(RaiseLow(Prove(Reopen(CountSince(t)), b), b)))
    <2> HIDE DEF t
    <2>1. Sound(Reopen(CountSince(t)))
      BY <1>1, CountSinceSound, ReopenSound
    <2>2. Sound(RaiseLow(Prove(Reopen(CountSince(t)), b), b))
      BY <2>1, ProveSound, RaiseLowSound
    <2>3. QED
      BY <2>2, GrowSound
  <1>3. QED
    BY <1>1, <1>2 DEF ObserveSuccess

LEMMA FloorRecoverySound ==
    ASSUME NEW s, Sound(s)
    PROVE  Sound(RecordFloorRecovery(s))
  <1> DEFINE t == [s EXCEPT !.floor = TRUE, !.since = 0]
  <1>1. CASE s.up # MinBatch \/ s.floor
    BY <1>1 DEF RecordFloorRecovery
  <1>2. CASE s.up = MinBatch /\ ~s.floor
    <2>1. s \in Controllers
      BY DEF Sound, Known
    <2>2. t \in Controllers
      BY <2>1, FieldReplaced
    <2>3. /\ t.hint = s.hint /\ t.cur = s.cur /\ t.up = s.up /\ t.low = s.low
          /\ t.reprobes = s.reprobes /\ t.interval = s.interval /\ t.origin = s.origin
      BY <2>1 DEF Controllers
    <2>4. EffectiveMaximum(t) = EffectiveMaximum(s)
      BY <2>3 DEF EffectiveMaximum
    <2>5. Sound(t)
      <3> HIDE DEF t
      <3> QED BY <1>2, <2>2, <2>3, <2>4 DEF Sound, Known, MinBatch
    <2>6. QED
      BY <1>2, <2>5 DEF RecordFloorRecovery
  <1>3. QED
    BY <1>1, <1>2

-----------------------------------------------------------------------------
(* An OOM at size b: first the bound, then what contradicts it, then the   *)
(* freeze, and at last the next size.                                      *)

LEMMA BoundSet ==
    ASSUME NEW s, Known(s), NEW b \in Sizes
    PROVE  LET t == Bound(s, b)
           IN  /\ t \in Controllers /\ t.up \in 1..b /\ t.low = s.low /\ t.cur = s.cur
               /\ t.origin = 0 /\ ~t.hint /\ ~t.floor
               /\ t.reprobes <= MaxOomReprobes /\ DoubledEvery(t.reprobes, t.interval)
  <1> DEFINE probes == IF s.low # 0 /\ b > s.low THEN Lesser(s.probes + 1, MaxProbeOoms) ELSE s.probes
             reprobes == IF s.origin # 0 THEN s.reprobes + 1 ELSE s.reprobes
             interval == IF s.origin # 0 THEN 2 * s.interval ELSE s.interval
             up == IF s.up = 0 THEN b ELSE Lesser(s.up, b)
             t == Bound(s, b)
  <1>1. s \in Controllers
    BY DEF Known
  <1>2. t = [s EXCEPT !.probes = probes, !.reprobes = reprobes, !.interval = interval, !.up = up,
                      !.origin = 0, !.streak = 0, !.cooldown = CooldownSuccesses,
                      !.since = 0, !.hint = FALSE, !.floor = FALSE]
    BY DEF Bound
  <1>3. /\ probes \in 0..MaxProbeOoms /\ reprobes \in Nat /\ interval \in Nat
        /\ up \in 1..b /\ up \in Sizes \cup {0}
        /\ 0 \in 0..(MaxBatch + 1) /\ CooldownSuccesses \in 0..CooldownSuccesses
    BY <1>1, SizesAssumption DEF Controllers, Sizes, Lesser
  <1>4. t \in Controllers
    <2> HIDE DEF t, probes, reprobes, interval, up
    <2> QED BY <1>1, <1>2, <1>3, FieldReplaced
  <1>5. /\ t.up = up /\ t.low = s.low /\ t.cur = s.cur /\ t.origin = 0 /\ ~t.hint /\ ~t.floor
        /\ t.reprobes = reprobes /\ t.interval = interval
    <2> HIDE DEF t, probes, reprobes, interval, up
    <2> QED BY <1>1, <1>2 DEF Controllers
  <1>6. reprobes <= MaxOomReprobes
    BY <1>1, SizesAssumption DEF Known, Controllers
  <1>7. DoubledEvery(reprobes, interval)
    BY <1>1, DoubledAgain DEF Known, Controllers
  <1>8. /\ t \in Controllers /\ t.up \in 1..b /\ t.low = s.low /\ t.cur = s.cur
        /\ t.origin = 0 /\ ~t.hint /\ ~t.floor
        /\ t.reprobes <= MaxOomReprobes /\ DoubledEvery(t.reprobes, t.interval)
    <2> HIDE DEF t, probes, reprobes, interval, up
    <2> QED BY <1>3, <1>4, <1>5, <1>6, <1>7
  <1>9. QED
    BY <1>8

LEMMA DropLowKnown ==
    ASSUME NEW t, t \in Controllers, t.up # 0, t.origin = 0, ~t.hint, ~t.floor,
           t.reprobes <= MaxOomReprobes, DoubledEvery(t.reprobes, t.interval)
    PROVE  /\ Known(DropLow(t)) /\ DropLow(t).up = t.up
           /\ DropLow(t).low = IF t.low >= t.up THEN 0 ELSE t.low
  <1>1. CASE t.low # 0 /\ t.low >= t.up
    <2> DEFINE u == [t EXCEPT !.low = 0, !.probes = 0]
    <2>1. 0 \in 0..MaxProbeOoms
      BY SizesAssumption
    <2>2. u \in Controllers
      BY <2>1, FieldReplaced
    <2>3. /\ u.low = 0 /\ u.up = t.up /\ u.origin = 0 /\ ~u.hint /\ ~u.floor
          /\ u.reprobes = t.reprobes /\ u.interval = t.interval
      BY DEF Controllers
    <2>a. t.up > 0
      BY DEF Controllers, Sizes
    <2>4. Known(u)
      <3> HIDE DEF u
      <3> QED BY <2>2, <2>3, <2>a, SizesAssumption DEF Known
    <2>5. DropLow(t) = u
      BY <1>1 DEF DropLow
    <2> HIDE DEF u
    <2>6. QED
      BY <1>1, <2>3, <2>4, <2>5
  <1>2. CASE ~(t.low # 0 /\ t.low >= t.up)
    <2>1. t.low < t.up /\ t.low \in Nat /\ t.up \in Nat
      BY <1>2 DEF Controllers, Sizes
    <2>2. QED
      BY <1>2, <2>1 DEF DropLow, Known
  <1>3. QED
    BY <1>1, <1>2

LEMMA FreezeKnown ==
    ASSUME NEW t, Known(t), t.up # 0
    PROVE  /\ Known(Freeze(t)) /\ Freeze(t).up # 0 /\ Freeze(t).up <= t.up
           /\ Freeze(t).low = t.low
  <1>1. CASE t.low # 0 /\ t.probes >= MaxProbeOoms
    <2> DEFINE u == [t EXCEPT !.up = t.low + 1]
    <2>1. t \in Controllers /\ t.low < t.up /\ t.low \in Nat /\ t.up \in Nat
      BY DEF Known, Controllers, Sizes
    <2>2. t.low + 1 \in Sizes \cup {0} /\ t.low + 1 <= t.up
      BY <2>1, SizesAssumption DEF Controllers, Sizes
    <2>3. u \in Controllers
      BY <2>1, <2>2, FieldReplaced
    <2>4. /\ u.low = t.low /\ u.up = t.low + 1 /\ u.origin = t.origin /\ u.hint = t.hint
          /\ u.floor = t.floor /\ u.reprobes = t.reprobes /\ u.interval = t.interval
      BY <2>1 DEF Controllers
    <2>5. Known(u)
      <3> HIDE DEF u
      <3> QED BY <2>1, <2>3, <2>4 DEF Known
    <2>6. Freeze(t) = u
      BY <1>1 DEF Freeze
    <2> HIDE DEF u
    <2>7. QED
      BY <2>1, <2>2, <2>4, <2>5, <2>6
  <1>2. CASE ~(t.low # 0 /\ t.probes >= MaxProbeOoms)
    BY <1>2 DEF Freeze, Known, Controllers, Sizes
  <1>3. QED
    BY <1>1, <1>2

(* The outcome of an OOM: the bound is at the size or below, the next size *)
(* below it, half of it unless what has fitted allows more.                *)
LEMMA OomObserved ==
    ASSUME NEW s, Known(s), NEW b \in Sizes
    PROVE  LET r == ObserveOom(s, b)
           IN  /\ Sound(r) /\ r.up # 0 /\ r.up <= b
               /\ b = 1 => r.cur = 1
               /\ b > 1 => r.cur <= b - 1
               /\ r.low \in {0, s.low} /\ (s.low >= b => r.low = 0)
               /\ b > 1 => r.cur <= b \div 2 \/ r.cur <= r.low
  <1> DEFINE t == DropLow(Bound(s, b))
             f == Freeze(t)
             half == Greater(Greater(MinBatch, b \div 2), f.low)
             r == ObserveOom(s, b)
  <1>1. /\ Known(t) /\ t.up \in 1..b /\ t.low \in {0, s.low} /\ (s.low >= b => t.low = 0)
    <2>1. s.low \in Int
      BY DEF Known, Controllers, Sizes
    <2>2. QED
      BY <2>1, BoundSet, DropLowKnown DEF Sizes
  <1>2. CASE b = 1
    <2>1. t \in Controllers /\ t.up = 1 /\ t.low = 0
      BY <1>1, <1>2 DEF Known, Controllers, Sizes
    <2>2. r = [t EXCEPT !.cur = 1]
      BY <1>2 DEF ObserveOom, MinBatch
    <2>3. 1 \in Sizes
      BY SizesAssumption DEF Sizes
    <2>4. r \in Controllers
      <3> HIDE DEF t, r
      <3> QED BY <2>1, <2>2, <2>3, FieldReplaced
    <2>5. /\ r.cur = 1 /\ r.low = t.low /\ r.up = t.up
          /\ r = [t EXCEPT !.streak = r.streak, !.cooldown = r.cooldown, !.cur = r.cur]
      <3> HIDE DEF t, r
      <3> QED BY <2>1, <2>2 DEF Controllers
    <2>6. EffectiveMaximum(t) = 1
      BY <2>1, MaximumBounds DEF Controllers, Sizes
    <2>7. Sound(r)
      <3> HIDE DEF t, r
      <3>1. Known(t) /\ r.cur <= EffectiveMaximum(t)
        BY <1>1, <2>5, <2>6
      <3>2. QED
        BY <2>4, <2>5, <3>1, SteeredSound
    <2>8. /\ r.up # 0 /\ r.up <= b /\ r.low \in {0, s.low} /\ (s.low >= b => r.low = 0)
      <3> HIDE DEF t, r
      <3> QED BY <1>1, <1>2, <2>1, <2>5
    <2>9. QED
      BY <1>2, <2>5, <2>7, <2>8
  <1>3. CASE b > 1
    <2>1. /\ Known(f) /\ f \in Controllers /\ f.up # 0 /\ f.up <= t.up /\ f.low = t.low
      BY <1>1, FreezeKnown DEF Known
    <2>2. f.up \in 1..b /\ f.low \in Nat /\ f.up \in 0..MaxBatch /\ f.low < f.up /\ b \in Nat
      BY <1>1, <2>1, SizesAssumption DEF Known, Controllers, Sizes
    <2>3. b \div 2 \in Nat /\ b \div 2 <= b - 1
      BY <1>3, <2>2
    <2>4. half \in Int /\ half <= b - 1 /\ half >= 1 /\ (half <= b \div 2 \/ half = f.low)
      BY <1>3, <2>2, <2>3 DEF Greater, MinBatch
    <2>5. r = [f EXCEPT !.cur = Clamp(f, half)]
      BY <1>3, <2>2 DEF ObserveOom, BackOff, MinBatch
    <2>6. Clamp(f, half) \in Sizes /\ Clamp(f, half) <= EffectiveMaximum(f) /\ Clamp(f, half) <= half
      <3> HIDE DEF f, half
      <3>1. EffectiveMaximum(f) \in Sizes
        BY <2>2, MaximumBounds
      <3>2. QED
        BY <2>2, <2>4, <3>1, ClampBounds DEF Clamp, Lesser, Greater, MinBatch, Sizes
    <2>7. r \in Controllers
      <3> HIDE DEF f, r, half
      <3> QED BY <2>1, <2>5, <2>6, FieldReplaced
    <2>8. /\ r.cur = Clamp(f, half) /\ r.low = f.low /\ r.up = f.up
          /\ r = [f EXCEPT !.streak = r.streak, !.cooldown = r.cooldown, !.cur = r.cur]
      <3> HIDE DEF f, r, half
      <3> QED BY <2>1, <2>5 DEF Controllers
    <2>9. Sound(r)
      <3> HIDE DEF f, r, half
      <3> QED BY <2>1, <2>6, <2>7, <2>8, SteeredSound
    <2>10. r.cur <= b - 1 /\ (r.cur <= b \div 2 \/ r.cur <= r.low)
      <3> HIDE DEF t, f, r, half
      <3> QED BY <2>2, <2>3, <2>4, <2>6, <2>8 DEF Sizes
    <2>11. /\ r.up # 0 /\ r.up <= b /\ r.low \in {0, s.low} /\ (s.low >= b => r.low = 0)
      <3> HIDE DEF t, f, r, half
      <3> QED BY <1>1, <2>1, <2>2, <2>8
    <2>12. QED
      BY <1>3, <2>9, <2>10, <2>11
  <1>4. QED
    BY <1>2, <1>3 DEF Sizes
-----------------------------------------------------------------------------
(* The actor.                                                              *)

(* The inductive invariant behind types, bounds and retries.               *)
ActorInv ==
    /\ TypeOK /\ Sound(ctl)
    /\ fresh => ctl = NewController
    /\ phase \in {"slice", "oom"} => offset < rows

LEMMA SizeBounds ==
    ASSUME NEW s, Sound(s), NEW left \in 1..MaxBatch
    PROVE  /\ NextBatchSize(s, left) \in 1..left
           /\ NextBatchSize(s, left) <= s.cur
           /\ NextBatchSize(s, left) <= EffectiveMaximum(s)
  <1>1. EffectiveMaximum(s) \in Sizes /\ s.cur \in Sizes
    BY MaximumBounds, SizesAssumption DEF Sound, Known, Controllers, Sizes
  <1>2. QED
    BY <1>1, SizesAssumption DEF NextBatchSize, Lesser, Sizes

LEMMA SliceSize ==
    ASSUME ActorInv, phase \in {"slice", "oom"}
    PROVE  /\ Size \in 1..(rows - offset) /\ Size \in Sizes /\ Size <= ctl.cur
           /\ offset + Size \in 1..rows /\ rows - offset \in 1..MaxBatch
           /\ rows \in Int /\ offset \in Int
  <1>1. rows \in 0..MaxBatch /\ offset \in 0..rows /\ offset < rows /\ Sound(ctl)
    BY DEF ActorInv, TypeOK
  <1>2. rows - offset \in 1..MaxBatch
    BY <1>1, SizesAssumption
  <1>3. Size \in 1..(rows - offset) /\ Size <= ctl.cur
    BY <1>1, <1>2, SizeBounds DEF Size
  <1>4. QED
    BY <1>1, <1>2, <1>3, SizesAssumption DEF Sizes

LEMMA SeededSound ==
    ASSUME NEW p \in Priors
    PROVE  Sound(Seeded(NewController, p))
  <1> DEFINE n == NewController
             t == [n EXCEPT !.up = p.up]
             size == IF p.safe = 0 THEN t.cur ELSE p.safe
             u == Seeded(n, p)
  <1>1. /\ p.safe \in Sizes \cup {0} /\ p.up \in (2..MaxBatch) \cup {0} /\ p.up \in Sizes \cup {0}
    BY DEF Priors, Sizes
  <1>2. n \in Controllers /\ n.low = 0 /\ ~n.hint /\ ~n.floor /\ n.reprobes = 0
        /\ n.interval = OomReprobeSuccesses /\ n.origin = 0
    BY NewControllerSound DEF Sound, Known, NewController
  <1>3. t \in Controllers
    <2> HIDE DEF n, t
    <2> QED BY <1>1, <1>2, FieldReplaced DEF t
  <1>4. /\ t.up = p.up /\ t.low = 0 /\ ~t.hint /\ ~t.floor /\ t.reprobes = 0
        /\ t.interval = OomReprobeSuccesses /\ t.origin = 0
    <2> HIDE DEF n
    <2> QED BY <1>2 DEF Controllers
  <1>5. Known(t)
    <2> HIDE DEF t
    <2>1. t.up # 0 => t.low < t.up
      BY <1>1, <1>4
    <2>2. QED
      BY <1>3, <1>4, <2>1, DoubledAtFirst, SizesAssumption DEF Known
  <1>6. size \in Int /\ t.up \in 0..MaxBatch
    BY <1>1, <1>3, <1>4, SizesAssumption DEF Controllers, Sizes
  <1>7. Clamp(t, size) \in Sizes /\ Clamp(t, size) <= EffectiveMaximum(t)
    <2> HIDE DEF t, size
    <2> QED BY <1>6, ClampBounds
  <1>8. u = [t EXCEPT !.cur = Clamp(t, size)]
    BY DEF Seeded
  <1>9. u \in Controllers
    <2> HIDE DEF t, size, u
    <2> QED BY <1>3, <1>7, <1>8, FieldReplaced
  <1>10. u.cur = Clamp(t, size)
         /\ u = [t EXCEPT !.streak = u.streak, !.cooldown = u.cooldown, !.cur = u.cur]
    <2> HIDE DEF t, size, u
    <2> QED BY <1>3, <1>8 DEF Controllers
  <1>11. Sound(u)
    <2> HIDE DEF t, size, u
    <2>1. u.cur <= EffectiveMaximum(t)
      BY <1>7, <1>10
    <2>2. QED
      BY <1>5, <1>9, <1>10, <2>1, SteeredSound
  <1>12. QED
    BY <1>11

(* A hint is given or revoked: nothing else of the controller changes.     *)
LEMMA HintSound ==
    ASSUME NEW s, Sound(s), NEW hint \in BOOLEAN,
           hint => s.up # 0 /\ MaxOomReprobes # 0
    PROVE  /\ Sound([s EXCEPT !.hint = hint])
           /\ Sound([s EXCEPT !.hint = hint, !.since = 0])
  <1> DEFINE t == [s EXCEPT !.hint = hint]
             u == [s EXCEPT !.hint = hint, !.since = 0]
  <1>1. s \in Controllers
    BY DEF Sound, Known
  <1>2. t \in Controllers /\ u \in Controllers
    BY <1>1, FieldReplaced
  <1>3. /\ t.hint = hint /\ t.cur = s.cur /\ t.up = s.up /\ t.low = s.low /\ t.floor = s.floor
        /\ t.reprobes = s.reprobes /\ t.interval = s.interval /\ t.origin = s.origin
    BY <1>1 DEF Controllers
  <1>4. /\ u.hint = hint /\ u.cur = s.cur /\ u.up = s.up /\ u.low = s.low /\ u.floor = s.floor
        /\ u.reprobes = s.reprobes /\ u.interval = s.interval /\ u.origin = s.origin
    BY <1>1 DEF Controllers
  <1>5. EffectiveMaximum(t) = EffectiveMaximum(s) /\ EffectiveMaximum(u) = EffectiveMaximum(s)
    BY <1>3, <1>4 DEF EffectiveMaximum
  <1>6. Sound(t) /\ Sound(u)
    <2> HIDE DEF t, u
    <2> QED BY <1>2, <1>3, <1>4, <1>5 DEF Sound, Known
  <1>7. QED
    BY <1>6

LEMMA SliceType ==
    ASSUME NEW from \in Nat, NEW size \in Nat, from + size <= MaxBatch
    PROVE  /\ Slice(from, size) \in Seq(Sizes) /\ Len(Slice(from, size)) = size
           /\ \A i \in 1..size : Slice(from, size)[i] = from + i
  <1>1. \A i \in 1..size : from + i \in Sizes
    BY SizesAssumption DEF Sizes
  <1>2. QED
    BY <1>1 DEF Slice

LEMMA ActorInit == Init => ActorInv
  <1> SUFFICES ASSUME Init PROVE ActorInv
    OBVIOUS
  <1>1. ctl = NewController /\ Sound(ctl) /\ ctl \in Controllers
    BY NewControllerSound DEF Init, Sound, Known
  <1>2. history \in [Contexts -> [size : Sizes \cup {0}, used : BOOLEAN]]
    BY DEF Init, NoProof
  <1>3. out \in Seq(Sizes)
    BY DEF Init
  <1>4. QED
    BY <1>1, <1>2, <1>3, SizesAssumption DEF Init, ActorInv, TypeOK

LEMMA CallInv ==
    ASSUME ActorInv, NEW c \in Contexts \cup {None}, NEW n \in Sizes, Call(c, n)
    PROVE  ActorInv'
  <1> DEFINE priors == IF fresh /\ c # None THEN Priors ELSE {[safe |-> 0, up |-> 0]}
             lives == SUBSET {d \in Contexts : history[d] # NoProof}
             seeded(prior) == IF prior.safe = 0 /\ prior.up = 0 THEN ctl ELSE Seeded(ctl, prior)
             told(prior) == [seeded(prior) EXCEPT !.hint = seeded(prior).hint /\ c = ctx]
             hinted(prior) == [told(prior) EXCEPT !.hint = TRUE, !.since = 0]
             kept(live) == [d \in Contexts |-> IF d \in live THEN history[d] ELSE NoProof]
             gives(prior, live) == c # None /\ c \in live /\ MayHint(told(prior), history[c])
  <1>1. PICK prior \in priors, live \in lives :
            IF gives(prior, live)
            THEN /\ ctl' = hinted(prior)
                 /\ history' = [kept(live) EXCEPT ![c].used = TRUE]
            ELSE ctl' = told(prior) /\ history' = kept(live)
    BY DEF Call
  <1>2. Sound(seeded(prior)) /\ (c = None => seeded(prior) = ctl)
    <2>1. Sound(ctl) /\ (fresh => ctl = NewController)
      BY DEF ActorInv
    <2>2. CASE fresh /\ c # None
      <3>1. prior \in Priors
        BY <2>2
      <3>2. Sound(Seeded(ctl, prior))
        BY <2>1, <2>2, <3>1, SeededSound
      <3>3. QED
        BY <2>1, <2>2, <3>2
    <2>3. CASE ~(fresh /\ c # None)
      <3>1. prior = [safe |-> 0, up |-> 0]
        BY <2>3
      <3>2. seeded(prior) = ctl
        BY <3>1
      <3>3. QED
        BY <2>1, <3>2
    <2>4. QED
      BY <2>2, <2>3
  <1>3. Sound(told(prior))
    <2> HIDE DEF seeded
    <2>1. seeded(prior).hint \in BOOLEAN
      BY <1>2 DEF Sound, Known, Controllers
    <2>2. (seeded(prior).hint /\ c = ctx) => seeded(prior).up # 0 /\ MaxOomReprobes # 0
      BY <1>2 DEF Sound, Known
    <2>3. QED
      BY <1>2, <2>1, <2>2, HintSound
  <1>4. gives(prior, live) => Sound(hinted(prior))
    <2> HIDE DEF told
    <2>1. MayHint(told(prior), history[c]) => told(prior).up # 0 /\ MaxOomReprobes # 0
      BY DEF MayHint
    <2>2. QED
      BY <1>3, <2>1, HintSound
  <1>5. Sound(ctl') /\ ctl' \in Controllers
    BY <1>1, <1>3, <1>4 DEF Sound, Known
  <1>6. fresh' => ctl' = NewController
    <2> SUFFICES ASSUME fresh' PROVE ctl' = NewController
      OBVIOUS
    <2>1. c = None /\ ctl = NewController
      BY DEF Call, ActorInv
    <2>2. ctl' = [NewController EXCEPT !.hint = NewController.hint /\ c = ctx]
      BY <1>1, <1>2, <2>1
    <2>3. (NewController.hint /\ c = ctx) = FALSE
      BY DEF NewController
    <2>4. NewController \in Controllers /\ NewController.hint = FALSE
      BY NewControllerSound DEF Sound, Known, NewController
    <2>5. [NewController EXCEPT !.hint = FALSE] = NewController
      BY <2>4 DEF Controllers
    <2>6. QED
      BY <2>2, <2>3, <2>5
  <1>7. history' \in [Contexts -> [size : Sizes \cup {0}, used : BOOLEAN]]
    <2>1. kept(live) \in [Contexts -> [size : Sizes \cup {0}, used : BOOLEAN]]
      BY DEF ActorInv, TypeOK, NoProof
    <2>2. history' = kept(live) \/ (c # None /\ history' = [kept(live) EXCEPT ![c].used = TRUE])
      BY <1>1
    <2> HIDE DEF kept
    <2>3. QED
      BY <2>1, <2>2
  <1>8. /\ phase' = "slice" /\ ctx' = c /\ rows' = n /\ offset' = 0 /\ out' = << >>
        /\ retries' = 0 /\ floors' = 0 /\ successes' = {} /\ room' = room /\ fresh' = (fresh /\ c = None)
    BY DEF Call
  <1>9. n \in 1..MaxBatch /\ 0 \in 0..n /\ 0 < n /\ out' \in Seq(Sizes)
    BY <1>8 DEF Sizes
  <1>10. TypeOK'
    BY <1>5, <1>7, <1>8, <1>9, SizesAssumption DEF ActorInv, TypeOK
  <1>11. QED
    BY <1>5, <1>6, <1>8, <1>9, <1>10 DEF ActorInv

LEMMA DeliverInv ==
    ASSUME ActorInv, Deliver
    PROVE  ActorInv'
  <1>1. /\ Size \in 1..(rows - offset) /\ Size \in Sizes /\ offset + Size \in 1..rows
        /\ rows \in Int /\ offset \in Int
    BY SliceSize DEF Deliver
  <1>2. Sound(ctl') /\ ctl' \in Controllers
    <2>1. Sound(ctl) /\ Sound(RecordFloorRecovery(ctl))
      BY FloorRecoverySound DEF ActorInv
    <2>2. PICK expired \in BOOLEAN :
              ctl' = ObserveSuccess(IF floors > 0 /\ Size = MinBatch
                                    THEN RecordFloorRecovery(ctl) ELSE ctl, Size, expired)
      BY DEF Deliver
    <2>3. QED
      BY <1>1, <2>1, <2>2, ObserveSuccessSound DEF Sound, Known
  <1>3. out' \in Seq(Sizes)
    <2>1. offset \in Nat /\ Size \in Nat /\ offset + Size <= MaxBatch
      BY <1>1, SizesAssumption DEF ActorInv, TypeOK
    <2>2. Slice(offset, Size) \in Seq(Sizes) /\ out \in Seq(Sizes)
      BY <2>1, SliceType DEF ActorInv, TypeOK
    <2>3. QED
      BY <2>2 DEF Deliver
  <1>4. /\ offset' = offset + Size /\ rows' = rows /\ ctx' = ctx /\ room' = room /\ history' = history
        /\ retries' = 0 /\ floors' = 0 /\ ~fresh' /\ fresh' \in BOOLEAN
        /\ successes' \subseteq Sizes /\ phase' = IF offset' < rows THEN "slice" ELSE "return"
    BY <1>1 DEF Deliver, batch, ActorInv, TypeOK
  <1>5. TypeOK'
    BY <1>1, <1>2, <1>3, <1>4, SizesAssumption DEF ActorInv, TypeOK
  <1>6. QED
    BY <1>2, <1>4, <1>5 DEF ActorInv

LEMMA OomEffect ==
    ASSUME ActorInv, Oom
    PROVE  /\ Sound(ctl') /\ ctl' \in Controllers /\ ~fresh' /\ fresh' \in BOOLEAN
           /\ ctl'.up # 0 /\ ctl'.up <= Size
           /\ Size = 1 => ctl'.cur = 1
           /\ Size > 1 => ctl'.cur <= Size - 1
           /\ ctl'.low \in {0, ctl.low} /\ (ctl.low >= Size => ctl'.low = 0)
           /\ Size > 1 => ctl'.cur <= Size \div 2 \/ ctl'.cur <= ctl'.low
           /\ history' \in [Contexts -> [size : Sizes \cup {0}, used : BOOLEAN]]
           /\ successes' \subseteq Sizes
           /\ rows' = rows /\ offset' = offset /\ ctx' = ctx /\ out' = out /\ room' = room
           /\ retries' = retries + 1
  <1>1. Size \in Sizes /\ Known(ctl)
    BY SliceSize DEF Oom, ActorInv, Sound
  <1>2. history' \in [Contexts -> [size : Sizes \cup {0}, used : BOOLEAN]]
    <2>1. NoProof \in [size : Sizes \cup {0}, used : BOOLEAN]
      BY DEF NoProof
    <2>2. QED
      BY <2>1 DEF Oom, Disproved, ActorInv, TypeOK
  <1>3. ctl' = ObserveOom(ctl, Size)
    BY DEF Oom
  <1>4. /\ Sound(ctl') /\ ctl'.up # 0 /\ ctl'.up <= Size
        /\ Size = 1 => ctl'.cur = 1
        /\ Size > 1 => ctl'.cur <= Size - 1
        /\ ctl'.low \in {0, ctl.low} /\ (ctl.low >= Size => ctl'.low = 0)
        /\ Size > 1 => ctl'.cur <= Size \div 2 \/ ctl'.cur <= ctl'.low
    BY <1>1, <1>3, OomObserved
  <1>5. QED
    BY <1>2, <1>4 DEF Oom, batch, ActorInv, TypeOK, Sound, Known

LEMMA OomInv ==
    ASSUME ActorInv, Shrink \/ WaitAtFloor \/ GiveUp
    PROVE  ActorInv'
  <1>1. Oom
    BY DEF Shrink, WaitAtFloor, GiveUp
  <1>2. floors' \in 0..MaxFloorRetries /\ phase' \in {"slice", "oom"} /\ phase = "slice"
    BY SizesAssumption DEF Shrink, WaitAtFloor, GiveUp, Oom, ActorInv, TypeOK
  <1>3. TypeOK'
    BY <1>1, <1>2, OomEffect DEF ActorInv, TypeOK
  <1>4. QED
    BY <1>1, <1>2, <1>3, OomEffect DEF ActorInv

LEMMA EndInv ==
    ASSUME ActorInv, Skip \/ Break
    PROVE  ActorInv'
  <1>1. Sound(ctl') /\ ctl' \in Controllers /\ (fresh' => ctl' = NewController)
    BY NewControllerSound DEF ActorInv, Skip, Break, Sound, Known
  <1>2. history' \in [Contexts -> [size : Sizes \cup {0}, used : BOOLEAN]]
    <2>1. NoProof \in [size : Sizes \cup {0}, used : BOOLEAN]
      BY DEF NoProof
    <2>2. QED
      BY <2>1 DEF ActorInv, TypeOK, Skip, Break
  <1>3. out' \in Seq(Sizes) /\ phase' \in {"idle", "error"}
    <2>1. out' = << >> /\ phase' \in {"idle", "error"}
      BY DEF Skip, Break, NoBatch
    <2>2. QED
      BY <2>1
  <1>4. TypeOK'
    BY <1>1, <1>2, <1>3, SizesAssumption DEF ActorInv, TypeOK, Skip, Break, NoBatch
  <1>5. QED
    BY <1>1, <1>3, <1>4 DEF ActorInv

LEMMA ReturnInv ==
    ASSUME ActorInv, Return
    PROVE  ActorInv'
  <1>1. successes \subseteq Sizes /\ history \in [Contexts -> [size : Sizes \cup {0}, used : BOOLEAN]]
    BY DEF ActorInv, TypeOK
  <1>2. PICK same \in BOOLEAN :
            history' =
                IF ctx = None \/ ~same \/ successes = {} THEN history
                ELSE LET largest == CHOOSE b \in successes : \A d \in successes : d <= b
                     IN  IF largest < history[ctx].size THEN history
                         ELSE [history EXCEPT ![ctx] = [size |-> largest, used |-> FALSE]]
    BY DEF Return
  <1>3. successes # {} => (CHOOSE b \in successes : \A d \in successes : d <= b) \in successes
    BY <1>1, LargestSize
  <1>4. history' \in [Contexts -> [size : Sizes \cup {0}, used : BOOLEAN]]
    BY <1>1, <1>2, <1>3
  <1>5. TypeOK'
    BY <1>4 DEF Return, batch, ActorInv, TypeOK
  <1>6. QED
    BY <1>5 DEF Return, batch, ActorInv

LEMMA ActorStep == ActorInv /\ [Next]_vars => ActorInv'
  <1> SUFFICES ASSUME ActorInv, [Next]_vars PROVE ActorInv'
    OBVIOUS
  <1>1. ASSUME NEW c \in Contexts \cup {None}, NEW n \in Sizes, Call(c, n) PROVE ActorInv'
    BY <1>1, CallInv
  <1>2. CASE Deliver
    BY <1>2, DeliverInv
  <1>3. CASE Shrink \/ WaitAtFloor \/ GiveUp
    BY <1>3, OomInv
  <1>4. CASE Skip \/ Break
    BY <1>4, EndInv
  <1>5. CASE Return
    BY <1>5, ReturnInv
  <1>6. CASE UNCHANGED vars
    BY <1>6 DEF ActorInv, TypeOK, vars, batch
  <1>7. QED
    BY <1>1, <1>2, <1>3, <1>4, <1>5, <1>6 DEF Next

LEMMA ActorAlways == Spec => []ActorInv
  BY ActorInit, ActorStep, PTL DEF Spec

(* TypeCorrect: whatever memory does, sizes stay between 1 and the batch   *)
(* size of the operator, positions within the outer batch and counters of  *)
(* attempts within their limits (OOMSafeAdaptiveMapper.__call__,           *)
(* AdaptiveBatchController).                                               *)
THEOREM TypeCorrect == Spec => []TypeOK
  <1>1. ActorInv => TypeOK
    BY DEF ActorInv
  <1>2. QED
    BY <1>1, ActorAlways, PTL

(* BoundsAlwaysConsistent: the controller never believes that a size fits  *)
(* that it has seen fail, never proposes one, and limits and spaces its    *)
(* probes, for every interleaving of successes, OOMs, hints and a prior    *)
(* (observe_success, observe_oom, seed_bounds).                            *)
THEOREM BoundsAlwaysConsistent == Spec => []BoundsConsistent
  <1>1. ActorInv => BoundsConsistent
    BY DEF ActorInv, Sound, Known, BoundsConsistent
  <1>2. QED
    BY <1>1, ActorAlways, PTL

-----------------------------------------------------------------------------
(* What OomEffect means for the size of the next attempt.                  *)
LEMMA OomShrinks ==
    ASSUME ActorInv, Oom
    PROVE  /\ Size' \in Int /\ Size \in Int /\ Size >= 1 /\ Size' >= 1 /\ Size' <= ctl'.cur
           /\ Size' < Size \/ (Size = 1 /\ Size' = 1)
  <1>1. /\ Size \in 1..(rows - offset) /\ rows - offset \in 1..MaxBatch
    BY SliceSize DEF Oom
  <1>2. Size' = NextBatchSize(ctl', rows - offset)
    BY OomEffect DEF Size
  <1>3. Size' \in 1..(rows - offset) /\ Size' <= ctl'.cur
    BY <1>1, <1>2, OomEffect, SizeBounds
  <1>4. ctl'.cur \in Int
    BY OomEffect DEF Controllers, Sizes
  <1>5. QED
    BY <1>1, <1>3, <1>4, OomEffect

(* RetriesAlwaysShrink: after an OOM the same rows are tried in a smaller  *)
(* slice or, at the floor, one at a time again, whatever the bounds and    *)
(* the proofs say (observe_oom, next_batch_size).                          *)
THEOREM RetriesAlwaysShrink == Spec => RetriesShrink
  <1> DEFINE A == retries' > retries => Size' < Size \/ (Size = MinBatch /\ Size' = MinBatch)
  <1>1. ActorInv /\ [Next]_vars => [A]_vars
    <2> SUFFICES ASSUME ActorInv, Next PROVE A
      BY DEF vars
    <2>1. CASE Shrink \/ WaitAtFloor \/ GiveUp
      BY <2>1, OomShrinks DEF Shrink, WaitAtFloor, GiveUp, MinBatch
    <2>2. CASE ~(Shrink \/ WaitAtFloor \/ GiveUp)
      <3>1. retries' = 0 \/ retries' = retries
        BY <2>2 DEF Next, Call, Deliver, Skip, Break, NoBatch, Return
      <3>2. retries \in Nat
        BY DEF ActorInv, TypeOK
      <3>3. QED
        BY <3>1, <3>2
    <2>3. QED
      BY <2>1, <2>2
  <1>2. QED
    BY <1>1, ActorAlways, PTL DEF Spec, RetriesShrink
-----------------------------------------------------------------------------
(* What is remembered of a context.                                        *)

LEMMA ProofInit == Init => ProofReal
    BY DEF Init, ProofReal, NoProof

LEMMA ProofStep == ActorInv /\ ProofReal /\ [Next]_vars => ProofReal'
  <1> SUFFICES ASSUME ActorInv, ProofReal, [Next]_vars PROVE ProofReal'
    OBVIOUS
  <1> USE DEF ProofReal
  <1>0. /\ history \in [Contexts -> [size : Sizes \cup {0}, used : BOOLEAN]]
        /\ NoProof.size = 0 /\ successes \subseteq Sizes
    BY DEF ActorInv, TypeOK, NoProof
  <1>1. ASSUME NEW c \in Contexts \cup {None}, NEW n \in Sizes, Call(c, n) PROVE ProofReal'
    <2>1. PICK live \in SUBSET {d \in Contexts : history[d] # NoProof} :
              LET kept == [d \in Contexts |-> IF d \in live THEN history[d] ELSE NoProof]
              IN  history' = kept \/ (c # None /\ history' = [kept EXCEPT ![c].used = TRUE])
      BY <1>1 DEF Call
    <2> DEFINE kept == [d \in Contexts |-> IF d \in live THEN history[d] ELSE NoProof]
    <2>2. kept \in [Contexts -> [size : Sizes \cup {0}, used : BOOLEAN]]
      BY <1>0 DEF NoProof
    <2>3. \A d \in Contexts : kept[d].size # 0 => kept[d].size = history[d].size
      BY <1>0
    <2>4. \A d \in Contexts : history'[d].size = kept[d].size
      <3> HIDE DEF kept
      <3>1. history' = kept \/ (c # None /\ history' = [kept EXCEPT ![c].used = TRUE])
        BY <2>1 DEF kept
      <3>2. QED
        BY <2>2, <3>1
    <2>5. room' = room /\ successes' = {}
      BY <1>1 DEF Call
    <2> HIDE DEF kept
    <2>6. QED
      BY <2>3, <2>4, <2>5
  <1>2. CASE Deliver
    <2>1. /\ room' = room /\ ctx' = ctx /\ history' = history
          /\ successes' \subseteq successes \cup {Size} /\ \E r \in room[ctx] : Size <= r
      BY <1>2 DEF Deliver, Fits, batch
    <2>2. QED
      BY <2>1
  <1>3. CASE Shrink \/ WaitAtFloor \/ GiveUp
    <2>1. /\ room' = room /\ ctx' = ctx /\ successes' \subseteq successes
          /\ history' = history \/ (ctx # None /\ history' = [history EXCEPT ![ctx] = NoProof])
      BY <1>3 DEF Shrink, WaitAtFloor, GiveUp, Oom, batch, Disproved
    <2>2. QED
      BY <1>0, <2>1
  <1>4. CASE Skip \/ Break
    <2>1. /\ room' = room /\ ctx' = ctx /\ successes' = {}
          /\ history' = history \/ history' = [c \in Contexts |-> NoProof]
      BY <1>4 DEF Skip, Break, NoBatch
    <2>2. QED
      BY <1>0, <2>1
  <1>5. CASE Return
    <2> DEFINE largest == CHOOSE b \in successes : \A d \in successes : d <= b
    <2>1. /\ room' = room /\ ctx' = ctx /\ successes' = {}
          /\ \/ history' = history
             \/ /\ ctx # None /\ successes # {}
                /\ history' = [history EXCEPT ![ctx] = [size |-> largest, used |-> FALSE]]
      BY <1>5 DEF Return, batch
    <2>2. successes # {} => largest \in successes
      BY <1>0, LargestSize
    <2> HIDE DEF largest
    <2>3. QED
      BY <1>0, <2>1, <2>2
  <1>6. CASE UNCHANGED vars
    BY <1>6 DEF vars, batch
  <1>7. QED
    BY <1>1, <1>2, <1>3, <1>4, <1>5, <1>6 DEF Next

(* ProofAlwaysReal: a hint only ever comes from a size its own context has *)
(* had, and still has, room for, although one controller serves all        *)
(* contexts in turn (_publish_recovery, _observe).                         *)
THEOREM ProofAlwaysReal == Spec => []ProofReal
    BY ActorAlways, ProofInit, ProofStep, PTL DEF Spec

-----------------------------------------------------------------------------
(* The rows of the outer batch.                                            *)

LEMMA SlicesJoin ==
    ASSUME NEW from \in Nat, NEW size \in Nat, from + size <= MaxBatch
    PROVE  Slice(0, from) \o Slice(from, size) = Slice(0, from + size)
  <1>1. /\ Slice(0, from) \in Seq(Sizes) /\ Len(Slice(0, from)) = from
        /\ \A i \in 1..from : Slice(0, from)[i] = i
    BY SliceType, SizesAssumption, SMTT(30)
  <1>2. /\ Slice(from, size) \in Seq(Sizes) /\ Len(Slice(from, size)) = size
        /\ \A i \in 1..size : Slice(from, size)[i] = from + i
    BY SliceType
  <1>3. /\ Slice(0, from + size) \in Seq(Sizes) /\ Len(Slice(0, from + size)) = from + size
        /\ \A i \in 1..(from + size) : Slice(0, from + size)[i] = i
    BY SliceType
  <1> DEFINE joined == Slice(0, from) \o Slice(from, size)
  <1>4. /\ joined \in Seq(Sizes) /\ Len(joined) = from + size
        /\ \A i \in 1..(from + size) : joined[i] =
              IF i <= from THEN Slice(0, from)[i] ELSE Slice(from, size)[i - from]
    <2>1. \A s, t \in Seq(Sizes) :
              /\ s \o t \in Seq(Sizes) /\ Len(s \o t) = Len(s) + Len(t)
              /\ \A i \in 1..(Len(s) + Len(t)) :
                    (s \o t)[i] = IF i <= Len(s) THEN s[i] ELSE t[i - Len(s)]
      BY ConcatProperties
    <2>2. /\ joined \in Seq(Sizes)
          /\ Len(joined) = Len(Slice(0, from)) + Len(Slice(from, size))
          /\ \A i \in 1..(Len(Slice(0, from)) + Len(Slice(from, size))) :
                joined[i] = IF i <= Len(Slice(0, from)) THEN Slice(0, from)[i]
                            ELSE Slice(from, size)[i - Len(Slice(0, from))]
      BY <1>1, <1>2, <2>1, Zenon
    <2> HIDE DEF joined
    <2>3. QED
      BY <1>1, <1>2, <2>2
  <1>5. ASSUME NEW i \in 1..(from + size) PROVE joined[i] = Slice(0, from + size)[i]
    <2>1. CASE i <= from
      BY <1>1, <1>3, <1>4, <2>1
    <2>2. CASE ~(i <= from)
      <3>1. i - from \in 1..size /\ from + (i - from) = i
        BY <2>2
      <3>2. QED
        BY <1>2, <1>3, <1>4, <2>2, <3>1
    <2>3. QED
      BY <2>1, <2>2
  <1> HIDE DEF joined
  <1>6. joined = Slice(0, from + size)
    BY <1>3, <1>4, <1>5, SeqEqual
  <1>7. QED
    BY <1>6 DEF joined

LEMMA OrderInit == Init => InOrder
  <1>1. Slice(0, 0) = << >>
    BY DEF Slice
  <1>2. QED
    BY <1>1 DEF Init, InOrder

LEMMA OrderStep == ActorInv /\ InOrder /\ [Next]_vars => InOrder'
  <1> SUFFICES ASSUME ActorInv, InOrder, [Next]_vars PROVE InOrder'
    OBVIOUS
  <1>0. Slice(0, 0) = << >>
    BY DEF Slice
  <1>1. ASSUME NEW c \in Contexts \cup {None}, NEW n \in Sizes, Call(c, n) PROVE InOrder'
    BY <1>0, <1>1 DEF Call, InOrder
  <1>2. CASE Deliver
    <2>1. /\ Size \in Nat /\ offset \in Nat /\ rows \in Nat /\ offset + Size <= rows
          /\ offset + Size <= MaxBatch
      BY <1>2, SliceSize, SizesAssumption DEF Deliver, ActorInv, TypeOK
    <2>2. out' = Slice(0, offset')
      BY <1>2, <2>1, SlicesJoin DEF Deliver, InOrder
    <2>3. phase' \in {"idle", "return"} => offset' = rows'
      BY <1>2, <2>1 DEF Deliver, batch
    <2>4. QED
      BY <2>2, <2>3 DEF InOrder
  <1>3. CASE Shrink \/ WaitAtFloor \/ GiveUp
    BY <1>3 DEF Shrink, WaitAtFloor, GiveUp, Oom, InOrder, batch
  <1>4. CASE Skip \/ Break
    BY <1>0, <1>4 DEF Skip, Break, NoBatch, InOrder
  <1>5. CASE Return
    BY <1>5 DEF Return, InOrder, batch
  <1>6. CASE UNCHANGED vars
    BY <1>6 DEF vars, batch, InOrder
  <1>7. QED
    BY <1>1, <1>2, <1>3, <1>4, <1>5, <1>6 DEF Next

(* OutputAlwaysInOrder: whatever is cut, retried and shrunk, no row of an  *)
(* outer batch is delivered twice, out of order or not at all, for any     *)
(* settings (OOMSafeAdaptiveMapper.__call__).                              *)
THEOREM OutputAlwaysInOrder == Spec => []InOrder
    BY ActorAlways, OrderInit, OrderStep, PTL DEF Spec

-----------------------------------------------------------------------------
(* Retries.                                                                *)

Spare(spare) ==
    /\ spare \in [0..MaxRetriesPerSlice -> 0..(MaxBatch - 1)]
    /\ spare[0] = MaxBatch - 1 /\ spare[MaxRetriesPerSlice] = 0
    /\ \A n \in 1..MaxRetriesPerSlice : spare[n] = spare[n - 1] \div 2

(* Every retry halves what is left above one row, but for one: when a size *)
(* that has fitted before is tried instead.  After it, the proof is gone   *)
(* (low is 0) or equal to the size at risk.                                *)
RetryBudget(spare) ==
    phase = "slice" =>
        \/ Size = MinBatch
        \/ /\ retries <= MaxRetriesPerSlice
           /\ IF retries > 0 /\ (ctl.low = 0 \/ ctl.low >= Size)
              THEN Size <= spare[retries - 1] ELSE Size - 1 <= spare[retries]

LEMMA FirstAttempt ==
    ASSUME NEW spare, Spare(spare), ActorInv', phase' = "slice", retries' = 0
    PROVE  RetryBudget(spare)'
  <1>1. rows' \in 0..MaxBatch /\ offset' \in 0..rows' /\ offset' < rows' /\ Sound(ctl')
    BY DEF ActorInv, TypeOK
  <1>2. rows' - offset' \in 1..MaxBatch
    <2>1. \A r \in 0..MaxBatch : \A o \in 0..r : o < r => r - o \in 1..MaxBatch
      BY SizesAssumption
    <2>2. QED
      BY <1>1, <2>1, Zenon
  <1>3. Size' \in 1..(rows' - offset')
    BY <1>1, <1>2, SizeBounds DEF Size
  <1>4. Size' - 1 <= spare[0]
    <2>1. \A l \in 1..MaxBatch : \A b \in 1..l : b - 1 <= MaxBatch - 1
      BY SizesAssumption
    <2>2. Size' - 1 <= MaxBatch - 1
      BY <1>2, <1>3, <2>1, Zenon
    <2>3. QED
      BY <2>2 DEF Spare
  <1>5. ~(retries' > 0) /\ retries' <= MaxRetriesPerSlice
    BY SizesAssumption
  <1>6. QED
    BY <1>4, <1>5 DEF RetryBudget

LEMMA NextAttempt ==
    ASSUME NEW spare, Spare(spare), ActorInv, RetryBudget(spare), Oom
    PROVE  /\ retries >= MaxRetriesPerSlice => Size = MinBatch
           /\ RetryBudget(spare)'
  <1>1. /\ Size \in 1..MaxBatch /\ retries \in Nat /\ MaxRetriesPerSlice \in Nat
        /\ ctl.low \in Nat /\ ctl'.low \in Nat /\ ctl'.cur \in Nat
    <2>1. Size \in Sizes /\ ctl' \in Controllers
      BY SliceSize, OomEffect DEF Oom
    <2>2. ctl \in Controllers /\ retries \in Nat
      BY DEF ActorInv, TypeOK
    <2>3. QED
      BY <2>1, <2>2, SizesAssumption DEF Sizes, Controllers
  <1>2. /\ Size' \in Int /\ Size' >= 1 /\ Size' <= ctl'.cur
        /\ Size' < Size \/ (Size = 1 /\ Size' = 1)
    BY OomShrinks
  <1>3. CASE Size = 1
    BY <1>2, <1>3 DEF RetryBudget, MinBatch
  <1>4. CASE Size # 1
    <2>1. /\ retries <= MaxRetriesPerSlice
          /\ IF retries > 0 /\ (ctl.low = 0 \/ ctl.low >= Size)
             THEN Size <= spare[retries - 1] ELSE Size - 1 <= spare[retries]
      BY <1>4 DEF RetryBudget, Oom, MinBatch
    <2>2. /\ \A n \in 0..MaxRetriesPerSlice : spare[n] \in Nat
          /\ \A n \in 1..MaxRetriesPerSlice : spare[n] = spare[n - 1] \div 2
          /\ spare[MaxRetriesPerSlice] = 0 /\ spare[0] = MaxBatch - 1
      BY SizesAssumption DEF Spare
    <2>3. retries < MaxRetriesPerSlice
      <3>1. SUFFICES ASSUME retries = MaxRetriesPerSlice PROVE FALSE
        BY <1>1, <2>1
      <3>2. CASE retries = 0
        BY <1>1, <1>4, <2>1, <2>2, <3>1, <3>2
      <3>3. CASE retries > 0
        <4>1. spare[retries] = spare[retries - 1] \div 2 /\ spare[retries] = 0
              /\ spare[retries - 1] \in Nat
          BY <1>1, <2>2, <3>1, <3>3
        <4>2. spare[retries - 1] <= 1
          BY <4>1
        <4>3. QED
          BY <1>1, <1>4, <2>1, <4>1, <4>2
      <3>4. QED
        BY <1>1, <3>2, <3>3
    <2>4. /\ spare[retries] \in Nat /\ spare[retries + 1] \in Nat
          /\ spare[retries + 1] = spare[retries] \div 2
      BY <1>1, <2>2, <2>3
    <2>5. Size \div 2 \in Nat /\ Size \div 2 <= Size - 1 /\ (Size \div 2) - 1 <= (Size - 1) \div 2
      BY <1>1, <1>4
    <2>6. ctl'.cur <= Size \div 2 => Size' <= spare[retries]
      <3>1. CASE retries > 0 /\ (ctl.low = 0 \/ ctl.low >= Size)
        <4>1. /\ spare[retries - 1] \in Nat /\ spare[retries] = spare[retries - 1] \div 2
          BY <1>1, <2>2, <2>3, <3>1
        <4>2. Size \div 2 <= spare[retries]
          BY <1>1, <2>1, <3>1, <4>1
        <4>3. QED
          BY <1>1, <1>2, <2>4, <2>5, <4>2
      <3>2. CASE ~(retries > 0 /\ (ctl.low = 0 \/ ctl.low >= Size))
        BY <1>1, <1>2, <2>1, <2>4, <2>5, <3>2
      <3>3. QED
        BY <3>1, <3>2
    <2>7. /\ ctl'.low \in {0, ctl.low} /\ (ctl.low >= Size => ctl'.low = 0)
          /\ ctl'.cur <= Size \div 2 \/ ctl'.cur <= ctl'.low
      BY <1>1, <1>4, OomEffect
    <2>8. ctl'.low # 0 => Size - 1 <= spare[retries]
      BY <1>1, <2>1, <2>7
    <2>9. (ctl'.low = 0 \/ ctl'.low >= Size') => Size' <= spare[retries]
      BY <1>1, <1>2, <2>4, <2>6, <2>7, <2>8
    <2>10. ~(ctl'.low = 0 \/ ctl'.low >= Size') => Size' - 1 <= spare[retries + 1]
      <3> SUFFICES ASSUME ctl'.low # 0, ~(ctl'.low >= Size')
                   PROVE  Size' - 1 <= spare[retries + 1]
        OBVIOUS
      <3>1. Size' <= Size \div 2
        BY <1>1, <1>2, <2>5, <2>7
      <3>2. (Size - 1) \div 2 <= spare[retries] \div 2
        BY <1>1, <2>4, <2>8
      <3>3. QED
        BY <1>1, <1>2, <2>4, <2>5, <3>1, <3>2
    <2>11. retries' = retries + 1
      BY OomEffect
    <2>12. RetryBudget(spare)'
      <3>1. retries' > 0 /\ retries' - 1 = retries /\ retries' <= MaxRetriesPerSlice
        BY <1>1, <2>3, <2>11
      <3>2. QED
        BY <2>9, <2>10, <2>11, <3>1 DEF RetryBudget
    <2>13. QED
      BY <1>1, <2>3, <2>12
  <1>5. QED
    BY <1>3, <1>4

LEMMA RetryInit == ASSUME NEW spare PROVE Init => RetryBudget(spare) /\ DiesAtFloor
    BY DEF Init, RetryBudget, DiesAtFloor

LEMMA RetryStep ==
    ASSUME NEW spare, Spare(spare)
    PROVE  ActorInv /\ RetryBudget(spare) /\ DiesAtFloor /\ [Next]_vars
              => RetryBudget(spare)' /\ DiesAtFloor'
  <1> SUFFICES ASSUME ActorInv, RetryBudget(spare), DiesAtFloor, [Next]_vars
               PROVE  RetryBudget(spare)' /\ DiesAtFloor'
    OBVIOUS
  <1>0. ActorInv'
    BY ActorStep
  <1>1. ASSUME NEW c \in Contexts \cup {None}, NEW n \in Sizes, Call(c, n)
        PROVE  RetryBudget(spare)' /\ DiesAtFloor'
    <2>1. phase' = "slice" /\ retries' = 0
      BY <1>1 DEF Call
    <2>2. QED
      BY <1>0, <2>1, FirstAttempt DEF DiesAtFloor
  <1>2. CASE Deliver
    <2>1. phase' # "oom" /\ retries' = 0
      BY <1>2 DEF Deliver
    <2>2. CASE phase' = "slice"
      BY <1>0, <2>1, <2>2, FirstAttempt DEF DiesAtFloor
    <2>3. CASE phase' # "slice"
      BY <2>1, <2>3 DEF DiesAtFloor, RetryBudget
    <2>4. QED
      BY <2>2, <2>3
  <1>3. CASE Shrink \/ WaitAtFloor
    <2>1. Oom /\ phase' = "slice"
      BY <1>3 DEF Shrink, WaitAtFloor, Oom
    <2>2. QED
      BY <2>1, NextAttempt DEF DiesAtFloor
  <1>4. CASE GiveUp
    <2>1. Oom /\ phase' = "oom" /\ floors' = floors
          /\ IF Size = MinBatch THEN floors = MaxFloorRetries ELSE retries >= MaxRetriesPerSlice
      BY <1>4 DEF GiveUp
    <2>2. Size = MinBatch /\ floors' = MaxFloorRetries
      BY <2>1, NextAttempt
    <2>3. Size' = MinBatch
      BY <2>1, <2>2, OomShrinks DEF MinBatch
    <2>4. QED
      BY <2>1, <2>2, <2>3 DEF RetryBudget, DiesAtFloor
  <1>5. CASE Skip \/ Break \/ Return
    <2>1. phase' \in {"idle", "error"}
      BY <1>5 DEF Skip, Break, Return
    <2>2. QED
      BY <2>1 DEF RetryBudget, DiesAtFloor
  <1>6. CASE UNCHANGED vars
    BY <1>6 DEF vars, batch, RetryBudget, DiesAtFloor, Size
  <1>7. QED
    BY <1>1, <1>2, <1>3, <1>4, <1>5, <1>6 DEF Next

(* NothingLost: with a retry for every halving of the outer batch, as the  *)
(* defaults have, a call ends with all its rows in order or dies of a      *)
(* single row that did not fit: proof of a larger size, which the next     *)
(* attempt then takes instead of half, costs at most one retry             *)
(* (OOMSafeAdaptiveMapper.__call__, observe_oom).                          *)
THEOREM NothingLost == RetriesSuffice => (Spec => []Lossless)
  <1> SUFFICES ASSUME RetriesSuffice PROVE Spec => []Lossless
    OBVIOUS
  <1>1. PICK spare : Spare(spare)
    BY DEF RetriesSuffice, Spare
  <1>2. Spec => [](RetryBudget(spare) /\ DiesAtFloor)
    BY <1>1, ActorAlways, RetryInit, RetryStep, PTL DEF Spec
  <1>3. QED
    BY <1>2, OutputAlwaysInOrder, PTL DEF Lossless

-----------------------------------------------------------------------------
(* Facts about finite sets of sizes.                                       *)

(* A finite set that is totally ordered by R has a member above all.       *)
LEMMA OrderedHasTop ==
    ASSUME NEW S, IsFiniteSet(S), S # {}, NEW R,
           \A a, b \in S : <<a, b>> \in R \/ <<b, a>> \in R,
           \A a, b, c \in S : <<a, b>> \in R /\ <<b, c>> \in R => <<a, c>> \in R
    PROVE  \E b \in S : \A d \in S : <<d, b>> \in R
  <1> DEFINE above(b) == {d \in S : <<b, d>> \in R}
             T == {above(b) : b \in S}
  <1>1. T \subseteq FiniteSubsetsOf(S) /\ T # {}
    <2>1. \A b \in S : above(b) \in SUBSET S
      OBVIOUS
    <2>2. \A b \in S : above(b) \in FiniteSubsetsOf(S)
      BY <2>1, FS_FiniteSubsetsOfFinite
    <2>3. QED
      BY <2>2
  <1>2. IsWellFoundedOn(StrictSubsetOrdering(S), FiniteSubsetsOf(S))
    BY FS_StrictSubsetOrderingWellFounded
  <1>3. PICK U \in T : \A V \in T : ~(<<V, U>> \in StrictSubsetOrdering(S))
    <2> HIDE DEF T
    <2> QED BY <1>1, <1>2, WFMin
  <1>4. PICK b \in S : U = above(b)
    BY <1>3
  <1>5. ASSUME NEW d \in S, <<d, b>> \notin R PROVE FALSE
    <2>1. above(d) \in T /\ <<above(d), U>> \notin StrictSubsetOrdering(S)
      BY <1>3
    <2>2. <<b, d>> \in R
      BY <1>5
    <2>3. above(d) \subseteq above(b)
      BY <2>2
    <2>4. b \in above(b) /\ b \notin above(d)
      BY <1>5
    <2>5. above(d) \in SUBSET S /\ above(b) \in SUBSET S
      OBVIOUS
    <2>6. above(d) # above(b)
      BY <2>4
    <2> HIDE DEF above, T
    <2>7. QED
      BY <1>4, <2>1, <2>3, <2>5, <2>6 DEF StrictSubsetOrdering
  <1>6. QED
    BY <1>5

LEMMA ExtremeSizes ==
    ASSUME NEW S \in SUBSET BatchSizes, S # {}
    PROVE  Least(S) \in S /\ Greatest(S) \in S
  <1>1. S \subseteq Int
    BY DEF BatchSizes
  <1>2. IsFiniteSet(S)
    <2>1. IsFiniteSet(BatchSizes)
      BY FS_Interval, StoreAssumption DEF BatchSizes
    <2>2. QED
      BY <2>1, FS_Subset
  <1> DEFINE up   == {p \in S \X S : p[1] <= p[2]}
             down == {p \in S \X S : p[2] <= p[1]}
  <1>3. \A a, b \in S : (<<a, b>> \in up <=> a <= b) /\ (<<a, b>> \in down <=> b <= a)
    OBVIOUS
  <1>4. \A a, b \in S : a <= b \/ b <= a
    BY <1>1
  <1>5. \A a, b, c \in S : a <= b /\ b <= c => a <= c
    BY <1>1
  <1> HIDE DEF up, down
  <1>6. \E b \in S : \A d \in S : <<d, b>> \in up
    <2>1. \A a, b \in S : <<a, b>> \in up \/ <<b, a>> \in up
      BY <1>3, <1>4, Zenon
    <2>2. \A a, b, c \in S : <<a, b>> \in up /\ <<b, c>> \in up => <<a, c>> \in up
      BY <1>3, <1>5, Zenon
    <2>3. QED
      BY <1>2, <2>1, <2>2, OrderedHasTop
  <1>7. \E b \in S : \A d \in S : <<d, b>> \in down
    <2>1. \A a, b \in S : <<a, b>> \in down \/ <<b, a>> \in down
      BY <1>3, <1>4, Zenon
    <2>2. \A a, b, c \in S : <<a, b>> \in down /\ <<b, c>> \in down => <<a, c>> \in down
      BY <1>3, <1>5, Zenon
    <2>3. QED
      BY <1>2, <2>1, <2>2, OrderedHasTop
  <1>8. (\E b \in S : \A d \in S : d <= b) /\ (\E b \in S : \A d \in S : b <= d)
    BY <1>3, <1>6, <1>7, Zenon
  <1>9. QED
    BY <1>8, Zenon DEF Least, Greatest

(* What a view names is in the evidence it is a view of.                   *)
LEMMA ViewIsEvidence ==
    ASSUME NEW e
    PROVE  /\ View(e).safe # 0 => View(e).safe \in Live(e, "successes")
           /\ View(e).up # 0 => View(e).up \in Live(e, "ooms")
  <1> DEFINE up   == IF Live(e, "ooms") = {} THEN 0 ELSE Least(Live(e, "ooms"))
             safe == {b \in Live(e, "successes") : up = 0 \/ b < up}
  <1>1. Live(e, "ooms") \in SUBSET BatchSizes /\ Live(e, "successes") \in SUBSET BatchSizes
    BY DEF Live
  <1>2. safe \in SUBSET BatchSizes /\ safe \subseteq Live(e, "successes")
    BY <1>1
  <1>3. up # 0 => up \in Live(e, "ooms")
    BY <1>1, ExtremeSizes
  <1>4. safe # {} => Greatest(safe) \in safe
    <2> HIDE DEF safe
    <2> QED BY <1>2, ExtremeSizes
  <1>5. View(e) = IF up = 1 THEN NoPrior
                  ELSE [safe |-> IF safe = {} THEN 0 ELSE Greatest(safe), up |-> up]
    BY Zenon DEF View
  <1> HIDE DEF up, safe
  <1>6. CASE up = 1
    BY <1>5, <1>6 DEF NoPrior
  <1>7. CASE up # 1
    BY <1>2, <1>3, <1>4, <1>5, <1>7
  <1>8. QED
    BY <1>6, <1>7

-----------------------------------------------------------------------------
(* What the state holds.                                                   *)

Ages  == [Kinds -> [BatchSizes -> 0..Ttl]]
Calls == [actor : Actors, method : {"read", "publish"}, key : Keys,
          obs : [Kinds -> SUBSET BatchSizes], waiting : BOOLEAN]

StoreTypeOK ==
    /\ records \subseteq Keys
    /\ ages \in [Keys -> Ages] /\ stamp \in [Keys -> Ages]
    /\ calls \subseteq Calls
    /\ context \in [Actors -> Keys \cup {NoContext}]
    /\ DOMAIN reply = Actors

(* The store holds what was received, but for what it let go and what has  *)
(* expired.                                                                *)
StoreIsReceipts ==
    \A k \in Keys, kind \in Kinds, b \in BatchSizes :
        ages[k][kind][b] = IF <<k, <<kind, b>>>> \in dropped THEN Ttl ELSE stamp[k][kind][b]

(* What is on its way to the store was delivered.                          *)
SentDelivered ==
    \A c \in calls : c.method = "publish" =>
        \A kind \in Kinds, b \in BatchSizes : b \in c.obs[kind] => <<c.key, <<kind, b>>>> \in seen

StoreInv == StoreTypeOK /\ StoreIsReceipts /\ SentDelivered /\ OnlyDelivered

LEMMA AgesBasics ==
    /\ Ttl \in 0..Ttl /\ ~(Ttl < Ttl) /\ 0 < Ttl /\ 0 \in 0..Ttl
    /\ NoEvidence \in Ages
    /\ \A e \in Ages : Older(e) \in Ages /\ \A k \in Kinds : Truncated(e) \in Ages
    /\ \A e \in Ages, o \in [Kinds -> SUBSET BatchSizes] : Updated(e, o) \in Ages
  <1>1. Ttl \in Nat \ {0}
    BY StoreAssumption
  <1>2. Ttl \in 0..Ttl /\ ~(Ttl < Ttl) /\ 0 < Ttl /\ 0 \in 0..Ttl
    BY <1>1
  <1>3. \A n \in 0..Ttl : n < Ttl => n + 1 \in 0..Ttl
    BY <1>1
  <1>4. QED
    BY <1>2, <1>3 DEF NoEvidence, Ages, Older, Truncated, Updated

LEMMA ItemsMembers ==
    ASSUME NEW k, NEW e, NEW l, NEW kind \in Kinds, NEW b \in BatchSizes
    PROVE  <<l, <<kind, b>>>> \in Items(k, e) <=> l = k /\ e[kind][b] < Ttl
  BY DEF Items

LEMMA StoreInit == ProfilesInit => StoreInv
  <1> SUFFICES ASSUME ProfilesInit PROVE StoreInv
    OBVIOUS
  <1>1. StoreTypeOK
    BY AgesBasics DEF ProfilesInit, StoreTypeOK
  <1>2. StoreIsReceipts
    BY DEF ProfilesInit, StoreIsReceipts, NoEvidence
  <1>3. OnlyDelivered
    <2>1. \A k \in Keys : Items(k, ages[k]) = {}
      BY AgesBasics DEF ProfilesInit, Items, NoEvidence
    <2>2. QED
      BY <2>1 DEF ProfilesInit, OnlyDelivered
  <1>4. QED
    BY <1>1, <1>2, <1>3 DEF StoreInv, SentDelivered, ProfilesInit

LEMMA StoreUnchanged ==
    ASSUME StoreInv, UNCHANGED <<records, ages, stamp, dropped, audit>>,
           DOMAIN reply' = Actors, seen \subseteq seen', calls' \subseteq Calls,
           context' \in [Actors -> Keys \cup {NoContext}],
           \A c \in calls' : c.method = "publish" =>
              \A kind \in Kinds, b \in BatchSizes : b \in c.obs[kind] => <<c.key, <<kind, b>>>> \in seen'
    PROVE  StoreInv'
  <1>1. StoreTypeOK' /\ StoreIsReceipts' /\ SentDelivered'
    BY DEF StoreInv, StoreTypeOK, StoreIsReceipts, SentDelivered
  <1>2. OnlyDelivered'
    BY DEF StoreInv, OnlyDelivered
  <1>3. QED
    BY <1>1, <1>2 DEF StoreInv

LEMMA AbandonCalls ==
    ASSUME calls \subseteq Calls, NEW a, NEW d \in Abandon(a)
    PROVE  /\ d \in Calls
           /\ \E c \in calls : d.method = c.method /\ d.key = c.key /\ d.obs = c.obs
  <1>1. PICK c \in calls : d = [c EXCEPT !.waiting = @ /\ c.actor # a]
    BY DEF Abandon
  <1>2. c \in Calls
    BY <1>1
  <1>3. (c.waiting /\ c.actor # a) \in BOOLEAN
    OBVIOUS
  <1>4. d \in Calls
    BY <1>1, <1>2, <1>3 DEF Calls
  <1>5. d.method = c.method /\ d.key = c.key /\ d.obs = c.obs
    BY <1>1, <1>2 DEF Calls
  <1>6. QED
    BY <1>4, <1>5

LEMMA AbandonInv ==
    ASSUME StoreInv, NEW a \in Actors, calls' = Abandon(a),
           UNCHANGED <<records, ages, stamp, dropped, audit, seen>>,
           DOMAIN reply' = Actors, context' \in [Actors -> Keys \cup {NoContext}]
    PROVE  StoreInv'
  <1>1. \A d \in calls' : d \in Calls /\ \E c \in calls : d.method = c.method /\ d.key = c.key /\ d.obs = c.obs
    BY AbandonCalls DEF StoreInv, StoreTypeOK
  <1>2. calls' \subseteq Calls
    BY <1>1
  <1>3. \A d \in calls' : d.method = "publish" =>
          \A kind \in Kinds, b \in BatchSizes : b \in d.obs[kind] => <<d.key, <<kind, b>>>> \in seen'
    BY <1>1 DEF StoreInv, SentDelivered
  <1>4. QED
    BY <1>2, <1>3, StoreUnchanged

LEMMA BeginInv ==
    ASSUME StoreInv, NEW a \in Actors, NEW c \in Keys \cup {NoContext}, Begin(a, c)
    PROVE  StoreInv'
  <1>1. context' \in [Actors -> Keys \cup {NoContext}] /\ context'[a] = c
    BY DEF Begin, StoreInv, StoreTypeOK
  <1>2. UNCHANGED <<records, ages, stamp, dropped, audit, reply, seen>>
    BY DEF Begin, store, receipts
  <1>3. calls' = calls \/ (c \in Keys /\ calls' = calls \cup {StoreCall(a, "read", NoObs)})
    BY DEF Begin
  <1>4. c \in Keys => StoreCall(a, "read", NoObs) \in Calls /\ StoreCall(a, "read", NoObs).method # "publish"
    BY <1>1 DEF StoreCall, Calls, NoObs
  <1>5. QED
    BY <1>1, <1>2, <1>3, <1>4, StoreUnchanged DEF StoreInv, StoreTypeOK, SentDelivered

LEMMA DeliverBatchInv ==
    ASSUME StoreInv, NEW a \in Actors, NEW o \in Shown, DeliverBatch(a, o)
    PROVE  StoreInv'
  <1> DEFINE new == StoreCall(a, "publish", o)
  <1>1. UNCHANGED <<records, ages, stamp, dropped, audit, reply, context>>
    BY DEF DeliverBatch, store
  <1>2. CASE calls' = calls /\ seen' = seen
    BY <1>1, <1>2, StoreUnchanged DEF StoreInv, StoreTypeOK, SentDelivered
  <1>3. CASE context[a] # NoContext /\ calls' = calls \cup {new} /\ seen' = seen \cup Observed(a, o)
    <2>1. context'[a] = context[a] /\ context[a] \in Keys
      BY <1>1, <1>3 DEF StoreInv, StoreTypeOK
    <2>2. o \in [Kinds -> SUBSET BatchSizes]
      BY ShownAssumption
    <2>3. new \in Calls
      BY <2>1, <2>2 DEF StoreCall, Calls
    <2>4. \A kind \in Kinds, b \in BatchSizes : b \in o[kind] => <<context[a], <<kind, b>>>> \in Observed(a, o)
      BY DEF Observed
    <2>5. new.key = context[a] /\ new.obs = o
      BY <2>1 DEF StoreCall
    <2> HIDE DEF new
    <2>6. \A c \in calls' : c.method = "publish" =>
            \A kind \in Kinds, b \in BatchSizes : b \in c.obs[kind] => <<c.key, <<kind, b>>>> \in seen'
      BY <1>3, <2>4, <2>5 DEF StoreInv, SentDelivered
    <2>7. /\ context' \in [Actors -> Keys \cup {NoContext}] /\ calls' \subseteq Calls
          /\ seen \subseteq seen' /\ DOMAIN reply' = Actors
      BY <1>1, <1>3, <2>3 DEF StoreInv, StoreTypeOK
    <2>8. QED
      BY <1>1, <2>6, <2>7, StoreUnchanged
  <1>4. QED
    BY <1>2, <1>3 DEF DeliverBatch

LEMMA OtherStepsInv ==
    ASSUME StoreInv, NEW a \in Actors, Seed(a) \/ TimeOut(a) \/ Drop(a) \/ Restart(a)
    PROVE  StoreInv'
  <1>1. CASE Seed(a) \/ Drop(a)
    BY <1>1, StoreUnchanged DEF Seed, Drop, store, receipts, StoreInv, StoreTypeOK, SentDelivered
  <1>2. CASE TimeOut(a)
    BY <1>2, AbandonInv DEF TimeOut, store, receipts, StoreInv, StoreTypeOK
  <1>3. CASE Restart(a)
    <2>1. context' \in [Actors -> Keys \cup {NoContext}] /\ DOMAIN reply' = Actors
      BY <1>3 DEF Restart, StoreInv, StoreTypeOK
    <2>2. calls' = Abandon(a) /\ UNCHANGED <<records, ages, stamp, dropped, audit, seen>>
      BY <1>3 DEF Restart, store, receipts
    <2>3. QED
      BY <2>1, <2>2, AbandonInv
  <1>4. QED
    BY <1>1, <1>2, <1>3

-----------------------------------------------------------------------------
(* The store's own steps.                                                  *)

LEMMA TickInv == ASSUME StoreInv, Tick PROVE StoreInv'
  <1>1. UNCHANGED <<records, calls, context, reply, audit, seen>>
    BY DEF Tick, actor
  <1>2. ages' \in [Keys -> Ages] /\ stamp' \in [Keys -> Ages]
    BY AgesBasics DEF Tick, StoreInv, StoreTypeOK
  <1>3. ASSUME NEW k \in Keys, NEW kind \in Kinds, NEW b \in BatchSizes
        PROVE  /\ ages'[k][kind][b] = IF ages[k][kind][b] < Ttl THEN ages[k][kind][b] + 1 ELSE Ttl
               /\ stamp'[k][kind][b] = IF stamp[k][kind][b] < Ttl THEN stamp[k][kind][b] + 1 ELSE Ttl
               /\ <<k, <<kind, b>>>> \in dropped' <=>
                    <<k, <<kind, b>>>> \in dropped /\ stamp'[k][kind][b] < Ttl
               /\ ages[k][kind][b] \in 0..Ttl /\ stamp[k][kind][b] \in 0..Ttl
    <2>1. ages'[k][kind][b] = IF ages[k][kind][b] < Ttl THEN ages[k][kind][b] + 1 ELSE Ttl
      BY DEF Tick, Older
    <2>2. stamp'[k][kind][b] = IF stamp[k][kind][b] < Ttl THEN stamp[k][kind][b] + 1 ELSE Ttl
      BY DEF Tick, Older
    <2>3. dropped' = {x \in dropped : stamp'[x[1]][x[2][1]][x[2][2]] < Ttl}
      BY DEF Tick
    <2>4. QED
      BY <2>1, <2>2, <2>3 DEF StoreInv, StoreTypeOK, Ages
  <1>4. StoreIsReceipts'
    <2> SUFFICES ASSUME NEW k \in Keys, NEW kind \in Kinds, NEW b \in BatchSizes
                 PROVE  ages'[k][kind][b] =
                          IF <<k, <<kind, b>>>> \in dropped' THEN Ttl ELSE stamp'[k][kind][b]
      BY DEF StoreIsReceipts
    <2>1. ages[k][kind][b] = IF <<k, <<kind, b>>>> \in dropped THEN Ttl ELSE stamp[k][kind][b]
      BY DEF StoreInv, StoreIsReceipts
    <2>2. QED
      BY <1>3, <2>1, StoreAssumption
  <1>5. OnlyDelivered'
    <2>1. ASSUME NEW k \in Keys PROVE Items(k, ages'[k]) \subseteq Items(k, ages[k])
      BY <1>3, StoreAssumption DEF Items
    <2>2. QED
      BY <1>1, <2>1 DEF StoreInv, OnlyDelivered
  <1>6. QED
    BY <1>1, <1>2, <1>4, <1>5 DEF StoreInv, StoreTypeOK, SentDelivered

LEMMA FinishInv == ASSUME StoreInv, Finish PROVE StoreInv'
  <1>1. UNCHANGED <<ages, calls, context, reply, seen, stamp, dropped>>
    BY DEF Finish, actor, receipts
  <1>2. records' \subseteq Keys
    BY DEF Finish, Keep, Unexpired, StoreInv, StoreTypeOK
  <1>3. ASSUME NEW x \in audit'
        PROVE  /\ x.view.safe # 0 => <<x.key, <<"successes", x.view.safe>>>> \in seen
               /\ x.view.up # 0 => <<x.key, <<"ooms", x.view.up>>>> \in seen
    <2>1. PICK k \in Keys : x = [key |-> k, view |-> View(ages[k])]
      BY DEF Finish, Unexpired, StoreInv, StoreTypeOK
    <2>2. \A kind \in Kinds : \A b \in Live(ages[k], kind) : <<k, <<kind, b>>>> \in seen
      BY DEF StoreInv, OnlyDelivered, Live, Items
    <2>3. x.key = k /\ x.view = View(ages[k])
      BY <2>1
    <2>4. QED
      BY <2>2, <2>3, ViewIsEvidence DEF Kinds
  <1>4. QED
    BY <1>1, <1>2, <1>3, SMTT(30) DEF StoreInv, StoreTypeOK, StoreIsReceipts, SentDelivered, OnlyDelivered

LEMMA ReadInv ==
    ASSUME StoreInv, NEW c \in calls, Handle(c), Read(c) PROVE StoreInv'
  <1>1. UNCHANGED <<ages, stamp, dropped, context, audit, seen>>
    BY DEF Handle, Read
  <1>2. records' \subseteq Keys
    BY DEF Read, Keep, MoveToEnd, Unexpired, StoreInv, StoreTypeOK
  <1>3. DOMAIN reply' = Actors
    BY DEF Read, StoreInv, StoreTypeOK
  <1>4. calls' \subseteq calls
    BY DEF Handle
  <1>5. QED
    BY <1>1, <1>2, <1>3, <1>4, SMTT(30) DEF StoreInv, StoreTypeOK, StoreIsReceipts, SentDelivered, OnlyDelivered

LEMMA PublishInv ==
    ASSUME StoreInv, NEW c \in calls, Handle(c), Publish(c) PROVE StoreInv'
  <1> DEFINE full == Updated(ages[c.key], c.obs)
  <1>1. UNCHANGED <<context, audit, seen, reply>> /\ calls' \subseteq calls
    BY DEF Handle, Publish
  <1>2. c \in Calls /\ c.key \in Keys /\ c.obs \in [Kinds -> SUBSET BatchSizes] /\ c.method = "publish"
    BY DEF StoreInv, StoreTypeOK, Calls, Publish
  <1>3. Evicted(c) \subseteq Keys /\ c.key \notin Evicted(c)
    BY DEF Evicted, Unexpired, StoreInv, StoreTypeOK
  <1>4. records' \subseteq Keys
    BY <1>2 DEF Publish, MoveToEnd, Unexpired, StoreInv, StoreTypeOK
  <1>5. ages[c.key] \in Ages /\ full \in Ages /\ Truncated(full) \in Ages
    BY <1>2, AgesBasics DEF StoreInv, StoreTypeOK, Kinds
  <1>6. \A k \in Keys : ages'[k] = IF k \in Evicted(c) THEN NoEvidence
                                   ELSE IF k = c.key THEN Truncated(full) ELSE ages[k]
    BY DEF Publish
  <1>7. ages' \in [Keys -> Ages]
    <2>1. DOMAIN ages' = Keys /\ ages' = [k \in Keys |-> ages'[k]]
      BY DEF Publish
    <2> HIDE DEF full
    <2>2. QED
      BY <1>5, <1>6, <2>1, AgesBasics DEF StoreInv, StoreTypeOK
  <1>8. \A k \in Keys, kind \in Kinds, b \in BatchSizes :
          stamp'[k][kind][b] = IF k = c.key /\ b \in c.obs[kind] THEN 0 ELSE stamp[k][kind][b]
    BY <1>2 DEF Publish, StoreInv, StoreTypeOK, Ages
  <1>9. stamp' \in [Keys -> Ages]
    <2>1. stamp' = [stamp EXCEPT ![c.key] = Updated(stamp[c.key], c.obs)]
      BY <1>2 DEF Publish, Updated, StoreInv, StoreTypeOK
    <2>2. Updated(stamp[c.key], c.obs) \in Ages
      BY <1>2, AgesBasics DEF StoreInv, StoreTypeOK
    <2>3. QED
      BY <1>2, <2>1, <2>2 DEF StoreInv, StoreTypeOK
  <1>10. \A kind \in Kinds, b \in BatchSizes :
           full[kind][b] = IF b \in c.obs[kind] THEN 0 ELSE ages[c.key][kind][b]
    BY DEF Updated
  <1>11. \A kind \in Kinds, b \in BatchSizes :
           Truncated(full)[kind][b] = full[kind][b] \/ Truncated(full)[kind][b] = Ttl
    BY DEF Truncated
  <1>12. \A k \in Keys, kind \in Kinds, b \in BatchSizes :
           <<k, <<kind, b>>>> \in dropped' <=>
             IF k = c.key
             THEN /\ full[kind][b] < Ttl => ~(Truncated(full)[kind][b] < Ttl)
                  /\ full[kind][b] < Ttl \/ <<k, <<kind, b>>>> \in dropped
             ELSE \/ <<k, <<kind, b>>>> \in dropped
                  \/ k \in Evicted(c) /\ ages[k][kind][b] < Ttl
    <2>1. dropped' = (dropped \ Items(c.key, full))
                \cup (Items(c.key, full) \ Items(c.key, Truncated(full)))
                \cup UNION {Items(k, ages[k]) : k \in Evicted(c)}
      BY DEF Publish
    <2> HIDE DEF full
    <2>2. TAKE k \in Keys, kind \in Kinds, b \in BatchSizes
    <2> DEFINE x == <<k, <<kind, b>>>>
    <2>3. x \in UNION {Items(l, ages[l]) : l \in Evicted(c)} <=> k \in Evicted(c) /\ ages[k][kind][b] < Ttl
      <3>1. \A l : x \in Items(l, ages[l]) <=> k = l /\ ages[l][kind][b] < Ttl
        BY ItemsMembers
      <3> HIDE DEF x
      <3>2. QED
        BY <3>1
    <2>4. /\ x \in Items(c.key, full) <=> k = c.key /\ full[kind][b] < Ttl
          /\ x \in Items(c.key, Truncated(full)) <=> k = c.key /\ Truncated(full)[kind][b] < Ttl
      BY ItemsMembers
    <2> HIDE DEF x
    <2>5. x \in dropped' <=> \/ x \in dropped /\ x \notin Items(c.key, full)
                             \/ x \in Items(c.key, full) /\ x \notin Items(c.key, Truncated(full))
                             \/ x \in UNION {Items(l, ages[l]) : l \in Evicted(c)}
      BY <2>1
    <2>6. x \in dropped' <=>
             IF k = c.key
             THEN /\ full[kind][b] < Ttl => ~(Truncated(full)[kind][b] < Ttl)
                  /\ full[kind][b] < Ttl \/ x \in dropped
             ELSE \/ x \in dropped
                  \/ k \in Evicted(c) /\ ages[k][kind][b] < Ttl
      BY <1>3, <2>3, <2>4, <2>5
    <2>7. QED
      BY <2>6 DEF x
  <1>13. ASSUME NEW k \in Keys, NEW kind \in Kinds, NEW b \in BatchSizes
         PROVE  /\ ages[k][kind][b] \in 0..Ttl /\ stamp[k][kind][b] \in 0..Ttl
                /\ ages[k][kind][b] = IF <<k, <<kind, b>>>> \in dropped THEN Ttl ELSE stamp[k][kind][b]
                /\ NoEvidence[kind][b] = Ttl
    BY DEF StoreInv, StoreIsReceipts, StoreTypeOK, Ages, NoEvidence
  <1> HIDE DEF full
  <1>14. StoreIsReceipts'
    <2> SUFFICES ASSUME NEW k \in Keys, NEW kind \in Kinds, NEW b \in BatchSizes
                 PROVE  ages'[k][kind][b] =
                          IF <<k, <<kind, b>>>> \in dropped' THEN Ttl ELSE stamp'[k][kind][b]
      BY DEF StoreIsReceipts
    <2>1. CASE k = c.key
      <3>1. ages'[k][kind][b] = Truncated(full)[kind][b]
        BY <1>3, <1>6, <2>1
      <3>2. full[kind][b] = IF b \in c.obs[kind] THEN 0 ELSE ages[k][kind][b]
        BY <1>10, <2>1
      <3>3. full[kind][b] \in 0..Ttl
        BY <1>5 DEF Ages
      <3>4. Truncated(full)[kind][b] = full[kind][b] \/ Truncated(full)[kind][b] = Ttl
        BY <1>11
      <3>5. stamp'[k][kind][b] = IF b \in c.obs[kind] THEN 0 ELSE stamp[k][kind][b]
        BY <1>8, <2>1
      <3>6. <<k, <<kind, b>>>> \in dropped' <=>
                  /\ full[kind][b] < Ttl => ~(Truncated(full)[kind][b] < Ttl)
                  /\ full[kind][b] < Ttl \/ <<k, <<kind, b>>>> \in dropped
        BY <1>12, <2>1
      <3>7. QED
        BY <1>13, <3>1, <3>2, <3>3, <3>4, <3>5, <3>6, StoreAssumption
    <2>2. CASE k # c.key
      BY <1>6, <1>8, <1>12, <1>13, <2>2, StoreAssumption
    <2>3. QED
      BY <2>1, <2>2
  <1>15. ASSUME NEW k \in Keys PROVE Items(k, ages'[k]) \subseteq seen
    <2> SUFFICES ASSUME NEW kind \in Kinds, NEW b \in BatchSizes, ages'[k][kind][b] < Ttl
                 PROVE  <<k, <<kind, b>>>> \in seen
      BY DEF Items
    <2>1. CASE ages[k][kind][b] < Ttl
      BY <2>1 DEF StoreInv, OnlyDelivered, Items
    <2>2. CASE ~(ages[k][kind][b] < Ttl)
      <3>1. k = c.key
        <4>1. ages'[k] # ages[k]
          BY <2>2
        <4>2. NoEvidence[kind][b] = Ttl
          BY <1>13
        <4>3. ages'[k] # NoEvidence
          BY <4>2, AgesBasics
        <4>4. QED
          BY <1>6, <4>1, <4>3
      <3>2. full[kind][b] < Ttl
        BY <1>3, <1>6, <1>11, <3>1, AgesBasics
      <3>3. b \in c.obs[kind]
        BY <1>10, <2>2, <3>1, <3>2
      <3>4. QED
        BY <1>2, <3>1, <3>3 DEF StoreInv, SentDelivered
    <2>3. QED
      BY <2>1, <2>2
  <1>16. QED
    BY <1>1, <1>4, <1>7, <1>9, <1>14, <1>15 DEF StoreInv, StoreTypeOK, SentDelivered, OnlyDelivered

LEMMA StoreStep == StoreInv /\ [ProfilesNext]_profileVars => StoreInv'
  <1> SUFFICES ASSUME StoreInv, [ProfilesNext]_profileVars PROVE StoreInv'
    OBVIOUS
  <1>1. ASSUME NEW c \in calls, Handle(c) PROVE StoreInv'
    BY <1>1, ReadInv, PublishInv DEF Handle
  <1>2. ASSUME NEW a \in Actors, NEW c \in Keys \cup {NoContext}, Begin(a, c) PROVE StoreInv'
    BY <1>2, BeginInv
  <1>3. ASSUME NEW a \in Actors, Seed(a) \/ TimeOut(a) \/ Drop(a) \/ Restart(a) PROVE StoreInv'
    BY <1>3, OtherStepsInv
  <1>4. ASSUME NEW a \in Actors, NEW o \in Shown, DeliverBatch(a, o) PROVE StoreInv'
    BY <1>4, DeliverBatchInv
  <1>5. CASE Tick
    BY <1>5, TickInv
  <1>6. CASE Finish
    BY <1>6, FinishInv
  <1>7. CASE UNCHANGED profileVars
    BY <1>7, SMTT(30) DEF StoreInv, StoreTypeOK, StoreIsReceipts, SentDelivered, OnlyDelivered, profileVars
  <1>8. QED
    BY <1>1, <1>2, <1>3, <1>4, <1>5, <1>6, <1>7 DEF ProfilesNext

LEMMA StoreAlways == ProfilesSpec => []StoreInv
  BY StoreInit, StoreStep, PTL DEF ProfilesSpec

(* RecordsOnlyDelivered: no context is ever credited with a size, and no   *)
(* profile saved with one, that no delivered outer batch of that context   *)
(* has shown (_publish_profile, __call__, StageProfileStore.publish).      *)
THEOREM RecordsOnlyDelivered == ProfilesSpec => []OnlyDelivered
  <1>1. StoreInv => OnlyDelivered
    BY DEF StoreInv
  <1>2. QED
    BY <1>1, StoreAlways, PTL

(* PriorAlwaysExact: whatever calls are late or given up, the answer a new *)
(* actor starts from is what the receipts of its context say, less what    *)
(* has expired and what the limits of the store made it let go             *)
(* (StageProfileStore.read, publish, _expire).                             *)
THEOREM PriorAlwaysExact == ProfilesSpec => PriorExact
  <1> DEFINE Told == \A c \in calls : Handle(c) /\ c.method = "read" /\ c.waiting =>
                        reply'[c.actor] = Exact(c.key)
  <1>1. StoreInv => Told
    <2> SUFFICES ASSUME StoreInv, NEW c \in calls, Handle(c), c.method = "read", c.waiting
                 PROVE  reply'[c.actor] = Exact(c.key)
      OBVIOUS
    <2>1. c.actor \in Actors /\ c.key \in Keys
      BY DEF StoreInv, StoreTypeOK, Calls
    <2>2. Read(c)
      BY DEF Handle, Publish
    <2>3. reply'[c.actor] = View(ages[c.key])
      BY <2>1, <2>2 DEF Read, StoreInv, StoreTypeOK
    <2>4. \A kind \in Kinds : Live(ages[c.key], kind) = Received(c.key, kind)
      <3>1. \A kind \in Kinds, b \in BatchSizes : ages[c.key][kind][b] < Ttl <=>
              stamp[c.key][kind][b] < Ttl /\ <<c.key, <<kind, b>>>> \notin dropped
        BY <2>1, AgesBasics DEF StoreInv, StoreIsReceipts
      <3>2. QED
        BY <3>1 DEF Live, Received
    <2>5. View(ages[c.key]) = Exact(c.key)
      BY <2>4 DEF View, Exact, Kinds
    <2>6. QED
      BY <2>3, <2>5
  <1>2. StoreInv /\ [ProfilesNext]_profileVars => [Told]_profileVars
    BY <1>1
  <1>3. QED
    BY <1>2, StoreAlways, PTL DEF ProfilesSpec, PriorExact
=============================================================================
