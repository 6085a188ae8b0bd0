--------------------------- MODULE AdaptiveBatch ---------------------------
(***************************************************************************)
(* One actor of an adaptive GPU mapper (core/elasticjuicer): Ray hands it  *)
(* outer batches, OOMSafeAdaptiveMapper cuts them into slices and tries    *)
(* them, AdaptiveBatchController decides how large a slice may be from the *)
(* slices that fitted and those that ran out of memory, and                *)
(* RayAdaptiveMapperActor remembers for every input context how large a    *)
(* slice has been shown to fit.                                            *)
(*                                                                         *)
(* Memory is room, the sizes of slice that may be the largest to fit: one  *)
(* when the device is the actor's own, several when neighbours come and    *)
(* go.  0 stands for a bound that is None.                                 *)
(***************************************************************************)
EXTENDS Integers, Sequences, FiniteSets

CONSTANTS
    Contexts,               \* exact input and resource contexts
    None,                   \* no context: the operator declares none
    Rooms,                  \* what a context's memory may be
    MaxBatch,               \* the operator's batch_size, also of outer batches
    SuccessesBeforeGrowth, CooldownSuccesses, MaxProbeOoms, GrowthDivisor,
    OomReprobeSuccesses, MaxOomReprobes,
    MaxRetriesPerSlice, MaxFloorRetries

ASSUME SizesAssumption ==
    /\ MaxBatch \in Nat \ {0} /\ GrowthDivisor \in Nat \ {0}
    /\ SuccessesBeforeGrowth \in Nat \ {0} /\ CooldownSuccesses \in Nat
    /\ MaxProbeOoms \in Nat \ {0} /\ OomReprobeSuccesses \in Nat \ {0}
    /\ MaxOomReprobes \in Nat /\ MaxRetriesPerSlice \in Nat /\ MaxFloorRetries \in Nat
ASSUME RoomsAssumption ==
    /\ None \notin Contexts
    /\ Rooms \subseteq [Contexts \cup {None} -> SUBSET Nat]

Sizes == 1..MaxBatch
MinBatch == 1   \* min_batch_size, which the actor leaves at its default

VARIABLES
    room,       \* the memory of every context
    ctl,        \* the controller
    fresh,      \* a seed may still be asked for
    phase,      \* of the call: idle, slice, return, or dead of oom or error
    ctx,        \* the context of the latest call
    rows, offset, out,    \* the outer batch, its rows delivered, the output
    retries, floors,      \* OOMs of the slice, and how many at the floor
    successes,  \* the sizes that fitted in this call
    history     \* per context the largest size shown to fit, and whether it
                \* has been used for a hint

batch == <<ctx, rows>>
vars == <<room, ctl, fresh, phase, batch, offset, out, retries, floors, successes, history>>

NoProof == [size |-> 0, used |-> FALSE]

NewController ==
    [cur |-> MaxBatch, low |-> 0, up |-> 0, streak |-> 0, cooldown |-> 0,
     reprobes |-> 0, since |-> 0, probes |-> 0, interval |-> OomReprobeSuccesses,
     origin |-> 0, hint |-> FALSE, floor |-> FALSE]

Init ==
    /\ room \in Rooms /\ ctl = NewController
    /\ fresh = TRUE /\ phase = "idle" /\ ctx = None
    /\ rows = 0 /\ offset = 0 /\ out = << >> /\ retries = 0 /\ floors = 0
    /\ successes = {} /\ history = [c \in Contexts |-> NoProof]

-----------------------------------------------------------------------------
(* AdaptiveBatchController: s is its state, b the size of a slice.         *)

Lesser(a, b)  == IF a < b THEN a ELSE b
Greater(a, b) == IF a < b THEN b ELSE a

EffectiveMaximum(s) ==
    IF s.up = 0 THEN MaxBatch ELSE Greater(MinBatch, Lesser(MaxBatch, s.up - 1))

Clamp(s, b) == Greater(MinBatch, Lesser(b, EffectiveMaximum(s)))

(* Mutant: a slice is not cut at the end of the outer batch.               *)
NextBatchSizeWhole(s, left) == Lesser(s.cur, EffectiveMaximum(s))

NextBatchSize(s, left) == Lesser(Lesser(s.cur, EffectiveMaximum(s)), left)

NextProbe(s) ==
    IF s.up # 0 /\ s.low # 0
    THEN Clamp(s, Greater(s.low, (s.low + s.up) \div 2))
    ELSE Clamp(s, s.cur + (s.cur + GrowthDivisor - 1) \div GrowthDivisor)

(* since and probes are only compared with bounds and are counted up to    *)
(* these, since to the longest wait, probes to MaxProbeOoms.               *)
Wait(s) == Greater(SuccessesBeforeGrowth, s.interval)

CountSince(s) ==
    IF s.up = 0 THEN s ELSE [s EXCEPT !.since = Lesser(@ + 1, Wait(s))]

ContextReprobe(s) == s.hint /\ s.since >= SuccessesBeforeGrowth
FloorReprobe(s)   == s.floor /\ s.up = MinBatch /\ MaxBatch > MinBatch

(* Mutant: recovery_requires_hint.                                         *)
ReprobeOnHint(s) == s.up # 0 /\ ContextReprobe(s)

(* The bound is dropped after enough successes, a limited number of times  *)
(* unless the context has proof of a larger size.                          *)
ReprobeDue(s) ==
    /\ s.up # 0
    /\ ContextReprobe(s) \/ (s.reprobes < MaxOomReprobes /\ s.since >= s.interval)
    /\ s.up > MinBatch \/ MaxBatch > MinBatch

Reopen(s) ==
    IF ~ReprobeDue(s) THEN s
    ELSE [s EXCEPT
            !.reprobes = IF ContextReprobe(s) THEN 0 ELSE @,
            !.interval = IF ContextReprobe(s) THEN OomReprobeSuccesses ELSE @,
            !.origin = IF FloorReprobe(s) THEN s.up + 1 ELSE s.up,
            !.up = 0, !.since = 0, !.floor = FALSE, !.hint = FALSE]

(* A size that was out of bounds fits: the budget starts afresh.           *)
Prove(s, b) ==
    IF s.origin = 0 \/ b < s.origin THEN s
    ELSE [s EXCEPT !.origin = 0, !.reprobes = 0, !.interval = OomReprobeSuccesses,
                   !.probes = 0, !.hint = FALSE]

RaiseLow(s, b) ==
    IF s.up # 0 /\ b >= s.up THEN s ELSE [s EXCEPT !.low = Greater(@, b)]

Grow(s) ==
    IF s.cooldown > 0 THEN [s EXCEPT !.cooldown = @ - 1, !.streak = 0, !.cur = Clamp(s, @)]
    ELSE IF s.streak + 1 < SuccessesBeforeGrowth THEN [s EXCEPT !.streak = @ + 1]
    ELSE [s EXCEPT !.streak = 0, !.cur = NextProbe(s)]

(* observe_success; a slice smaller than the current size proves nothing.  *)
ObserveSuccess(s, b, expired) ==
    LET t == [s EXCEPT !.hint = @ /\ ~expired]
    IN  IF b < s.cur THEN t ELSE Grow(RaiseLow(Prove(Reopen(CountSince(t)), b), b))

RecordFloorRecovery(s) ==
    IF s.up # MinBatch \/ s.floor THEN s ELSE [s EXCEPT !.floor = TRUE, !.since = 0]

(* Mutant: a smaller size that fails does not lower the bound.             *)
BoundKept(s, b) ==
    [s EXCEPT
        !.probes = IF s.low # 0 /\ b > s.low THEN Lesser(@ + 1, MaxProbeOoms) ELSE @,
        !.reprobes = IF s.origin # 0 THEN @ + 1 ELSE @,
        !.interval = IF s.origin # 0 THEN 2 * @ ELSE @,
        !.up = IF @ = 0 THEN b ELSE @,
        !.origin = 0, !.streak = 0, !.cooldown = CooldownSuccesses,
        !.since = 0, !.hint = FALSE, !.floor = FALSE]

(* Mutant: a failed recovery probe is not counted.                         *)
BoundUncounted(s, b) ==
    [s EXCEPT
        !.probes = IF s.low # 0 /\ b > s.low THEN Lesser(@ + 1, MaxProbeOoms) ELSE @,
        !.up = IF @ = 0 THEN b ELSE Lesser(@, b),
        !.origin = 0, !.streak = 0, !.cooldown = CooldownSuccesses,
        !.since = 0, !.hint = FALSE, !.floor = FALSE]

(* observe_oom, in its order: the counters and the bound, evidence that it *)
(* contradicts, the freeze at the best proven size, the next size.         *)
Bound(s, b) ==
    [s EXCEPT
        !.probes = IF s.low # 0 /\ b > s.low THEN Lesser(@ + 1, MaxProbeOoms) ELSE @,
        !.reprobes = IF s.origin # 0 THEN @ + 1 ELSE @,
        !.interval = IF s.origin # 0 THEN 2 * @ ELSE @,
        !.up = IF @ = 0 THEN b ELSE Lesser(@, b),
        !.origin = 0, !.streak = 0, !.cooldown = CooldownSuccesses,
        !.since = 0, !.hint = FALSE, !.floor = FALSE]

(* Mutant: a size that fitted is trusted although a smaller one failed.    *)
KeepLow(s) == s

DropLow(s) ==
    IF s.low # 0 /\ s.low >= s.up THEN [s EXCEPT !.low = 0, !.probes = 0] ELSE s

Freeze(s) ==
    IF s.low # 0 /\ s.probes >= MaxProbeOoms THEN [s EXCEPT !.up = s.low + 1] ELSE s

BackOff(s, b) ==
    [s EXCEPT !.cur = Clamp(s, Greater(Greater(MinBatch, b \div 2), s.low))]

ObserveOom(s, b) ==
    LET t == DropLow(Bound(s, b))
    IN  IF b <= MinBatch THEN [t EXCEPT !.cur = MinBatch] ELSE BackOff(Freeze(t), b)

-----------------------------------------------------------------------------
(* RayAdaptiveMapperActor.__call__ up to the first slice.                  *)

(* The priors validate_prior lets through, or none.                        *)
Priors ==
    {p \in [safe : Sizes \cup {0}, up : (2..MaxBatch) \cup {0}] :
        p.safe # 0 /\ p.up # 0 => p.safe < p.up}

Seeded(s, p) ==
    LET t == [s EXCEPT !.up = p.up]
    IN  [t EXCEPT !.cur = Clamp(t, IF p.safe = 0 THEN @ ELSE p.safe)]

(* Proof of the context's own, not used before, at or above the bound.     *)
MayHint(s, proof) ==
    /\ proof.size # 0 /\ ~proof.used /\ s.up # 0 /\ proof.size >= s.up
    /\ MaxOomReprobes # 0 /\ s.origin = 0 /\ ~s.hint

(* Expired proofs are dropped; a hint of another context is revoked.       *)
Call(c, n) ==
    /\ phase = "idle"
    /\ \E prior \in IF fresh /\ c # None THEN Priors ELSE {[safe |-> 0, up |-> 0]},
          live \in SUBSET {d \in Contexts : history[d] # NoProof} :
        LET seeded == IF prior.safe = 0 /\ prior.up = 0 THEN ctl ELSE Seeded(ctl, prior)
            told == [seeded EXCEPT !.hint = @ /\ c = ctx]
            kept == [d \in Contexts |-> IF d \in live THEN history[d] ELSE NoProof]
        IN  IF c # None /\ c \in live /\ MayHint(told, history[c])
            THEN /\ ctl' = [told EXCEPT !.hint = TRUE, !.since = 0]
                 /\ history' = [kept EXCEPT ![c].used = TRUE]
            ELSE ctl' = told /\ history' = kept
    /\ fresh' = (fresh /\ c = None)
    /\ ctx' = c /\ rows' = n /\ offset' = 0 /\ out' = << >>
    /\ retries' = 0 /\ floors' = 0 /\ successes' = {}
    /\ phase' = "slice"
    /\ UNCHANGED room

-----------------------------------------------------------------------------
(* OOMSafeAdaptiveMapper.__call__: one attempt at the slice at offset.     *)

Size == NextBatchSize(ctl, rows - offset)
Fits == \E r \in room[ctx] : Size <= r
Overflows == \E r \in room[ctx] : r < Size

Slice(from, size) == [i \in 1..size |-> from + i]

(* Proof of a size is void in its context when it runs out of memory.      *)
Disproved(b) ==
    IF ctx # None /\ history[ctx].size >= b
    THEN [history EXCEPT ![ctx] = NoProof] ELSE history

Deliver ==
    /\ phase = "slice" /\ Fits
    /\ \E expired \in BOOLEAN :
        ctl' = ObserveSuccess(IF floors > 0 /\ Size = MinBatch
                              THEN RecordFloorRecovery(ctl) ELSE ctl, Size, expired)
    /\ successes' = IF ctx = None THEN {} ELSE successes \cup {Size}
    /\ out' = out \o Slice(offset, Size)
    /\ offset' = offset + Size
    /\ retries' = 0 /\ floors' = 0 /\ fresh' = FALSE
    /\ phase' = IF offset + Size < rows THEN "slice" ELSE "return"
    /\ UNCHANGED <<room, batch, history>>

Oom ==
    /\ phase = "slice" /\ Overflows
    /\ ctl' = ObserveOom(ctl, Size)
    /\ successes' = {b \in successes : b < Size}
    /\ history' = Disproved(Size)
    /\ retries' = retries + 1 /\ fresh' = FALSE
    /\ UNCHANGED <<room, batch, offset, out>>

(* The same rows again: in a smaller slice,                                *)
Shrink ==
    /\ Oom
    /\ Size > MinBatch /\ retries < MaxRetriesPerSlice
    /\ UNCHANGED <<floors, phase>>

(* after a wait, when no slice is smaller,                                 *)
WaitAtFloor ==
    /\ Oom
    /\ Size = MinBatch /\ floors < MaxFloorRetries
    /\ floors' = floors + 1
    /\ UNCHANGED phase

(* or never, and the OOM propagates.                                       *)
GiveUp ==
    /\ Oom
    /\ IF Size = MinBatch THEN floors = MaxFloorRetries ELSE retries >= MaxRetriesPerSlice
    /\ phase' = "oom"
    /\ UNCHANGED floors

(* Another error of the operator drops the whole outer batch, or fails it, *)
(* as a violated contract always does: the actor and its state are gone.   *)
NoBatch ==
    /\ rows' = 0 /\ offset' = 0 /\ out' = << >>
    /\ retries' = 0 /\ floors' = 0 /\ successes' = {}

Skip ==
    /\ phase = "slice"
    /\ phase' = "idle" /\ NoBatch
    /\ UNCHANGED <<room, ctl, fresh, ctx, history>>

Break ==
    /\ phase = "slice"
    /\ phase' = "error" /\ NoBatch /\ ctl' = NewController
    /\ history' = [c \in Contexts |-> NoProof]
    /\ UNCHANGED <<room, fresh, ctx>>

(* Mutant: the current size of the controller is taken for proof.          *)
ReturnCurrent ==
    /\ phase = "return"
    /\ history' = IF ctx = None \/ successes = {} THEN history
                  ELSE [history EXCEPT ![ctx] = [size |-> ctl.cur, used |-> FALSE]]
    /\ phase' = "idle" /\ successes' = {}
    /\ UNCHANGED <<room, ctl, fresh, batch, offset, out, retries, floors>>

(* The call ends, and its largest success becomes proof unless larger      *)
(* proof is there or the context is no longer the same.                    *)
Return ==
    /\ phase = "return"
    /\ \E same \in BOOLEAN :
        history' =
            IF ctx = None \/ ~same \/ successes = {} THEN history
            ELSE LET largest == CHOOSE b \in successes : \A d \in successes : d <= b
                 IN  IF largest < history[ctx].size THEN history
                     ELSE [history EXCEPT ![ctx] = [size |-> largest, used |-> FALSE]]
    /\ phase' = "idle" /\ successes' = {}
    /\ UNCHANGED <<room, ctl, fresh, batch, offset, out, retries, floors>>

Next ==
    \/ \E c \in Contexts \cup {None}, n \in Sizes : Call(c, n)
    \/ Deliver \/ Shrink \/ WaitAtFloor \/ GiveUp
    \/ Skip \/ Break \/ Return

Spec == Init /\ [][Next]_vars

-----------------------------------------------------------------------------
Controllers ==
    [cur : Sizes, low : Sizes \cup {0}, up : Sizes \cup {0},
     streak : Nat, cooldown : 0..CooldownSuccesses, reprobes : Nat, since : Nat,
     probes : 0..MaxProbeOoms, interval : Nat, origin : 0..(MaxBatch + 1),
     hint : BOOLEAN, floor : BOOLEAN]

TypeOK ==
    /\ room \in Rooms /\ ctl \in Controllers /\ fresh \in BOOLEAN
    /\ phase \in {"idle", "slice", "return", "oom", "error"}
    /\ ctx \in Contexts \cup {None} /\ rows \in 0..MaxBatch /\ offset \in 0..rows
    /\ out \in Seq(Sizes) /\ retries \in Nat /\ floors \in 0..MaxFloorRetries
    /\ successes \subseteq Sizes
    /\ history \in [Contexts -> [size : Sizes \cup {0}, used : BOOLEAN]]

(* A retry for every halving of the outer batch: spare[n] is what n of them *)
(* leave above one row.  The default of 16 is enough for 65536 rows.       *)
RetriesSuffice ==
    \E spare \in [0..MaxRetriesPerSlice -> 0..(MaxBatch - 1)] :
        /\ spare[0] = MaxBatch - 1 /\ spare[MaxRetriesPerSlice] = 0
        /\ \A n \in 1..MaxRetriesPerSlice : spare[n] = spare[n - 1] \div 2

(* Lossless: however slices are cut, retried and shrunk, the output is the *)
(* rows of the outer batch in order, all of them when the call returns,    *)
(* and a call dies of OOM only when a single row did not fit in any of its *)
(* attempts, never because the retries of a larger slice ran out           *)
(* (OOMSafeAdaptiveMapper.__call__).                                       *)
InOrder ==
    /\ out = Slice(0, offset)
    /\ phase \in {"idle", "return"} => offset = rows
DiesAtFloor == phase = "oom" => Size = MinBatch /\ floors = MaxFloorRetries
Lossless == InOrder /\ DiesAtFloor

(* The interval has doubled with every failed probe that is counted.      *)
DoubledEvery(reprobes, interval) ==
    \E wait \in [0..reprobes -> 0..interval] :
        /\ wait[0] = OomReprobeSuccesses /\ wait[reprobes] = interval
        /\ \A n \in 1..reprobes : wait[n] = 2 * wait[n - 1]

(* What the controller knows is consistent: a size that fitted is below    *)
(* the bound, the current size within it, a bound and an open probe        *)
(* exclude each other, a hint is pending only against a bound, and failed  *)
(* probes of a bound are limited and each doubles the wait for the next    *)
(* (observe_success, observe_oom, seed_bounds, record_context_recovery_hint).*)
BoundsConsistent ==
    /\ ctl.cur <= EffectiveMaximum(ctl)
    /\ ctl.up # 0 => ctl.low < ctl.up /\ ctl.origin = 0
    /\ ctl.hint \/ ctl.floor => ctl.up # 0
    /\ ctl.reprobes <= MaxOomReprobes
    /\ ctl.origin # 0 => ctl.reprobes < MaxOomReprobes
    /\ DoubledEvery(ctl.reprobes, ctl.interval)

(* Proof is a success the context really had, at a size it has room for,   *)
(* not one another context had nor one inferred from a bound               *)
(* (_publish_recovery, _observe).                                          *)
ProofReal ==
    /\ \A c \in Contexts : history[c].size # 0 =>
          \E r \in room[c] : history[c].size <= r
    /\ \A b \in successes : \E r \in room[ctx] : b <= r

(* The same rows are retried in a smaller slice, or one row at a time: no  *)
(* OOM is followed by an attempt of the same or a larger size              *)
(* (observe_oom, next_batch_size).                                         *)
RetriesShrink ==
    [][retries' > retries => Size' < Size \/ (Size = MinBatch /\ Size' = MinBatch)]_vars

(* Where memory does not change and one context's is all there is, an      *)
(* actor runs out of memory finitely often: probing ends (observe_success, *)
(* observe_oom).                                                           *)
SteadyRoom == \A c, d \in Contexts \cup {None} : room[c] = room[d] /\ Cardinality(room[c]) = 1
OomsStop == SteadyRoom => <>[][retries' <= retries]_vars

(* A prior is advisory: where every batch fits and full slices keep        *)
(* coming, the actor reaches the full size, whatever bound it was seeded   *)
(* with (seed_bounds, observe_success).                                    *)
AmpleRoom == \A c \in Contexts \cup {None} : \A r \in room[c] : MaxBatch <= r
FullSlice == offset' = offset + ctl.cur
SeedOvercome ==
    AmpleRoom /\ []<><<FullSlice>>_vars => <>[](ctl.cur = MaxBatch)
=============================================================================
