--------------------------- MODULE StageProfiles ---------------------------
(***************************************************************************)
(* The stage profiles of one run (core/elasticjuicer/stage_profile.py):    *)
(* actors of GPU mappers tell one store, itself a Ray actor, which slices  *)
(* fitted and which ran out of memory in a stage and an exact context, and *)
(* a new actor asks it once for bounds to start from.  Calls to the store  *)
(* have a deadline after which the actor goes on without the store; what   *)
(* it asked may still be done later.  Evidence expires.                    *)
(*                                                                         *)
(* AdaptiveBatch has one actor with its controller and takes any prior     *)
(* that validate_prior accepts; here are many actors, whose outer batches  *)
(* show anything.  A clock ticks in units of which an item of evidence     *)
(* lives Ttl.                                                              *)
(***************************************************************************)
EXTENDS Integers, FiniteSets

CONSTANTS
    Actors,        \* the actors of a stage
    Keys,          \* exact input and resource contexts in the stage
    NoContext,     \* no context: rows of different or undeclared cost
    LargestBatch,  \* limits[1]; limits[0] is 1
    Ttl,           \* PROFILE_TTL_SECONDS
    MaxEntries,    \* MAX_PROFILE_ENTRIES
    MaxSizes,      \* MAX_OBSERVED_SIZES
    MaxCalls,      \* bound: outer batches of all actors together
    Shown,         \* what an outer batch may show: sizes that fitted and not
    MaxTicks, MaxRestarts

BatchSizes == 1..LargestBatch
Kinds == {"successes", "ooms"}

ASSUME KeysAssumption == NoContext \notin Keys
ASSUME StoreAssumption ==
    /\ LargestBatch \in Nat \ {0} /\ Ttl \in Nat \ {0} /\ MaxEntries \in Nat \ {0}
    /\ MaxSizes \in Nat \ {0, 1}
ASSUME ShownAssumption ==
    Shown \subseteq [Kinds -> SUBSET BatchSizes] /\ \A o \in Shown : o["successes"] # {}
ASSUME BoundsAssumption ==
    {MaxCalls, MaxTicks, MaxRestarts} \subseteq Nat

VARIABLES
    records, order,\* the store: its keys, <<k, l>> when l was used after k,
    ages,          \* and the age of every item of evidence; Ttl: none
    alive,         \* the run has not killed the store
    calls,         \* calls the store has not handled
    pc, context,   \* what an actor is doing, in which context
    handle,        \* it has not given the store up
    unasked,       \* it has not asked for a seed and has run no slice
    reply,         \* the store's answer: the bounds the actor starts from
    audit,         \* the profiles finish() saved
    sent, ticks, restarts,
    seen,          \* history: what delivered outer batches have shown,
    stamp, dropped \* the age of its latest receipt, what the store let go

store    == <<records, order, ages, alive>>
actor    == <<pc, context, handle, unasked, reply>>
bounds   == <<sent, ticks, restarts>>
receipts == <<seen, stamp, dropped>>
profileVars == <<records, order, ages, alive, calls, pc, context, handle, unasked, reply,
                 audit, sent, ticks, restarts, seen, stamp, dropped>>

NoEvidence == [k \in Kinds |-> [b \in BatchSizes |-> Ttl]]
NoObs      == [k \in Kinds |-> {}]
NoPrior    == [safe |-> 0, up |-> 0]

ProfilesInit ==
    /\ records = {} /\ order = {} /\ ages = [k \in Keys |-> NoEvidence] /\ alive = TRUE
    /\ calls = {}
    /\ pc = [a \in Actors |-> "idle"] /\ context = [a \in Actors |-> NoContext]
    /\ handle = [a \in Actors |-> TRUE] /\ unasked = [a \in Actors |-> TRUE]
    /\ reply = [a \in Actors |-> NoPrior]
    /\ audit = {} /\ sent = 0 /\ ticks = 0 /\ restarts = 0
    /\ seen = {} /\ stamp = [k \in Keys |-> NoEvidence] /\ dropped = {}

---------------------------------------------------------------------------
(* StageProfileStore.                                                      *)

Least(S)    == CHOOSE x \in S : \A y \in S : x <= y
Greatest(S) == CHOOSE x \in S : \A y \in S : y <= x
Live(evidence, kind) == {b \in BatchSizes : evidence[kind][b] < Ttl}
IsEmpty(evidence) == \A k \in Kinds : Live(evidence, k) = {}

(* Keys all of whose evidence has expired are forgotten.                   *)
Unexpired == {k \in records : ~IsEmpty(ages[k])}

(* The OrderedDict with the keys of S only, and with k moved to its end.   *)
Keep(S) == records' = S /\ order' = order \cap (S \X S)
MoveToEnd(S, k) ==
    /\ records' = S
    /\ LET rest == S \ {k} IN order' = (order \cap (rest \X rest)) \cup (rest \X {k})

(* The smallest OOM, unless it is of a single row, and the largest success *)
(* below it.                                                               *)
View(e) ==
    LET up == IF Live(e, "ooms") = {} THEN 0 ELSE Least(Live(e, "ooms"))
        safe == {b \in Live(e, "successes") : up = 0 \/ b < up}
    IN  IF up = 1 THEN NoPrior
        ELSE [safe |-> IF safe = {} THEN 0 ELSE Greatest(safe), up |-> up]

Read(c) ==
    /\ c.method = "read"
    /\ IF View(ages[c.key]) = NoPrior THEN Keep(Unexpired) ELSE MoveToEnd(Unexpired, c.key)
    /\ reply' = IF c.waiting THEN [reply EXCEPT ![c.actor] = View(ages[c.key])] ELSE reply
    /\ pc' = IF c.waiting THEN [pc EXCEPT ![c.actor] = "told"] ELSE pc
    /\ UNCHANGED <<ages, stamp, dropped>>

(* At most MaxSizes sizes: the smallest OOMs, and of the successes the     *)
(* smallest one and the largest.                                           *)
Kept(kind, S) ==
    {b \in S :
        LET below == Cardinality({x \in S : x < b})
            above == Cardinality({x \in S : b < x})
        IN  IF kind = "ooms" THEN below < MaxSizes
            ELSE below = 0 \/ above < MaxSizes - 1}

Truncated(e) ==
    [k \in Kinds |-> [b \in BatchSizes |->
        IF b \in Kept(k, Live(e, k)) THEN e[k][b] ELSE Ttl]]

(* Mutant: fresh evidence renews what the record has.                      *)
UpdatedWhole(e, o) ==
    [k \in Kinds |-> [b \in BatchSizes |->
        IF b \in o[k] \cup Live(e, k) THEN 0 ELSE e[k][b]]]

Updated(e, o) ==
    [k \in Kinds |-> [b \in BatchSizes |-> IF b \in o[k] THEN 0 ELSE e[k][b]]]

Items(k, e) == {k} \X {x \in Kinds \X BatchSizes : e[x[1]][x[2]] < Ttl}

(* The key becomes the latest, and those go after which MaxEntries others  *)
(* have been used.                                                         *)
Evicted(c) ==
    LET others == Unexpired \ {c.key}
    IN  {k \in others : Cardinality({l \in others : <<k, l>> \in order}) + 1 >= MaxEntries}

Publish(c) ==
    /\ c.method = "publish"
    /\ MoveToEnd((Unexpired \cup {c.key}) \ Evicted(c), c.key)
    /\ LET full == Updated(ages[c.key], c.obs)
       IN  /\ ages' = [k \in Keys |->
                IF k \in Evicted(c) THEN NoEvidence
                ELSE IF k = c.key THEN Truncated(full) ELSE ages[k]]
           /\ dropped' = (dropped \ Items(c.key, full))
                \cup (Items(c.key, full) \ Items(c.key, Truncated(full)))
                \cup UNION {Items(k, ages[k]) : k \in Evicted(c)}
    /\ stamp' = [stamp EXCEPT ![c.key] =
          [k \in Kinds |-> [b \in BatchSizes |-> IF b \in c.obs[k] THEN 0 ELSE @[k][b]]]]
    /\ pc' = IF c.waiting THEN [pc EXCEPT ![c.actor] = "idle"] ELSE pc
    /\ UNCHANGED reply

(* One method of the store at a time, in any order of the calls.  A store  *)
(* whose process has died handles none.                                    *)
Handle(c) ==
    /\ alive /\ c \in calls
    /\ calls' = calls \ {c}
    /\ Read(c) \/ Publish(c)
    /\ UNCHANGED <<alive, context, handle, unasked, audit, bounds, seen>>

---------------------------------------------------------------------------
(* RayAdaptiveMapperActor.                                                 *)

StoreCall(a, method, o) ==
    [actor |-> a, method |-> method, key |-> context'[a], obs |-> o, waiting |-> TRUE]

(* _prepare_profile: the first batch with a context asks for a seed, if no *)
(* slice has run before it.                                                *)
Begin(a, c) ==
    /\ alive /\ pc[a] = "idle" /\ sent < MaxCalls
    /\ sent' = sent + 1
    /\ context' = [context EXCEPT ![a] = c]
    /\ IF handle[a] /\ c # NoContext /\ unasked[a]
       THEN /\ pc' = [pc EXCEPT ![a] = "asking"]
            /\ unasked' = [unasked EXCEPT ![a] = FALSE]
            /\ calls' = calls \cup {StoreCall(a, "read", NoObs)}
       ELSE /\ pc' = [pc EXCEPT ![a] = "work"]
            /\ UNCHANGED <<unasked, calls>>
    /\ UNCHANGED <<store, handle, reply, audit, ticks, restarts, receipts>>

Seed(a) ==
    /\ pc[a] = "told"
    /\ pc' = [pc EXCEPT ![a] = "work"]
    /\ UNCHANGED <<store, calls, context, handle, unasked, reply, audit, bounds, receipts>>

Abandon(a) == {[c EXCEPT !.waiting = @ /\ c.actor # a] : c \in calls}

(* _profile_rpc: no answer in time, and no further call.                   *)
TimeOut(a) ==
    /\ pc[a] \in {"asking", "telling"}
    /\ pc' = [pc EXCEPT ![a] = IF pc[a] = "asking" THEN "work" ELSE "idle"]
    /\ handle' = [handle EXCEPT ![a] = FALSE]
    /\ calls' = Abandon(a)
    /\ UNCHANGED <<store, context, unasked, reply, audit, bounds, receipts>>

Observed(a, o) == {context[a]} \X UNION {{k} \X o[k] : k \in Kinds}

(* The outer batch is delivered; its evidence is sent if the context is    *)
(* still the same.                                                         *)
DeliverBatch(a, o) ==
    /\ pc[a] = "work"
    /\ unasked' = [unasked EXCEPT ![a] = FALSE]
    /\ UNCHANGED context
    /\ \E same \in BOOLEAN :
        IF same /\ handle[a] /\ context[a] # NoContext
        THEN /\ pc' = [pc EXCEPT ![a] = "telling"]
             /\ calls' = calls \cup {StoreCall(a, "publish", o)}
             /\ seen' = seen \cup Observed(a, o)
        ELSE /\ pc' = [pc EXCEPT ![a] = "idle"]
             /\ UNCHANGED <<calls, seen>>
    /\ UNCHANGED <<store, handle, reply, audit, bounds, stamp, dropped>>

(* Mutant: what a dropped batch has shown is sent as well.                 *)
DropTelling(a) ==
    /\ pc[a] = "work" /\ handle[a] /\ context[a] # NoContext
    /\ unasked' = [unasked EXCEPT ![a] = FALSE]
    /\ UNCHANGED context
    /\ pc' = [pc EXCEPT ![a] = "telling"]
    /\ \E o \in Shown : calls' = calls \cup {StoreCall(a, "publish", o)}
    /\ UNCHANGED <<store, handle, reply, audit, bounds, receipts>>

(* An error other than OOM, before or after some slices: the outer batch   *)
(* is dropped.                                                             *)
Drop(a) ==
    /\ pc[a] = "work"
    /\ \E ran \in BOOLEAN : unasked' = [unasked EXCEPT ![a] = @ /\ ~ran]
    /\ pc' = [pc EXCEPT ![a] = "idle"]
    /\ UNCHANGED <<store, calls, context, handle, reply, audit, bounds, receipts>>

---------------------------------------------------------------------------
(* Surroundings.                                                           *)

(* Ray starts a new actor in the place of one that died.                   *)
Restart(a) ==
    /\ alive /\ restarts < MaxRestarts
    /\ restarts' = restarts + 1
    /\ pc' = [pc EXCEPT ![a] = "idle"] /\ context' = [context EXCEPT ![a] = NoContext]
    /\ handle' = [handle EXCEPT ![a] = TRUE] /\ unasked' = [unasked EXCEPT ![a] = TRUE]
    /\ reply' = [reply EXCEPT ![a] = NoPrior]
    /\ calls' = Abandon(a)
    /\ UNCHANGED <<store, audit, sent, ticks, receipts>>

Older(e) ==
    [k \in Kinds |-> [b \in BatchSizes |-> IF e[k][b] < Ttl THEN e[k][b] + 1 ELSE Ttl]]

Tick ==
    /\ alive /\ ticks < MaxTicks
    /\ ticks' = ticks + 1
    /\ ages' = [k \in Keys |-> Older(ages[k])]
    /\ stamp' = [k \in Keys |-> Older(stamp[k])]
    /\ dropped' = {x \in dropped : stamp'[x[1]][x[2][1]][x[2][2]] < Ttl}
    /\ UNCHANGED <<records, order, alive, calls, actor, audit, sent, restarts, seen>>

(* StageProfileSession.finish, when the run is over: the views are saved   *)
(* and the store is killed.                                                *)
Finish ==
    /\ alive /\ alive' = FALSE
    /\ \A a \in Actors : pc[a] = "idle"
    /\ Keep(Unexpired)
    /\ audit' = {x \in {[key |-> k, view |-> View(ages[k])] : k \in Unexpired} : x.view # NoPrior}
    /\ UNCHANGED <<ages, calls, actor, bounds, receipts>>

ProfilesNext ==
    \/ \E c \in calls : Handle(c)
    \/ \E a \in Actors :
        \/ \E c \in Keys \cup {NoContext} : Begin(a, c)
        \/ Seed(a) \/ TimeOut(a) \/ Drop(a) \/ Restart(a)
        \/ \E o \in Shown : DeliverBatch(a, o)
    \/ Tick \/ Finish

ProfilesSpec == ProfilesInit /\ [][ProfilesNext]_profileVars

---------------------------------------------------------------------------
(* What the store should tell of a key, from the receipts alone.           *)
Received(k, kind) ==
    {b \in BatchSizes : stamp[k][kind][b] < Ttl /\ <<k, <<kind, b>>>> \notin dropped}
Exact(k) ==
    LET up == IF Received(k, "ooms") = {} THEN 0 ELSE Least(Received(k, "ooms"))
        safe == {b \in Received(k, "successes") : up = 0 \/ b < up}
    IN  IF up = 1 THEN NoPrior
        ELSE [safe |-> IF safe = {} THEN 0 ELSE Greatest(safe), up |-> up]

(* A new actor is told the smallest OOM and the largest success below it   *)
(* that were received in its stage and exact context less than a TTL ago,  *)
(* each by its own age, from whichever actors, late calls included, unless *)
(* the store had to let them go; so no prior is one that validate_prior    *)
(* rejects and AdaptiveBatch leaves out (StageProfileStore.publish, read). *)
PriorExact ==
    [][\A c \in calls : Handle(c) /\ c.method = "read" /\ c.waiting =>
          reply'[c.actor] = Exact(c.key)]_profileVars

(* Whatever the store records or saves was observed by an outer batch that *)
(* was delivered whole, in that stage and in a context that did not change *)
(* meanwhile (_publish_profile, __call__).                                 *)
OnlyDelivered ==
    /\ \A k \in Keys : Items(k, ages[k]) \subseteq seen
    /\ \A x \in audit :
        /\ x.view.safe # 0 => <<x.key, <<"successes", x.view.safe>>>> \in seen
        /\ x.view.up # 0 => <<x.key, <<"ooms", x.view.up>>>> \in seen
=============================================================================
