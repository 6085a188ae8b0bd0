---------------------------- MODULE BtsUnionFind ----------------------------
(***************************************************************************)
(* The distributed MinHash deduplicator                                    *)
(* (ops/deduplicator/ray_bts_minhash_deduplicator.py).  Map tasks give     *)
(* every row a uid and send its bands, as pairs of a key and the uid, to   *)
(* the union-find actors, each of which owns some of the keys and some of  *)
(* the uids.  The driver then makes all actors exchange edges, in rounds   *)
(* with a barrier between them, until no actor's forest changes; the uids  *)
(* an owner has a parent for are duplicates, and a last pass over the rows *)
(* drops them.                                                             *)
(*                                                                         *)
(* A band's bytes are a key.  Forests are kept with compressed paths, as   *)
(* find leaves them, except right after rebalancing.                       *)
(***************************************************************************)
EXTENDS Integers, FiniteSets, SequencesExt

CONSTANTS
    RowsOf,       \* the rows of each map task, a sequence of sequences
    Keys,         \* the bands that occur
    TableOf,      \* the number a key's actor is computed from
    Inputs,       \* inputs: the bands of each row, how it gets its uid
                  \* (generated, or given by the dataset), how many map
                  \* tasks lose their worker
    ParallelNum,  \* union_find_parallel_num
    BatchSize,    \* BATCH_SIZE: consecutive uids with one owner
    BlockRows,    \* hash_pair_block_rows
    Threshold,    \* union_threshold
    MaxPending    \* max_pending_edge_buffer_task

Tasks  == DOMAIN RowsOf
Rows   == UNION {ToSet(RowsOf[t]) : t \in Tasks}
Actors == 0..(ParallelNum - 1)

ASSUME RowsAssumption ==
    /\ RowsOf \in Seq(Seq(Nat)) /\ IsInjective(FlattenSeq(RowsOf))
    /\ IsFiniteSet(Keys) /\ TableOf \in [Keys -> Nat]
    /\ Inputs \subseteq [bands : [Rows -> SUBSET Keys],
                          mode : {"generated", "given"}, losses : Nat]
ASSUME SizesAssumption ==
    /\ ParallelNum \in Nat \ {0} /\ BatchSize \in Nat \ {0}
    /\ BlockRows \in Nat \ {0} /\ Threshold \in Nat
    /\ MaxPending \in Nat

VARIABLES
    bands, mode,      \* the input
    group,            \* the group of each row; no part of the program
    nextId,           \* the IdGenerator's next uid
    uid,              \* uid[r]: of row r, as the last attempt of its task wrote it
    origin,           \* the row each uid was given to
    task, left,       \* a task's state, and the actors it has still to call
    losses,           \* how many tasks will still lose their worker
    stored, current,  \* an actor's full blocks of pairs, and the one being filled
    hot,              \* hot_key_roots
    todo,             \* the lists of uids an actor has still to union
    parent, oldParent,
    edges, unread,    \* an actor's EdgeBuffer, and who has not read it
    phase, pending,   \* what the driver waits for, and from which actors
    fetched, again,   \* the buffers an actor has read, whether a forest changed
    dups, filtered, kept

input   == <<bands, mode, group>>
mapping == <<nextId, uid, origin, task, left, losses>>
pairs   == <<stored, current, hot>>
forest  == <<parent, oldParent>>
buffers == <<edges, unread>>
driver  == <<phase, pending, fetched, again>>
result  == <<dups, filtered, kept>>
vars == <<bands, mode, group, nextId, uid, origin, task, left, losses, stored, current, hot,
          todo, parent, oldParent, edges, unread, phase, pending, fetched,
          again, dups, filtered, kept>>

(* The rows of a row's group: those it is connected to by common bands.    *)
Group(r) ==
    LET Closed(S) == \A x \in S, y \in Rows : bands[x] \cap bands[y] # {} => y \in S
    IN CHOOSE S \in SUBSET Rows :
           /\ r \in S /\ Closed(S)
           /\ \A T \in SUBSET Rows : r \in T /\ Closed(T) => S \subseteq T

NoRow == -1
Nothing == [x \in {} |-> x]

Init ==
    /\ \E i \in Inputs : bands = i.bands /\ mode = i.mode /\ losses = i.losses
    /\ group = [r \in Rows |-> Group(r)]
    /\ nextId = 0 /\ uid = [r \in Rows |-> NoRow] /\ origin = Nothing
    /\ task = [t \in Tasks |-> "ready"] /\ left = [t \in Tasks |-> {}]
    /\ stored = [a \in Actors |-> {}] /\ current = [a \in Actors |-> << >>]
    /\ hot = [a \in Actors |-> Nothing] /\ todo = [a \in Actors |-> {}]
    /\ parent = [a \in Actors |-> Nothing]
    /\ oldParent = [a \in Actors |-> Nothing]
    /\ edges = [a \in Actors |-> {}] /\ unread = [a \in Actors |-> {}]
    /\ phase = "map" /\ pending = {}
    /\ fetched = [a \in Actors |-> {}] /\ again = FALSE
    /\ dups = [a \in Actors |-> {}] /\ filtered = {} /\ kept = {}

-----------------------------------------------------------------------------
(* Forests.                                                                *)

MinOf(S) == CHOOSE x \in S : \A y \in S : x <= y

(* The actor that owns a uid, and the one a key is sent to.                *)
Owner(u) == (u \div BatchSize) % ParallelNum
Table(k) == TableOf[k] % ParallelNum

Find(p, x) == IF x \in DOMAIN p THEN p[x] ELSE x

(* Mutant: the first root, not the smallest, becomes everybody's parent.   *)
UnionFirst(p, S) ==
    LET roots == {Find(p, x) : x \in S}
        root == CHOOSE x \in roots : \A y \in roots : x >= y
    IN [x \in DOMAIN p \cup (roots \ {root}) |->
           IF Find(p, x) \in roots THEN root ELSE p[x]]

(* union and union_list: the smallest root becomes the parent of the others. *)
Union(p, S) ==
    LET roots == {Find(p, x) : x \in S}
        root == MinOf(roots)
    IN [x \in DOMAIN p \cup (roots \ {root}) |->
           IF Find(p, x) \in roots THEN root ELSE p[x]]

(* rebalancing: the uids of one tree and one owner point at the smallest   *)
(* of them, and only that one at the root.                                 *)
Rebalanced(p) ==
    LET nodes == DOMAIN p \cup {p[x] : x \in DOMAIN p}
        Head1(x) == MinOf({y \in nodes : Find(p, y) = p[x] /\ Owner(y) = Owner(x)})
    IN [x \in DOMAIN p |-> IF Head1(x) = x THEN p[x] ELSE Head1(x)]

(* The paths of a rebalanced forest, compressed.                           *)
Compressed(p) == [x \in DOMAIN p |-> Find(p, p[x])]

EdgesOf(p) == {<<u, p[u]>> : u \in DOMAIN p}
-----------------------------------------------------------------------------
(* Map tasks: minhash_with_uid, band_minhash and calc_minhash.             *)

(* The pairs a task sends to an actor, in the order of its rows: those of  *)
(* the keys ks.                                                            *)
PairsFor(t, a, ids, ks) ==
    FlattenSeq([i \in DOMAIN RowsOf[t] |->
        LET q == SetToSeq({k \in bands[RowsOf[t][i]] \cap ks : Table(k) = a})
        IN [j \in DOMAIN q |-> <<q[j], ids[RowsOf[t][i]]>>]])

NewIds(t) ==
    [i \in DOMAIN RowsOf[t] |->
        IF mode = "given" THEN RowsOf[t][i] ELSE nextId + i - 1]

Claim(t) ==
    /\ phase = "map" /\ task[t] = "ready"
    /\ LET ids == NewIds(t)
           rows == RowsOf[t]
       IN /\ uid' = [r \in Rows |->
                IF r \in ToSet(rows)
                THEN ids[CHOOSE i \in DOMAIN rows : rows[i] = r] ELSE uid[r]]
          /\ origin' = [u \in DOMAIN origin \cup ToSet(ids) |->
                IF u \in ToSet(ids)
                THEN rows[CHOOSE i \in DOMAIN ids : ids[i] = u] ELSE origin[u]]
    /\ nextId' = IF mode = "given" THEN nextId ELSE nextId + Len(RowsOf[t])
    /\ task' = [task EXCEPT ![t] = "calling"]
    /\ left' = [left EXCEPT ![t] =
          {Table(k) : k \in UNION {bands[r] : r \in ToSet(RowsOf[t])}}]
    /\ UNCHANGED <<input, losses, pairs, todo, forest, buffers, driver, result>>

(* The uids of a key among positions of a sequence of pairs.               *)
UidsAt(s, I, k) == {s[i][2] : i \in {j \in I : s[j][1] = k}}
CountAt(s, I, k) == Cardinality({j \in I : s[j][1] = k})


(* add_key_value_pairs.  Pairs of hot keys are united with the key's root  *)
(* at once; the others fill blocks.  Of a full block every key keeps one   *)
(* uid (the smallest; the code keeps its root), and a key that was there   *)
(* more than union_threshold times becomes hot.                            *)
AddPairs(t, a) ==
    /\ phase = "map" /\ task[t] = "calling" /\ a \in left[t] /\ todo[a] = {}
    /\ LET call == PairsFor(t, a, uid, Keys)
           warm == {i \in DOMAIN call : call[i][1] \in DOMAIN hot[a]}
           all == current[a] \o PairsFor(t, a, uid, Keys \ DOMAIN hot[a])
           full == Len(all) \div BlockRows
           Block(n) == ((n - 1) * BlockRows + 1)..(n * BlockRows)
           KeysIn(n) == {all[i][1] : i \in Block(n)}
           heated == {h \in (1..full) \X Keys : CountAt(all, Block(h[1]), h[2]) > Threshold}
       IN /\ todo' = [todo EXCEPT ![a] =
                {{hot[a][k]} \cup UidsAt(call, warm, k) : k \in {call[i][1] : i \in warm}}
                \cup {S \in {UidsAt(all, Block(n), k) : n \in 1..full, k \in Keys} :
                         Cardinality(S) > 1}]
          /\ hot' = [hot EXCEPT ![a] = [k \in DOMAIN @ \cup {h[2] : h \in heated} |->
                IF k \in DOMAIN @ THEN @[k]
                ELSE MinOf(UNION {UidsAt(all, Block(h[1]), k) : h \in {g \in heated : g[2] = k}})]]
          /\ stored' = [stored EXCEPT ![a] = @ \cup UNION
                {{<<k, MinOf(UidsAt(all, Block(n), k))>> : k \in KeysIn(n)} : n \in 1..full}]
          /\ current' = [current EXCEPT ![a] = SubSeq(all, full * BlockRows + 1, Len(all))]
    /\ left' = [left EXCEPT ![t] = @ \ {a}]
    /\ UNCHANGED <<input, nextId, uid, origin, task, losses, forest, buffers, driver, result>>

(* An actor unites one of the lists or edges it works on.                  *)
UnionNext(a) ==
    \E S \in todo[a] :
        /\ parent' = [parent EXCEPT ![a] = Union(@, S)]
        /\ todo' = [todo EXCEPT ![a] = @ \ {S}]
        /\ UNCHANGED <<input, mapping, pairs, oldParent, buffers, driver, result>>

FinishTask(t) ==
    /\ task[t] = "calling" /\ left[t] = {}
    /\ task' = [task EXCEPT ![t] = "written"]
    /\ UNCHANGED <<input, nextId, uid, origin, left, losses, pairs, todo, forest, buffers,
                   driver, result>>

(* Ray runs a task again whose worker died, from its start: with generated *)
(* uids its rows get new ones, and the actors keep what it sent before.    *)
Rerun(t) ==
    /\ phase = "map" /\ task[t] = "calling"
    /\ losses > 0 /\ losses' = losses - 1
    /\ task' = [task EXCEPT ![t] = "ready"] /\ left' = [left EXCEPT ![t] = {}]
    /\ UNCHANGED <<input, nextId, uid, origin, pairs, todo, forest, buffers, driver,
                   result>>
-----------------------------------------------------------------------------
(* merge: the driver starts a task on every actor, waits for all of them,  *)
(* and goes on.                                                            *)

Await(next) ==
    /\ phase' = next /\ pending' = Actors
    /\ fetched' = [a \in Actors |-> {}] /\ again' = FALSE

Finished(a) == pending' = pending \ {a}

(* flush_key_value_pairs: the uids of each key an actor holds.             *)
Runs(a) ==
    LET held == stored[a] \cup ToSet(current[a])
    IN {{h[2] : h \in {g \in held : g[1] = k}} : k \in {h[1] : h \in held}}

StartMerge ==
    /\ phase = "map" /\ \A t \in Tasks : task[t] = "written"
    /\ \A a \in Actors : todo[a] = {}
    /\ Await("redistribute")
    /\ todo' = [a \in Actors |-> {S \in Runs(a) : Cardinality(S) > 1}]
    /\ stored' = [a \in Actors |-> {}] /\ current' = [a \in Actors |-> << >>]
    /\ UNCHANGED <<input, mapping, hot, forest, buffers, result>>

SetEdges(a, E) ==
    /\ edges' = [edges EXCEPT ![a] = E]
    /\ unread' = [unread EXCEPT ![a] = Actors]

(* edge_redistribution.                                                    *)
Redistribute(a) ==
    /\ phase = "redistribute" /\ a \in pending /\ todo[a] = {}
    /\ SetEdges(a, EdgesOf(Rebalanced(parent[a])))
    /\ parent' = [parent EXCEPT ![a] = Nothing]
    /\ Finished(a)
    /\ UNCHANGED <<input, mapping, pairs, todo, oldParent, phase, fetched, again,
                   result>>

(* _group_edges_by_destination: an edge goes to the owners of both ends.   *)
SliceFor(a, E) == {e \in E : a \in {Owner(e[1]), Owner(e[2])}}

(* Mutant: the buffer is freed when its first slice is handed out.         *)
HandOutEarly(a, b) ==
    /\ unread' = [unread EXCEPT ![b] = @ \ {a}]
    /\ edges' = [edges EXCEPT ![b] = {}]

(* EdgeBuffer.get_edges: every slice is handed out once, and the last one  *)
(* frees the buffer.                                                       *)
HandOut(a, b) ==
    /\ unread' = [unread EXCEPT ![b] = @ \ {a}]
    /\ edges' = [edges EXCEPT ![b] = IF unread[b] \subseteq {a} THEN {} ELSE @]

(* balanced_union_find reads the buffers; beyond                           *)
(* max_pending_edge_buffer_task calls it takes the answers as they come.   *)
Fetch(a, b) ==
    /\ phase = "balance" /\ a \in pending /\ b \notin fetched[a] /\ todo[a] = {}
    /\ ParallelNum <= MaxPending + 1 => b = Cardinality(fetched[a])
    /\ fetched' = [fetched EXCEPT ![a] = @ \cup {b}]
    /\ todo' = [todo EXCEPT ![a] =
          IF a \in unread[b] THEN {{e[1], e[2]} : e \in SliceFor(a, edges[b])} ELSE {}]
    /\ HandOut(a, b)
    /\ UNCHANGED <<input, mapping, pairs, forest, phase, pending, again, result>>

(* balanced_union_find, when it has all edges.                             *)
Balance(a) ==
    /\ phase = "balance" /\ a \in pending /\ fetched[a] = Actors /\ todo[a] = {}
    /\ parent' = [parent EXCEPT ![a] = Rebalanced(@)]
    /\ again' = (again \/ oldParent[a] # parent'[a])
    /\ Finished(a)
    /\ UNCHANGED <<input, mapping, pairs, todo, oldParent, buffers, phase, fetched,
                   result>>

(* _collect_communication_edges: what is new, and what points from another *)
(* actor's uid at a root.                                                  *)
News(a) ==
    {e \in EdgesOf(parent[a]) :
        \/ e[2] # Find(oldParent[a], e[1])
        \/ Owner(e[1]) # a /\ e[2] \notin DOMAIN parent[a]}

Own(a) == {u \in DOMAIN parent[a] : Owner(u) = a}

(* Mutant: the copy is taken after other actors' uids are deleted.         *)
CommunicateLate(a) ==
    /\ phase = "communicate" /\ a \in pending
    /\ SetEdges(a, News(a))
    /\ parent' = [parent EXCEPT ![a] = [u \in Own(a) |-> Compressed(@)[u]]]
    /\ oldParent' = [oldParent EXCEPT ![a] = parent'[a]]
    /\ Finished(a)
    /\ UNCHANGED <<input, mapping, pairs, todo, phase, fetched, again, result>>

(* communication.                                                          *)
Communicate(a) ==
    /\ phase = "communicate" /\ a \in pending
    /\ SetEdges(a, News(a))
    /\ oldParent' = [oldParent EXCEPT ![a] = parent[a]]
    /\ parent' = [parent EXCEPT ![a] = [u \in Own(a) |-> Compressed(@)[u]]]
    /\ Finished(a)
    /\ UNCHANGED <<input, mapping, pairs, todo, phase, fetched, again, result>>

(* squeeze.                                                                *)
Squeeze(a) ==
    /\ phase = "squeeze" /\ a \in pending
    /\ dups' = [dups EXCEPT ![a] = Own(a)]
    /\ parent' = [parent EXCEPT ![a] = Nothing]
    /\ oldParent' = [oldParent EXCEPT ![a] = Nothing]
    /\ edges' = [edges EXCEPT ![a] = {}] /\ unread' = [unread EXCEPT ![a] = {}]
    /\ Finished(a)
    /\ UNCHANGED <<input, mapping, pairs, todo, phase, fetched, again, filtered, kept>>

NextRound ==
    /\ pending = {}
    /\ \/ phase \in {"redistribute", "communicate"} /\ Await("balance")
       \/ phase = "balance" /\ again /\ Await("communicate")
       \/ phase = "balance" /\ ~again /\ Await("squeeze")
       \/ phase = "squeeze" /\ Await("filter")
    /\ UNCHANGED <<input, mapping, pairs, todo, forest, buffers, result>>

(* filter_with_union_find and dup_idx, on the rows of one block.           *)
Filter(t) ==
    /\ phase = "filter" /\ t \notin filtered
    /\ filtered' = filtered \cup {t}
    /\ kept' = kept \cup {r \in ToSet(RowsOf[t]) : uid[r] \notin dups[Owner(uid[r])]}
    /\ UNCHANGED <<input, mapping, pairs, todo, forest, buffers, driver, dups>>

Done == phase = "filter" /\ filtered = Tasks

Next ==
    \/ \E t \in Tasks : Claim(t) \/ FinishTask(t) \/ Rerun(t) \/ Filter(t)
    \/ \E t \in Tasks, a \in Actors : AddPairs(t, a)
    \/ \E a \in Actors :
           UnionNext(a) \/ Redistribute(a) \/ Balance(a) \/ Communicate(a) \/ Squeeze(a)
    \/ \E a, b \in Actors : Fetch(a, b)
    \/ StartMerge \/ NextRound
    \/ Done /\ UNCHANGED vars

(* Ray runs the tasks that are submitted to it.                            *)
Spec == Init /\ [][Next]_vars /\ WF_vars(Next)

-----------------------------------------------------------------------------
(* A uid of the group went to an attempt whose rows were not written.      *)
HasGhost(G) == \E u \in DOMAIN origin : origin[u] \in G /\ uid[origin[u]] # u

FirstOf(G) == MinOf({u \in DOMAIN origin : origin[u] \in G})

(* One row of every group of connected rows is kept, never two, and none   *)
(* only if an attempt that was lost had sent the group's smallest uid.     *)
OnePerGroup ==
    Done => \A r \in Rows :
        /\ Cardinality(kept \cap group[r]) <= 1
        /\ ~HasGhost(group[r]) => {uid[x] : x \in kept \cap group[r]} = {FirstOf(group[r])}

(* The first uid of a group is never a duplicate to anyone.                *)
FirstSurvives ==
    phase \notin {"map", "redistribute"} =>
        \A a \in Actors : \A u \in DOMAIN parent[a] \cup dups[a] :
            /\ u # FirstOf(group[origin[u]])
            /\ u \in DOMAIN parent[a] => origin[parent[a][u]] \in group[origin[u]]

(* The rounds come to an end.                                              *)
MergeEnds == <>Done
=============================================================================
