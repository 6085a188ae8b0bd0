------------------------- MODULE BtsUnionFindProofs -------------------------
(***************************************************************************)
(* Proofs about BtsUnionFind, for every input and every number of actors.  *)
(* The first part is about forests and about the order rows are flattened  *)
(* in; then come the invariants, one lemma per action that changes what an *)
(* invariant is about, and the three theorems.                             *)
(***************************************************************************)
EXTENDS BtsUnionFind, SequenceTheorems, FiniteSetTheorems, WellFoundedInduction, TLAPS

-----------------------------------------------------------------------------
(* Least elements.                                                         *)

LEMMA LeastOf ==
    ASSUME NEW n \in Nat, NEW S \in SUBSET (0..n), S # {}
    PROVE  \E m \in S : \A k \in S : m <= k
<1> DEFINE T == {0..m : m \in S}
<1>1. T \in SUBSET FiniteSubsetsOf(0..n) /\ T # {}
  <2>1. IsFiniteSet(0..n)
    BY FS_Interval
  <2>2. \A m \in S : 0..m \in SUBSET (0..n)
    OBVIOUS
  <2>3. \A m \in S : 0..m \in FiniteSubsetsOf(0..n)
    BY <2>1, <2>2, FS_FiniteSubsetsOfFinite
  <2> QED
    BY <2>3
<1>2. PICK U \in T : \A V \in T : ~(<<V, U>> \in StrictSubsetOrdering(0..n))
  <2> HIDE DEF T
  <2> QED
    BY <1>1, FS_StrictSubsetOrderingWellFounded, FS_Interval, WFMin
<1>3. PICK m \in S : U = 0..m
  BY <1>2
<1>4. ASSUME NEW k \in S, k < m PROVE FALSE
  <2>1. 0..k \in T /\ 0..k \subseteq U /\ 0..k # U
    BY <1>3, <1>4
  <2>2. U \in SUBSET (0..n) /\ 0..k \in SUBSET (0..n)
    BY <1>3, <1>4
  <2> HIDE DEF T
  <2> QED
    BY <1>2, <2>1, <2>2 DEF StrictSubsetOrdering
<1> QED
  BY <1>4

(* Induction over 0..n, with a set for the predicate.                      *)
LEMMA UpFromZero ==
    ASSUME NEW n \in Nat, NEW S \in SUBSET (0..n), 0 \in S,
           \A k \in 1..n : k - 1 \in S => k \in S
    PROVE  S = 0..n
<1> SUFFICES ASSUME (0..n) \ S # {} PROVE FALSE
  OBVIOUS
<1>1. PICK m \in (0..n) \ S : \A k \in (0..n) \ S : m <= k
  BY LeastOf
<1>2. m \in 1..n /\ m - 1 \in 0..n /\ m - 1 < m
  BY <1>1
<1> QED
  BY <1>1, <1>2

LEMMA MinOfIs ==
    ASSUME NEW S \in SUBSET Nat, S # {}
    PROVE  MinOf(S) \in S /\ \A y \in S : MinOf(S) <= y
<1>1. PICK n \in S : TRUE
  OBVIOUS
<1> DEFINE T == S \cap 0..n
<1>2. n \in Nat /\ T \in SUBSET (0..n) /\ T # {}
  BY <1>1
<1>3. PICK m \in T : \A k \in T : m <= k
  <2> HIDE DEF T
  <2> QED
    BY <1>2, LeastOf
<1>4. m \in S /\ \A y \in S : m <= y
  <2>1. m \in Nat /\ m <= n
    OBVIOUS
  <2>2. ASSUME NEW y \in S PROVE m <= y
    <3>1. CASE y <= n
      BY <1>3, <3>1
    <3>2. CASE ~(y <= n)
      BY <2>1, <3>2, <1>2
    <3> QED
      BY <3>1, <3>2
  <2> QED
    BY <2>2
<1> QED
  BY <1>4 DEF MinOf

-----------------------------------------------------------------------------
(* Forests.  A forest's parents are smaller than their children.  It is    *)
(* flat when its paths are compressed; after rebalancing a uid may point   *)
(* at a head, which belongs to the same owner, and the head at the root.   *)

Falls(p, D) == \A x \in DOMAIN p : x \in D /\ p[x] \in D /\ p[x] < x

Flat(p) == \A x \in DOMAIN p : p[x] \notin DOMAIN p

Balanced(p) ==
    \A x \in DOMAIN p : /\ Find(p, p[x]) \notin DOMAIN p
                        /\ p[x] \in DOMAIN p => Owner(p[x]) = Owner(x)

Root(p, x) == Find(p, Find(p, x))

(* No edge of p leaves S.                                                  *)
Keeps(p, S) == \A x \in DOMAIN p : x \in S <=> p[x] \in S

LEMMA FlatIsBalanced ==
    ASSUME NEW p, Flat(p)
    PROVE  Balanced(p) /\ \A x : Root(p, x) = Find(p, x) /\ Find(p, x) \notin DOMAIN p
BY DEF Flat, Balanced, Root, Find

LEMMA RootsFall ==
    ASSUME NEW D \in SUBSET Nat, NEW p, Falls(p, D), NEW x \in Nat
    PROVE  /\ Root(p, x) \in Nat /\ Root(p, x) <= x /\ Find(p, x) \in Nat /\ Find(p, x) <= x
           /\ x \in DOMAIN p => Root(p, x) < x /\ Root(p, x) \in D
           /\ x \notin DOMAIN p => Root(p, x) = x
<1>0. \A d \in D : d \in Nat
  OBVIOUS
<1>1. \A y \in Nat : /\ Find(p, y) \in Nat /\ Find(p, y) <= y
                     /\ y \in DOMAIN p => Find(p, y) < y /\ Find(p, y) \in D
                     /\ y \notin DOMAIN p => Find(p, y) = y
  <2> TAKE y \in Nat
  <2>1. CASE y \in DOMAIN p
    <3>1. Find(p, y) = p[y] /\ p[y] \in D /\ p[y] < y
      BY <2>1 DEF Falls, Find
    <3>2. p[y] \in Nat
      BY <1>0, <3>1
    <3> QED
      BY <2>1, <3>1, <3>2
  <2>2. CASE y \notin DOMAIN p
    BY <2>2 DEF Find
  <2> QED
    BY <2>1, <2>2
<1>2. Find(p, x) \in Nat /\ Find(p, Find(p, x)) \in Nat /\ Find(p, Find(p, x)) <= Find(p, x)
  BY <1>1
<1>3. x \in DOMAIN p => Root(p, x) < x /\ Root(p, x) \in D
  <2>1. ASSUME x \in DOMAIN p PROVE Root(p, x) < x /\ Root(p, x) \in D
    <3>1. Find(p, x) < x /\ Find(p, x) \in D
      BY <1>1, <2>1
    <3>2. Find(p, Find(p, x)) \in D
      BY <1>0, <1>1, <3>1
    <3> QED
      BY <1>2, <3>1, <3>2 DEF Root
  <2> QED
    BY <2>1
<1>4. x \notin DOMAIN p => Root(p, x) = x
  BY DEF Root, Find
<1> QED
  BY <1>1, <1>2, <1>3, <1>4 DEF Root

LEMMA RootIsRoot ==
    ASSUME NEW p, Balanced(p), NEW x
    PROVE  Root(p, x) \notin DOMAIN p /\ Root(p, Root(p, x)) = Root(p, x)
<1>1. ASSUME NEW y PROVE Root(p, y) \notin DOMAIN p
  <2>1. CASE y \in DOMAIN p
    BY <2>1 DEF Balanced, Root, Find
  <2>2. CASE y \notin DOMAIN p
    BY <2>2 DEF Root, Find
  <2> QED
    BY <2>1, <2>2
<1>2. \A y : y \notin DOMAIN p => Root(p, y) = y
  BY DEF Root, Find
<1> QED
  BY <1>1, <1>2

LEMMA KeepsRoot ==
    ASSUME NEW p, NEW S, Keeps(p, S), NEW x
    PROVE  x \in S <=> Root(p, x) \in S
BY DEF Keeps, Root, Find

RootsOf(p, T) == {Find(p, x) : x \in T}

LEMMA UnionIs ==
    ASSUME NEW D \in SUBSET Nat, NEW p, Falls(p, D), Flat(p),
           NEW T \in SUBSET D, T # {}
    PROVE  /\ Falls(Union(p, T), D) /\ Flat(Union(p, T))
           /\ MinOf(RootsOf(p, T)) \in RootsOf(p, T)
           /\ \A x : Find(Union(p, T), x)
                       = IF Find(p, x) \in RootsOf(p, T) THEN MinOf(RootsOf(p, T))
                         ELSE Find(p, x)
<1> DEFINE roots == RootsOf(p, T)
           root  == MinOf(roots)
           q     == Union(p, T)
<1>0. \A d \in D : d \in Nat
  OBVIOUS
<1>1. roots \in SUBSET D /\ roots # {}
  BY DEF Find, Falls, RootsOf
<1>2. root \in roots /\ \A y \in roots : root <= y
  <2> HIDE DEF roots
  <2> QED
    BY <1>1, MinOfIs
<1>3. /\ DOMAIN q = DOMAIN p \cup (roots \ {root})
      /\ \A x \in DOMAIN q : q[x] = IF Find(p, x) \in roots THEN root ELSE p[x]
  BY DEF Union, RootsOf
<1>4. \A x \in roots : x \notin DOMAIN p /\ Find(p, x) = x
  BY DEF Find, Flat, RootsOf
<1>5. \A x : Find(p, x) \notin DOMAIN p
  BY FlatIsBalanced
<1> HIDE DEF roots, root, q
<1>6. \A x \in DOMAIN q : x \in D /\ q[x] \in D /\ q[x] < x
  <2> TAKE x \in DOMAIN q
  <2>1. CASE x \in DOMAIN p
    <3>1. x \in D /\ p[x] \in D /\ p[x] < x /\ Find(p, x) = p[x]
      BY <2>1 DEF Falls, Find
    <3>2. p[x] \in roots => root \in D /\ root <= p[x]
      BY <1>1, <1>2
    <3>3. q[x] = root \/ q[x] = p[x]
      BY <1>3
    <3>4. q[x] = root => p[x] \in roots \/ q[x] = p[x]
      BY <1>3, <3>1
    <3>5. x \in Nat /\ p[x] \in Nat /\ root \in Nat
      BY <1>0, <1>1, <1>2, <3>1
    <3> QED
      BY <3>1, <3>2, <3>3, <3>4, <3>5
  <2>2. CASE x \in roots \ {root}
    <3>1. q[x] = root /\ root \in D /\ x \in D /\ root <= x /\ root # x
      BY <2>2, <1>1, <1>2, <1>3, <1>4
    <3>2. root \in Nat /\ x \in Nat
      BY <1>0, <3>1
    <3>3. root < x
      BY <3>1, <3>2
    <3> QED
      BY <3>1, <3>3
  <2> QED
    BY <1>3, <2>1, <2>2
<1>7. \A x : Find(q, x) = IF Find(p, x) \in roots THEN root ELSE Find(p, x)
  <2> TAKE x
  <2>1. CASE x \in DOMAIN q
    <3>1. Find(q, x) = q[x]
      BY <2>1 DEF Find
    <3>2. x \notin DOMAIN p => Find(p, x) \in roots
      BY <1>3, <1>4, <2>1
    <3>3. x \in DOMAIN p => Find(p, x) = p[x]
      BY DEF Find
    <3> QED
      BY <1>3, <2>1, <3>1, <3>2, <3>3
  <2>2. CASE x \notin DOMAIN q
    <3>1. Find(q, x) = x /\ Find(p, x) = x /\ (x \in roots => x = root)
      BY <1>3, <2>2 DEF Find
    <3> QED
      BY <3>1
  <2> QED
    BY <2>1, <2>2
<1>8. Flat(q)
  <2> SUFFICES ASSUME NEW x \in DOMAIN q PROVE q[x] \notin DOMAIN q
    BY DEF Flat
  <2>1. q[x] = IF Find(p, x) \in roots THEN root ELSE Find(p, x)
    BY <1>7 DEF Find
  <2>2. root \notin DOMAIN q
    BY <1>2, <1>3, <1>4
  <2>3. Find(p, x) \notin roots => Find(p, x) \notin DOMAIN q
    BY <1>3, <1>5
  <2> QED
    BY <2>1, <2>2, <2>3
<1> QED
  BY <1>2, <1>6, <1>7, <1>8 DEF Falls, roots, root, q

(* What p joins q joins; q joins T; q moves a uid only into T's tree.      *)
Coarsens(p, q)     == \A x, y : Root(p, x) = Root(p, y) => Root(q, x) = Root(q, y)
OneTree(q, T)      == \A x, y \in T : Root(q, x) = Root(q, y)
OnlyMoves(p, q, T) == \A x : Root(q, x) = Root(p, x) \/ \A y \in T : Root(q, x) = Root(q, y)

(* A union joins the trees of T's uids, and keeps the others as they are.  *)
LEMMA UnionJoins ==
    ASSUME NEW D \in SUBSET Nat, NEW p, Falls(p, D), Flat(p),
           NEW T \in SUBSET D, T # {}
    PROVE  /\ Falls(Union(p, T), D) /\ Flat(Union(p, T))
           /\ Coarsens(p, Union(p, T)) /\ OneTree(Union(p, T), T)
           /\ OnlyMoves(p, Union(p, T), T)
           /\ \A S : Keeps(Union(p, T), S)
                       <=> Keeps(p, S) /\ \A x, y \in T : x \in S <=> y \in S
<1> DEFINE roots == RootsOf(p, T)
           root  == MinOf(roots)
           q     == Union(p, T)
<1>1. /\ Falls(q, D) /\ Flat(q) /\ root \in roots
      /\ \A x : Find(q, x) = IF Find(p, x) \in roots THEN root ELSE Find(p, x)
  BY UnionIs
<1>2. \A x \in T : Find(p, x) \in roots
  BY DEF RootsOf
<1>3. \A r \in roots : \E x \in T : r = Find(p, x)
  BY DEF RootsOf
<1> HIDE DEF roots, root, q
<1>4. \A x : Root(p, x) = Find(p, x) /\ Find(p, x) \notin DOMAIN p
  BY FlatIsBalanced
<1>5. \A x : Root(q, x) = Find(q, x) /\ Find(q, x) \notin DOMAIN q
  BY <1>1, FlatIsBalanced
<1>6. ASSUME NEW S
      PROVE  Keeps(q, S) <=> Keeps(p, S) /\ \A x, y \in T : x \in S <=> y \in S
  <2>1. ASSUME Keeps(q, S) PROVE Keeps(p, S) /\ \A x, y \in T : x \in S <=> y \in S
    <3>1. \A x : x \in S <=> Find(q, x) \in S
      BY <1>5, <2>1, KeepsRoot
    <3>2. ASSUME NEW x \in DOMAIN p PROVE x \in S <=> p[x] \in S
      <4>1. Find(p, x) = p[x] /\ Find(p, p[x]) = p[x]
        BY DEF Find, Flat
      <4>2. Find(q, x) = Find(q, p[x])
        BY <1>1, <4>1
      <4> QED
        BY <3>1, <4>2
    <3>3. \A x \in T : Find(q, x) = root
      BY <1>1, <1>2
    <3> QED
      BY <3>1, <3>2, <3>3 DEF Keeps
  <2>2. ASSUME Keeps(p, S), \A x, y \in T : x \in S <=> y \in S PROVE Keeps(q, S)
    <3>1. \A x : x \in S <=> Find(p, x) \in S
      BY <1>4, <2>2, KeepsRoot
    <3>2. \A r, s \in roots : r \in S <=> s \in S
      BY <1>3, <2>2, <3>1
    <3>3. ASSUME NEW x \in DOMAIN q PROVE x \in S <=> q[x] \in S
      <4>1. Find(q, x) = q[x]
        BY DEF Find
      <4>2. q[x] = IF Find(p, x) \in roots THEN root ELSE Find(p, x)
        BY <1>1, <4>1
      <4> QED
        BY <1>1, <3>1, <3>2, <4>2
    <3> QED
      BY <3>3 DEF Keeps
  <2> QED
    BY <2>1, <2>2
<1>7. Coarsens(p, q)
  BY <1>1, <1>4, <1>5 DEF Coarsens
<1>8. OneTree(q, T)
  BY <1>1, <1>2, <1>5 DEF OneTree
<1>9. OnlyMoves(p, q, T)
  BY <1>1, <1>2, <1>4, <1>5 DEF OnlyMoves
<1> QED
  BY <1>1, <1>6, <1>7, <1>8, <1>9 DEF q

(* Rebalancing changes no tree, only who points at whom.                   *)
LEMMA RebalancedIs ==
    ASSUME NEW D \in SUBSET Nat, NEW p, Falls(p, D), Flat(p)
    PROVE  /\ DOMAIN Rebalanced(p) = DOMAIN p
           /\ Falls(Rebalanced(p), D) /\ Balanced(Rebalanced(p))
           /\ \A x : Root(Rebalanced(p), x) = Root(p, x)
           /\ \A S : Keeps(Rebalanced(p), S) <=> Keeps(p, S)
<1> DEFINE nodes == DOMAIN p \cup {p[x] : x \in DOMAIN p}
           H(x)  == {y \in nodes : Find(p, y) = p[x] /\ Owner(y) = Owner(x)}
           q     == Rebalanced(p)
<1>0. \A d \in D : d \in Nat
  OBVIOUS
<1>1. /\ DOMAIN q = DOMAIN p
      /\ \A x \in DOMAIN p : q[x] = IF MinOf(H(x)) = x THEN p[x] ELSE MinOf(H(x))
  BY DEF Rebalanced
<1>2. nodes \in SUBSET D
  BY DEF Falls
<1>3. \A x \in DOMAIN p : x \in H(x) /\ H(x) \in SUBSET Nat
  BY <1>0, <1>2 DEF Find
<1>4. \A x \in DOMAIN p : /\ MinOf(H(x)) \in D /\ MinOf(H(x)) <= x
                          /\ Find(p, MinOf(H(x))) = p[x]
                          /\ Owner(MinOf(H(x))) = Owner(x)
  <2> TAKE x \in DOMAIN p
  <2>1. MinOf(H(x)) \in H(x) /\ \A y \in H(x) : MinOf(H(x)) <= y
    <3>1. H(x) \in SUBSET Nat /\ H(x) # {}
      BY <1>3
    <3> HIDE DEF H
    <3> QED
      BY <3>1, MinOfIs
  <2> QED
    BY <1>2, <1>3, <2>1
<1>5. \A x, y : x \in DOMAIN p /\ y \in DOMAIN p /\ p[x] = p[y] /\ Owner(x) = Owner(y)
                  => H(x) = H(y)
  OBVIOUS
<1> DEFINE h(x) == MinOf(H(x))
<1>6. \A x \in DOMAIN p : /\ h(x) \in D /\ h(x) <= x
                          /\ Find(p, h(x)) = p[x] /\ Owner(h(x)) = Owner(x)
                          /\ q[x] = IF h(x) = x THEN p[x] ELSE h(x)
  BY <1>1, <1>4
<1>7. \A x, y : x \in DOMAIN p /\ y \in DOMAIN p /\ p[x] = p[y] /\ Owner(x) = Owner(y)
                  => h(x) = h(y)
  BY <1>5
<1> HIDE DEF nodes, H, q, h
<1>8. ASSUME NEW x \in DOMAIN p
      PROVE  /\ q[x] \in D /\ q[x] < x
             /\ p[x] \notin DOMAIN p /\ Find(q, q[x]) = p[x]
             /\ q[x] \in DOMAIN p => Owner(q[x]) = Owner(x)
             /\ Find(p, q[x]) = p[x]
  <2>1. x \in D /\ p[x] \in D /\ p[x] < x /\ p[x] \notin DOMAIN p
    BY DEF Falls, Flat
  <2>2. CASE h(x) = x
    BY <1>1, <1>6, <2>1, <2>2 DEF Find
  <2>3. CASE h(x) # x
    <3>1. q[x] = h(x) /\ h(x) \in D /\ Find(p, h(x)) = p[x] /\ Owner(h(x)) = Owner(x)
      BY <1>6, <2>3
    <3>2. h(x) < x
      <4>1. h(x) \in Nat /\ x \in Nat /\ h(x) <= x
        BY <1>0, <1>6, <2>1
      <4> QED
        BY <2>3, <4>1
    <3>3. CASE h(x) \in DOMAIN p
      <4>1. p[h(x)] = p[x]
        BY <3>1, <3>3 DEF Find
      <4>2. h(h(x)) = h(x)
        BY <1>7, <3>1, <3>3, <4>1
      <4>3. q[h(x)] = p[x]
        BY <1>6, <3>3, <4>1, <4>2
      <4> QED
        BY <1>1, <2>1, <3>1, <3>2, <3>3, <4>3 DEF Find
    <3>4. CASE h(x) \notin DOMAIN p
      <4>1. h(x) = p[x]
        BY <3>1, <3>4 DEF Find
      <4> QED
        BY <1>1, <2>1, <3>1, <3>2, <3>4, <4>1 DEF Find
    <3> QED
      BY <3>3, <3>4
  <2> QED
    BY <2>2, <2>3
<1>9. Falls(q, D)
  <2>1. \A x \in DOMAIN p : x \in D
    BY DEF Falls
  <2> QED
    BY <1>1, <1>8, <2>1 DEF Falls
<1>10. Balanced(q)
  BY <1>1, <1>8 DEF Balanced
<1>11. \A x : Root(q, x) = Root(p, x)
  <2> TAKE x
  <2>1. CASE x \in DOMAIN p
    <3>1. Find(q, x) = q[x] /\ Find(p, x) = p[x]
      BY <1>1, <2>1 DEF Find
    <3>2. Find(p, p[x]) = p[x]
      BY <1>8, <2>1 DEF Find
    <3> QED
      BY <1>8, <2>1, <3>1, <3>2 DEF Root
  <2>2. CASE x \notin DOMAIN p
    BY <1>1, <2>2 DEF Root, Find
  <2> QED
    BY <2>1, <2>2
<1>12. ASSUME NEW S PROVE Keeps(q, S) <=> Keeps(p, S)
  <2>1. ASSUME Keeps(q, S), NEW x \in DOMAIN p PROVE x \in S <=> p[x] \in S
    <3>1. x \in S <=> Root(q, x) \in S
      BY <2>1, KeepsRoot
    <3>2. Root(q, x) = p[x]
      BY <1>1, <1>8 DEF Root, Find
    <3> QED
      BY <3>1, <3>2
  <2>2. ASSUME Keeps(p, S), NEW x \in DOMAIN p PROVE x \in S <=> q[x] \in S
    <3>1. \A y : y \in S <=> Find(p, y) \in S
      BY <2>2 DEF Keeps, Find
    <3>2. x \in S <=> p[x] \in S
      BY <2>2 DEF Keeps
    <3> QED
      BY <1>8, <3>1, <3>2
  <2> QED
    BY <1>1, <2>1, <2>2 DEF Keeps
<1> QED
  BY <1>1, <1>9, <1>10, <1>11, <1>12 DEF q

(* An actor that keeps its own uids keeps their trees, compressed.         *)
LEMMA OwnUidsKeepRoots ==
    ASSUME NEW D \in SUBSET Nat, NEW p, Falls(p, D), Balanced(p), NEW a,
           NEW q, DOMAIN q = {x \in DOMAIN p : Owner(x) = a},
           \A x \in DOMAIN q : q[x] = Root(p, x)
    PROVE  /\ Falls(q, D) /\ Flat(q)
           /\ \A x : Owner(x) = a => Root(q, x) = Root(p, x)
<1>0. \A d \in D : d \in Nat
  OBVIOUS
<1>1. \A x \in DOMAIN q : x \in DOMAIN p /\ x \in D
  BY DEF Falls
<1>2. Falls(q, D)
  <2>1. ASSUME NEW x \in DOMAIN q PROVE x \in D /\ q[x] \in D /\ q[x] < x
    <3>1. x \in DOMAIN p /\ x \in Nat
      BY <1>0, <1>1
    <3>2. Root(p, x) < x /\ Root(p, x) \in D
      BY <3>1, RootsFall
    <3> QED
      BY <1>1, <3>2
  <2> QED
    BY <2>1 DEF Falls
<1>3. \A x \in DOMAIN q : q[x] \notin DOMAIN q
  BY <1>1, RootIsRoot
<1>4. ASSUME NEW x, Owner(x) = a PROVE Root(q, x) = Root(p, x)
  <2>1. CASE x \in DOMAIN p
    <3>1. x \in DOMAIN q /\ Find(q, x) = Root(p, x)
      BY <1>4, <2>1 DEF Find
    <3>2. Find(q, Root(p, x)) = Root(p, x)
      BY <1>3, <3>1 DEF Find
    <3> QED
      BY <3>1, <3>2 DEF Root
  <2>2. CASE x \notin DOMAIN p
    BY <2>2 DEF Root, Find
  <2> QED
    BY <2>1, <2>2
<1> QED
  BY <1>2, <1>3, <1>4 DEF Flat

LEMMA CompressedRoot ==
    ASSUME NEW p, NEW x \in DOMAIN p
    PROVE  Compressed(p)[x] = Root(p, x)
BY DEF Compressed, Root, Find

LEMMA OwnerType ==
    ASSUME NEW u \in Nat
    PROVE  Owner(u) \in Actors
<1>1. u \div BatchSize \in Nat
  BY SizesAssumption
<1> DEFINE n == u \div BatchSize
<1>2. \A m \in Nat : m % ParallelNum \in 0..(ParallelNum - 1)
  BY SizesAssumption
<1> HIDE DEF n
<1>3. n \in Nat => n % ParallelNum \in 0..(ParallelNum - 1)
  BY <1>2
<1> QED
  BY <1>1, <1>3 DEF Owner, Actors, n

(***************************************************************************)
(* What the rounds end with.  F has a forest per actor.  Suppose every     *)
(* owner knows the heads others have for its uids, and is told of every    *)
(* uid that points at a root elsewhere; that every tree an actor holds has *)
(* one of its own uids; and that the owner of a root that an actor's own   *)
(* uid has knows one of the actor's uids of that tree.  Then a uid's root  *)
(* is the same wherever it is known.                                       *)
(***************************************************************************)
ForestsIn(F, D) == \A a \in Actors : Falls(F[a], D) /\ Balanced(F[a])
HeadsKnown(F) ==
    \A a \in Actors : \A x \in DOMAIN F[a] :
        a # Owner(x) /\ Owner(F[a][x]) = Owner(x)
          => Root(F[Owner(x)], x) = Root(F[Owner(x)], F[a][x])
RootsKnown(F) ==
    \A a \in Actors : \A x \in DOMAIN F[a] :
        a # Owner(x) /\ F[a][x] \notin DOMAIN F[a]
          => Root(F[Owner(x)], x) = Root(F[Owner(x)], F[a][x])
OwnInTrees(F) ==
    \A a \in Actors : \A x \in DOMAIN F[a] :
        \E y \in Nat : Owner(y) = a /\ Root(F[a], y) = Root(F[a], x)
RootsAnswer(F) ==
    \A a \in Actors : \A x \in DOMAIN F[a] :
        Owner(x) = a /\ Owner(Root(F[a], x)) # a
          => \E g \in Nat :
                /\ Owner(g) = a /\ Root(F[a], g) = Root(F[a], x)
                /\ \/ Root(F[Owner(Root(F[a], x))], g)
                         = Root(F[Owner(Root(F[a], x))], Root(F[a], x))
                   \/ \E w \in Nat : w < Root(F[a], x) /\ Root(F[a], g) = Root(F[a], w)
SameRoots(F) ==
    \A a \in Actors : \A x \in DOMAIN F[a] :
        /\ Root(F[Owner(x)], x) = Root(F[a], x)
        /\ Root(F[Owner(Root(F[a], x))], Root(F[a], x)) = Root(F[a], x)

LEMMA RootsAgree ==
    ASSUME NEW D \in SUBSET Nat, NEW F,
           ForestsIn(F, D), HeadsKnown(F), RootsKnown(F), OwnInTrees(F), RootsAnswer(F)
    PROVE  SameRoots(F) /\ ForestsIn(F, D)
<1> USE DEF ForestsIn, HeadsKnown, RootsKnown, OwnInTrees, RootsAnswer, SameRoots
<1> DEFINE R(a, x) == Root(F[a], x)
<1>0. \A d \in D : d \in Nat
  OBVIOUS
<1>1. \A a \in Actors, x \in Nat :
          /\ R(a, x) \in Nat /\ R(a, x) <= x
          /\ x \notin DOMAIN F[a] => R(a, x) = x
  BY RootsFall
<1>2. \A a \in Actors, x \in Nat : R(a, R(a, x)) = R(a, x)
  BY RootIsRoot
<1>3. \A a \in Actors : \A x \in DOMAIN F[a] : x \in Nat /\ F[a][x] \in Nat
  BY <1>0 DEF Falls
<1>4. \A x \in Nat : Owner(x) \in Actors
  BY OwnerType
<1>5. ASSUME NEW a \in Actors, NEW x \in Nat
      PROVE  R(Owner(x), x) = R(Owner(x), R(a, x))
  <2>1. CASE x \notin DOMAIN F[a]
    BY <1>1, <2>1
  <2>2. CASE a = Owner(x)
    BY <1>2, <2>2
  <2>3. CASE x \in DOMAIN F[a] /\ a # Owner(x) /\ F[a][x] \notin DOMAIN F[a]
    <3>1. R(a, x) = F[a][x]
      BY <2>3 DEF Root, Find
    <3> QED
      BY <2>3, <3>1
  <2>4. CASE x \in DOMAIN F[a] /\ a # Owner(x) /\ F[a][x] \in DOMAIN F[a]
    <3> DEFINE y == F[a][x]
    <3>1. Owner(y) = Owner(x) /\ F[a][y] \notin DOMAIN F[a]
      BY <2>4 DEF Balanced, Find
    <3>2. R(a, x) = F[a][y]
      BY <2>4 DEF Root, Find
    <3>3. R(Owner(x), x) = R(Owner(x), y)
      BY <2>4, <3>1
    <3>4. R(Owner(y), y) = R(Owner(y), F[a][y])
      BY <2>4, <3>1
    <3> QED
      BY <3>1, <3>2, <3>3, <3>4
  <2> QED
    BY <2>1, <2>2, <2>3, <2>4
<1>6. ASSUME NEW a \in Actors, NEW u \in Nat, Owner(u) = a
      PROVE  R(Owner(R(a, u)), R(a, u)) = R(a, u)
  <2> DEFINE v == R(a, u)
             c == Owner(v)
  <2>0. v \in Nat /\ c \in Actors
    BY <1>1, <1>4
  <2>1. CASE c = a
    BY <1>2, <2>1
  <2>2. CASE u \notin DOMAIN F[a]
    BY <1>1, <1>6, <2>2
  <2>3. CASE c # a /\ u \in DOMAIN F[a]
    <3>1. PICK g \in Nat : /\ Owner(g) = a /\ R(a, g) = v
                           /\ R(c, g) = R(c, v) \/ \E w \in Nat : w < v /\ R(a, g) = R(a, w)
      BY <1>6, <2>3
    <3>2. ~(\E w \in Nat : w < v /\ R(a, g) = R(a, w))
      <4> SUFFICES ASSUME NEW w \in Nat, w < v, R(a, g) = R(a, w) PROVE FALSE
        OBVIOUS
      <4>1. R(a, w) \in Nat /\ R(a, w) <= w /\ R(a, w) = v
        BY <1>1, <3>1
      <4> QED
        BY <2>0, <4>1
    <3>3. R(c, g) = R(c, v)
      BY <3>1, <3>2
    <3>4. R(a, g) = R(a, R(c, g))
      BY <1>5, <2>0, <3>1
    <3>5. R(c, v) \in Nat /\ R(c, v) <= v
      BY <1>1, <2>0
    <3>6. R(a, R(c, v)) <= R(c, v) /\ R(a, R(c, v)) \in Nat
      BY <1>1, <3>5
    <3>7. v <= R(c, v)
      BY <3>1, <3>3, <3>4, <3>6
    <3> QED
      BY <2>0, <3>5, <3>7
  <2> QED
    BY <2>1, <2>2, <2>3
<1>7. ASSUME NEW a \in Actors, NEW u \in DOMAIN F[a]
      PROVE  R(Owner(R(a, u)), R(a, u)) = R(a, u)
  <2>1. PICK x \in Nat : Owner(x) = a /\ R(a, x) = R(a, u)
    BY <1>7
  <2> QED
    BY <1>6, <2>1
<1>8. ASSUME NEW a \in Actors, NEW u \in DOMAIN F[a]
      PROVE  R(Owner(u), u) = R(a, u)
  <2> DEFINE b == Owner(u)
             w == R(a, u)
             z == R(b, u)
             d == Owner(w)
  <2>1. u \in Nat /\ w \in Nat /\ b \in Actors /\ d \in Actors
    BY <1>1, <1>3, <1>4
  <2>2. z = R(b, w) /\ z \in Nat /\ z <= w
    BY <1>1, <1>5, <2>1
  <2>3. R(d, w) = w
    BY <1>7
  <2>4. R(d, w) = R(d, R(b, w))
    BY <1>5, <2>1
  <2>5. R(d, z) <= z /\ R(d, z) \in Nat
    BY <1>1, <2>1, <2>2
  <2> HIDE DEF b, w, z, d
  <2>6. w <= z
    BY <2>2, <2>3, <2>4, <2>5
  <2>7. w = z
    BY <2>1, <2>2, <2>6
  <2> QED
    BY <2>7 DEF w, z, b
<1> QED
  BY <1>7, <1>8

-----------------------------------------------------------------------------
(* Concatenating many sequences.                                           *)

(* f is x, and then what each function of g makes of the value before.     *)
Chain(f, n, g, x) == f = [i \in 0..n |-> IF i = 0 THEN x ELSE g[i][f[i - 1]]]

LEMMA ChainsExist ==
    ASSUME NEW n \in Nat, NEW X, NEW x \in X, NEW g \in [1..n -> [X -> X]]
    PROVE  \E f \in [0..n -> X] : Chain(f, n, g, x)
<1> DEFINE S == {k \in 0..n : \E f \in [0..k -> X] : Chain(f, k, g, x)}
<1>1. 0 \in S
  <2> DEFINE f == [i \in 0..0 |-> x]
  <2>1. f \in [0..0 -> X] /\ Chain(f, 0, g, x)
    BY DEF Chain
  <2> QED
    BY <2>1
<1>2. ASSUME NEW k \in 1..n, k - 1 \in S PROVE k \in S
  <2>1. PICK f \in [0..(k - 1) -> X] : Chain(f, k - 1, g, x)
    BY <1>2
  <2> DEFINE h == [i \in 0..k |-> IF i = k THEN g[k][f[k - 1]] ELSE f[i]]
  <2>2. f[k - 1] \in X /\ g[k] \in [X -> X]
    OBVIOUS
  <2>3. h \in [0..k -> X]
    <3>1. \A i \in 0..k : i # k => i \in 0..(k - 1)
      OBVIOUS
    <3> QED
      BY <2>2, <3>1
  <2>4. \A i \in 0..k : h[i] = IF i = 0 THEN x ELSE g[i][h[i - 1]]
    <3> TAKE i \in 0..k
    <3>1. CASE i = k
      <4>1. h[i - 1] = f[k - 1] /\ i # 0
        BY <3>1
      <4> QED
        BY <3>1, <4>1
    <3>2. CASE i # k
      <4>1. i \in 0..(k - 1) /\ h[i] = f[i]
        BY <3>2
      <4>2. i # 0 => h[i - 1] = f[i - 1]
        BY <4>1
      <4>3. f[i] = IF i = 0 THEN x ELSE g[i][f[i - 1]]
        BY <2>1, <4>1 DEF Chain
      <4> QED
        BY <4>1, <4>2, <4>3
    <3> QED
      BY <3>1, <3>2
  <2>5. Chain(h, k, g, x)
    <3>1. h = [i \in 0..k |-> h[i]]
      OBVIOUS
    <3> HIDE DEF h
    <3>2. h = [i \in 0..k |-> IF i = 0 THEN x ELSE g[i][h[i - 1]]]
      BY <2>4, <3>1
    <3> QED
      BY <3>2 DEF Chain
  <2> QED
    BY <2>3, <2>5
<1>3. S = 0..n
  <2> HIDE DEF S
  <2>1. S \in SUBSET (0..n)
    BY DEF S
  <2> QED
    BY <1>1, <1>2, <2>1, UpFromZero
<1> QED
  BY <1>3

Joins(f, ss) ==
    /\ f[0] = << >>
    /\ \A i \in 1..Len(ss) : f[i] = f[i - 1] \o ss[i]

LEMMA JoinExists ==
    ASSUME NEW X, NEW ss \in Seq(Seq(X))
    PROVE  \E f \in [0..Len(ss) -> Seq(X)] : Joins(f, ss)
<1> DEFINE n == Len(ss)
           g == [i \in 1..n |-> [y \in Seq(X) |-> y \o ss[i]]]
<1>1. n \in Nat /\ << >> \in Seq(X) /\ \A i \in 1..n : ss[i] \in Seq(X)
  BY ElementOfSeq
<1>2. g \in [1..n -> [Seq(X) -> Seq(X)]]
  <2>1. \A i \in 1..n : \A y \in Seq(X) : y \o ss[i] \in Seq(X)
    BY <1>1
  <2> QED
    BY <2>1
<1>3. PICK f \in [0..n -> Seq(X)] : Chain(f, n, g, << >>)
  <2> HIDE DEF n, g
  <2> QED
    BY <1>1, <1>2, ChainsExist
<1>4. \A i \in 0..n : f[i] = IF i = 0 THEN << >> ELSE g[i][f[i - 1]]
  <2> HIDE DEF g
  <2> QED
    BY <1>3 DEF Chain
<1>5. ASSUME NEW i \in 1..n PROVE f[i] = f[i - 1] \o ss[i]
  <2>1. f[i - 1] \in Seq(X)
    <3>1. i - 1 \in 0..n /\ f \in [0..n -> Seq(X)]
      BY <1>1
    <3> HIDE DEF n, g
    <3> QED
      BY <3>1
  <2>2. g[i][f[i - 1]] = f[i - 1] \o ss[i]
    BY <2>1
  <2>3. f[i] = g[i][f[i - 1]]
    <3>1. i \in 0..n /\ i # 0
      BY <1>1
    <3> HIDE DEF n, g
    <3> QED
      BY <3>1, <1>4
  <2> QED
    BY <2>2, <2>3
<1>6. f[0] = << >>
  <2>1. 0 \in 0..n
    BY <1>1
  <2> HIDE DEF n, g
  <2> QED
    BY <1>4, <2>1
<1> QED
  BY <1>3, <1>5, <1>6 DEF Joins

LEMMA FlattenIs ==
    ASSUME NEW X, NEW ss \in Seq(Seq(X)),
           NEW f \in [0..Len(ss) -> Seq(X)], Joins(f, ss)
    PROVE  FlattenSeq(ss) = f[Len(ss)]
<1> DEFINE n == Len(ss)
           Joined(h) == h = [i \in 1..n |-> IF i = 1 THEN ss[i] ELSE h[i - 1] \o ss[i]]
           k == [i \in 1..n |-> f[i]]
<1>0. n \in Nat /\ \A i \in 1..n : ss[i] \in Seq(X)
  BY ElementOfSeq
<1>1. CASE n = 0
  BY <1>1 DEF FlattenSeq, Joins
<1>2. CASE n # 0
  <2>1. \A i \in 1..n : k[i] = IF i = 1 THEN ss[i] ELSE k[i - 1] \o ss[i]
    <3> TAKE i \in 1..n
    <3>1. f[i] = f[i - 1] \o ss[i]
      BY DEF Joins
    <3>2. CASE i = 1
      <4>1. f[i - 1] = << >>
        BY <3>2 DEF Joins
      <4> QED
        BY <1>0, <3>1, <3>2, <4>1
    <3>3. CASE i # 1
      <4>1. k[i] = f[i] /\ i - 1 \in 1..n
        BY <1>0, <3>3
      <4>2. k[i - 1] = f[i - 1]
        BY <4>1
      <4> HIDE DEF k, n
      <4> QED
        BY <3>1, <3>3, <4>1, <4>2
    <3> QED
      BY <3>2, <3>3
  <2>2. Joined(k)
    <3>1. k = [i \in 1..n |-> k[i]]
      OBVIOUS
    <3> HIDE DEF k
    <3> QED
      BY <2>1, <3>1
  <2>3. ASSUME NEW h, Joined(h) PROVE h[n] = k[n]
    <3> DEFINE S == {i \in 0..(n - 1) : h[i + 1] = k[i + 1]}
    <3>1. \A i \in 1..n : h[i] = IF i = 1 THEN ss[i] ELSE h[i - 1] \o ss[i]
      BY <2>3
    <3>2. n - 1 \in Nat /\ S \in SUBSET (0..(n - 1))
      BY <1>0, <1>2
    <3>3. 0 \in S
      <4>1. 1 \in 1..n
        BY <1>0, <1>2
      <4>2. h[1] = ss[1] /\ k[1] = ss[1]
        BY <4>1, <3>1, <2>1
      <4> HIDE DEF k
      <4> QED
        BY <3>2, <4>2
    <3>4. ASSUME NEW i \in 1..(n - 1), i - 1 \in S PROVE i \in S
      <4>1. i \in 1..n /\ i + 1 \in 1..n /\ i + 1 # 1 /\ (i + 1) - 1 = i /\ (i - 1) + 1 = i
        BY <1>0
      <4>2. h[i + 1] = h[i] \o ss[i + 1] /\ k[i + 1] = k[i] \o ss[i + 1]
        BY <4>1, <3>1, <2>1
      <4> HIDE DEF k
      <4>3. h[i] = k[i]
        BY <3>4, <4>1
      <4>4. i \in 0..(n - 1)
        OBVIOUS
      <4> HIDE DEF n
      <4> QED
        BY <4>2, <4>3, <4>4
    <3>5. n - 1 \in S
      <4> HIDE DEF S, n
      <4>1. S = 0..(n - 1)
        BY <3>2, <3>3, <3>4, UpFromZero
      <4> QED
        BY <3>2, <4>1
    <3> HIDE DEF k
    <3> QED
      BY <1>0, <3>5
  <2>4. Joined(CHOOSE h : Joined(h))
    <3> HIDE DEF k
    <3> QED
      BY <2>2
  <2>5. FlattenSeq(ss) = (CHOOSE h : Joined(h))[n]
    BY <1>2 DEF FlattenSeq
  <2>6. (CHOOSE h : Joined(h))[n] = k[n]
    <3> HIDE DEF Joined, k
    <3> QED
      BY <2>3, <2>4
  <2>7. k[n] = f[n]
    BY <1>0, <1>2
  <2> QED
    BY <2>5, <2>6, <2>7
<1> QED
  BY <1>1, <1>2

LEMMA FlattenType ==
    ASSUME NEW X, NEW ss \in Seq(Seq(X))
    PROVE  FlattenSeq(ss) \in Seq(X)
<1>1. PICK f \in [0..Len(ss) -> Seq(X)] : Joins(f, ss)
  BY JoinExists
<1>2. FlattenSeq(ss) = f[Len(ss)]
  BY <1>1, FlattenIs
<1>3. Len(ss) \in 0..Len(ss)
  OBVIOUS
<1> QED
  BY <1>2, <1>3

LEMMA ConcatValues ==
    ASSUME NEW X, NEW s \in Seq(X), NEW t \in Seq(X)
    PROVE  ToSet(s \o t) = ToSet(s) \cup ToSet(t)
<1> DEFINE m == Len(s)
           n == Len(t)
           u == s \o t
<1>1. /\ m \in Nat /\ n \in Nat /\ DOMAIN s = 1..m /\ DOMAIN t = 1..n
      /\ DOMAIN u = 1..(m + n)
      /\ \A i \in 1..(m + n) : u[i] = IF i <= m THEN s[i] ELSE t[i - m]
  OBVIOUS
<1>2. ASSUME NEW i \in 1..(m + n) PROVE u[i] \in ToSet(s) \cup ToSet(t)
  <2>1. (i <= m => i \in 1..m) /\ (~(i <= m) => i - m \in 1..n)
    BY <1>1
  <2> HIDE DEF u, m, n
  <2> QED
    BY <1>1, <2>1 DEF ToSet
<1>3. ASSUME NEW i \in 1..m PROVE s[i] \in ToSet(u)
  <2>1. i \in 1..(m + n) /\ i <= m
    BY <1>1
  <2> HIDE DEF u, m, n
  <2> QED
    BY <1>1, <2>1 DEF ToSet
<1>4. ASSUME NEW i \in 1..n PROVE t[i] \in ToSet(u)
  <2>1. i + m \in 1..(m + n) /\ ~(i + m <= m) /\ (i + m) - m = i
    BY <1>1
  <2> HIDE DEF u, m, n
  <2> QED
    BY <1>1, <2>1 DEF ToSet
<1> HIDE DEF u, m, n
<1>5. ToSet(u) = ToSet(s) \cup ToSet(t)
  <2>1. /\ ToSet(u) = {u[i] : i \in 1..(m + n)} /\ ToSet(s) = {s[i] : i \in 1..m}
        /\ ToSet(t) = {t[i] : i \in 1..n}
    BY <1>1 DEF ToSet
  <2>2. ToSet(u) \subseteq ToSet(s) \cup ToSet(t)
    BY <1>2, <2>1
  <2>3. ToSet(s) \subseteq ToSet(u) /\ ToSet(t) \subseteq ToSet(u)
    BY <1>3, <1>4, <2>1
  <2> QED
    BY <2>2, <2>3
<1> QED
  BY <1>5 DEF u

LEMMA FlattenValues ==
    ASSUME NEW X, NEW ss \in Seq(Seq(X))
    PROVE  ToSet(FlattenSeq(ss)) = UNION {ToSet(ss[i]) : i \in DOMAIN ss}
<1>1. PICK f \in [0..Len(ss) -> Seq(X)] : Joins(f, ss)
  BY JoinExists
<1> DEFINE n == Len(ss)
           S == {k \in 0..n : ToSet(f[k]) = UNION {ToSet(ss[i]) : i \in 1..k}}
<1>2. n \in Nat /\ DOMAIN ss = 1..n /\ \A i \in 1..n : ss[i] \in Seq(X)
  BY ElementOfSeq
<1>3. 0 \in S
  <2>1. f[0] = << >> /\ 0 \in 0..n
    BY <1>1, <1>2 DEF Joins
  <2>2. ToSet(<< >>) = {}
    BY DEF ToSet
  <2>3. UNION {ToSet(ss[i]) : i \in 1..0} = {}
    OBVIOUS
  <2> QED
    BY <2>1, <2>2, <2>3
<1>4. ASSUME NEW k \in 1..n, k - 1 \in S PROVE k \in S
  <2>1. f[k] = f[k - 1] \o ss[k]
    BY <1>1 DEF Joins
  <2>2. f[k - 1] \in Seq(X) /\ ss[k] \in Seq(X)
    <3>1. k - 1 \in 0..n /\ f \in [0..n -> Seq(X)]
      BY <1>2
    <3> HIDE DEF n
    <3> QED
      BY <1>2, <3>1
  <2>3. ToSet(f[k]) = ToSet(f[k - 1]) \cup ToSet(ss[k])
    BY <2>1, <2>2, ConcatValues
  <2>4. 1..k = 1..(k - 1) \cup {k} /\ k \in 0..n
    BY <1>2
  <2>5. UNION {ToSet(ss[i]) : i \in 1..k}
            = UNION {ToSet(ss[i]) : i \in 1..(k - 1)} \cup ToSet(ss[k])
    <3>1. 1..k = 1..(k - 1) \cup {k}
      BY <2>4
    <3> HIDE DEF n, S
    <3> QED
      BY <3>1
  <2>6. ToSet(f[k - 1]) = UNION {ToSet(ss[i]) : i \in 1..(k - 1)}
    BY <1>4
  <2>7. ToSet(f[k]) = UNION {ToSet(ss[i]) : i \in 1..k}
    <3> HIDE DEF n, S
    <3> QED
      BY <2>3, <2>5, <2>6
  <2> HIDE DEF n
  <2> QED
    BY <2>4, <2>7, Zenon
<1>5. S = 0..n
  <2> HIDE DEF S
  <2>1. S \in SUBSET (0..n)
    BY DEF S
  <2> HIDE DEF n
  <2> QED
    BY <1>2, <1>3, <1>4, <2>1, UpFromZero
<1>6. n \in S
  <2>1. n \in 0..n
    BY <1>2
  <2> HIDE DEF n, S
  <2> QED
    BY <1>5, <2>1
<1>7. FlattenSeq(ss) = f[n]
  BY <1>1, FlattenIs
<1> HIDE DEF n
<1> QED
  BY <1>2, <1>6, <1>7

-----------------------------------------------------------------------------
(* The pairs of a map task.                                                *)

LEMMA SetAsSequence ==
    ASSUME NEW S, IsFiniteSet(S)
    PROVE  SetToSeq(S) \in Seq(S) /\ ToSet(SetToSeq(S)) = S
<1> DEFINE n == Cardinality(S)
           s == SetToSeq(S)
<1>1. n \in Nat /\ IsFiniteSet(1..n) /\ Cardinality(1..n) = n
  BY FS_CardinalityType, FS_Interval
<1>2. PICK g \in [1..n -> S] : IsInjective(g)
  <2>1. ExistsBijection(1..n, S)
    BY FS_CardinalityType
  <2> QED
    BY <2>1 DEF ExistsBijection, Bijection, Injection, IsInjective
<1>3. s \in [1..n -> S] /\ IsInjective(s)
  BY <1>2 DEF SetToSeq
<1>4. s \in Injection(1..n, S)
  BY <1>3 DEF Injection, IsInjective
<1>5. s \in Surjection(1..n, S)
  <2> HIDE DEF s
  <2> QED
    BY <1>1, <1>4, FS_Injection
<1>6. \A x \in S : \E i \in 1..n : s[i] = x
  BY <1>5 DEF Surjection
<1> HIDE DEF s
<1>7. ToSet(s) = S
  BY <1>3, <1>6 DEF ToSet
<1>8. s \in Seq(S)
  BY <1>1, <1>3
<1> QED
  BY <1>7, <1>8 DEF s

LEMMA TaskRows ==
    ASSUME NEW t \in Tasks
    PROVE  /\ RowsOf[t] \in Seq(Nat) /\ ToSet(RowsOf[t]) \subseteq Rows
           /\ ToSet(RowsOf[t]) \subseteq Nat
<1>1. RowsOf \in Seq(Seq(Nat))
  BY RowsAssumption
<1>2. RowsOf[t] \in Seq(Nat)
  BY <1>1 DEF Tasks
<1>3. ToSet(RowsOf[t]) \subseteq Rows
  BY DEF Rows
<1>4. ToSet(RowsOf[t]) \subseteq Nat
  BY <1>2 DEF ToSet
<1> QED
  BY <1>2, <1>3, <1>4

LEMMA RowsAreNats == Rows \subseteq Nat
BY TaskRows DEF Rows

PairOf(t, a, ids, ks, z) ==
    \E r \in ToSet(RowsOf[t]) : \E k \in bands[r] \cap ks : Table(k) = a /\ z = <<k, ids[r]>>

LEMMA PairsForIs ==
    ASSUME NEW t \in Tasks, NEW a, NEW ids, NEW ks, NEW X,
           bands \in [Rows -> SUBSET Keys],
           \A r \in ToSet(RowsOf[t]) : ids[r] \in X
    PROVE  /\ PairsFor(t, a, ids, ks) \in Seq(Keys \X X)
           /\ \A r \in ToSet(RowsOf[t]) : \A k \in bands[r] :
                 Table(k) = a /\ k \in ks => <<k, ids[r]>> \in ToSet(PairsFor(t, a, ids, ks))
           /\ \A z \in ToSet(PairsFor(t, a, ids, ks)) : PairOf(t, a, ids, ks, z)
<1> DEFINE rows == RowsOf[t]
           n == Len(rows)
           K(i) == {k \in bands[rows[i]] \cap ks : Table(k) = a}
           q(i) == SetToSeq(K(i))
           s(i) == [j \in DOMAIN q(i) |-> <<q(i)[j], ids[rows[i]]>>]
           ss == [i \in DOMAIN rows |-> s(i)]
<1>1. rows \in Seq(Nat) /\ DOMAIN rows = 1..n /\ n \in Nat
      /\ \A i \in 1..n : rows[i] \in ToSet(rows)
  BY TaskRows DEF ToSet
<1>2. \A i \in 1..n : /\ rows[i] \in Rows /\ ids[rows[i]] \in X
                      /\ K(i) \in SUBSET Keys /\ IsFiniteSet(K(i))
  <2> TAKE i \in 1..n
  <2>1. rows[i] \in Rows /\ ids[rows[i]] \in X
    BY <1>1, TaskRows
  <2>2. K(i) \in SUBSET Keys
    BY <2>1
  <2>3. IsFiniteSet(K(i))
    BY <2>2, FS_Subset, RowsAssumption
  <2> QED
    BY <2>1, <2>2, <2>3
<1>3. \A i \in 1..n : q(i) \in Seq(K(i)) /\ ToSet(q(i)) = K(i)
  BY <1>2, SetAsSequence
<1>4. PairsFor(t, a, ids, ks) = FlattenSeq(ss)
  BY DEF PairsFor
<1> HIDE DEF rows, n, K, q
<1>5. \A i \in 1..n : s(i) \in Seq(Keys \X X)
  <2> TAKE i \in 1..n
  <2>1. q(i) \in Seq(K(i)) /\ K(i) \subseteq Keys /\ ids[rows[i]] \in X
    BY <1>2, <1>3
  <2>2. DOMAIN q(i) = 1..Len(q(i)) /\ Len(q(i)) \in Nat
        /\ \A j \in DOMAIN q(i) : q(i)[j] \in Keys
    BY <2>1
  <2> QED
    BY <2>1, <2>2
<1>6. \A i \in 1..n : ToSet(s(i)) = {<<k, ids[rows[i]]>> : k \in K(i)}
  <2> TAKE i \in 1..n
  <2>1. ToSet(q(i)) = K(i) /\ DOMAIN s(i) = DOMAIN q(i)
        /\ \A j \in DOMAIN q(i) : s(i)[j] = <<q(i)[j], ids[rows[i]]>>
    BY <1>3
  <2> HIDE DEF s
  <2>2. \A z : z \in ToSet(s(i)) <=> \E j \in DOMAIN q(i) : z = <<q(i)[j], ids[rows[i]]>>
    BY <2>1 DEF ToSet
  <2>3. \A k : k \in K(i) <=> \E j \in DOMAIN q(i) : k = q(i)[j]
    BY <2>1 DEF ToSet
  <2> QED
    BY <2>2, <2>3
<1>7. ss \in Seq(Seq(Keys \X X)) /\ DOMAIN ss = 1..n
      /\ \A i \in 1..n : ss[i] = s(i)
  <2>1. DOMAIN ss = 1..n /\ \A i \in 1..n : ss[i] = s(i)
    BY <1>1
  <2>2. ss \in [1..n -> Seq(Keys \X X)]
    <3> HIDE DEF s
    <3> QED
      BY <1>1, <1>5
  <2> HIDE DEF ss
  <2> QED
    BY <1>1, <2>1, <2>2
<1> HIDE DEF ss, s
<1>8. FlattenSeq(ss) \in Seq(Keys \X X)
  BY <1>7, FlattenType
<1>9. ToSet(FlattenSeq(ss)) = UNION {ToSet(ss[i]) : i \in 1..n}
  BY <1>7, FlattenValues
<1>10. \A z : z \in ToSet(FlattenSeq(ss))
                <=> \E i \in 1..n : \E k \in K(i) : z = <<k, ids[rows[i]]>>
  BY <1>6, <1>7, <1>9
<1>11. \A r \in ToSet(rows) : \E i \in 1..n : rows[i] = r
  BY <1>1 DEF ToSet
<1>12. ASSUME NEW r \in ToSet(rows), NEW k \in bands[r], Table(k) = a, k \in ks
       PROVE  <<k, ids[r]>> \in ToSet(FlattenSeq(ss))
  <2>1. PICK i \in 1..n : rows[i] = r
    BY <1>11
  <2>2. k \in K(i)
    BY <1>12, <2>1 DEF K
  <2> QED
    BY <1>10, <2>1, <2>2
<1>13. ASSUME NEW z \in ToSet(FlattenSeq(ss))
       PROVE  PairOf(t, a, ids, ks, z)
  <2>1. PICK i \in 1..n : \E k \in K(i) : z = <<k, ids[rows[i]]>>
    BY <1>10
  <2>2. PICK k \in K(i) : z = <<k, ids[rows[i]]>>
    BY <2>1
  <2>3. k \in bands[rows[i]] \cap ks /\ Table(k) = a
    BY DEF K
  <2> QED
    BY <1>1, <2>2, <2>3 DEF PairOf, rows
<1> QED
  BY <1>4, <1>8, <1>12, <1>13 DEF rows

(* A row is of one task.                                                   *)
LEMMA TasksApart ==
    ASSUME NEW t \in Tasks, NEW u \in Tasks, NEW r \in ToSet(RowsOf[t]), r \in ToSet(RowsOf[u])
    PROVE  t = u
<1> DEFINE n == Len(RowsOf)
<1>1. RowsOf \in Seq(Seq(Nat)) /\ Tasks = 1..n /\ n \in Nat
  BY RowsAssumption DEF Tasks
<1>2. \A i \in 1..n : RowsOf[i] \in Seq(Nat)
  BY <1>1, TaskRows
<1>3. PICK f \in [0..n -> Seq(Nat)] : Joins(f, RowsOf)
  BY <1>1, JoinExists
<1>4. f[0] = << >> /\ \A i \in 1..n : f[i] = f[i - 1] \o RowsOf[i]
  BY <1>3 DEF Joins
<1>5. FlattenSeq(RowsOf) = f[n]
  BY <1>1, <1>3, FlattenIs
<1> HIDE DEF n
<1>6. \A i \in 1..n : /\ f[i] \in Seq(Nat) /\ f[i - 1] \in Seq(Nat)
                      /\ ToSet(f[i]) = ToSet(f[i - 1]) \cup ToSet(RowsOf[i])
  <2> TAKE i \in 1..n
  <2>1. i \in 0..n /\ i - 1 \in 0..n
    BY <1>1
  <2>2. f[i] \in Seq(Nat) /\ f[i - 1] \in Seq(Nat)
    BY <1>3, <2>1
  <2>3. ToSet(f[i - 1] \o RowsOf[i]) = ToSet(f[i - 1]) \cup ToSet(RowsOf[i])
    BY <1>2, <2>2, ConcatValues
  <2> QED
    BY <1>4, <2>2, <2>3
<1>7. ASSUME NEW i \in 1..n, NEW j \in 1..n, i < j,
             NEW x \in ToSet(RowsOf[i]), x \in ToSet(RowsOf[j])
      PROVE  FALSE
  <2> DEFINE S == {k \in 0..n : i <= k => x \in ToSet(f[k])}
             T == {k \in 0..n : j <= k => ~IsInjective(f[k])}
  <2>1. S = 0..n
    <3>1. 0 \in S
      BY <1>1
    <3>2. ASSUME NEW k \in 1..n, k - 1 \in S PROVE k \in S
      <4>1. k \in 0..n /\ (i <= k => i <= k - 1 \/ i = k)
        BY <1>1
      <4>2. i <= k - 1 => x \in ToSet(f[k - 1])
        BY <3>2
      <4>3. i <= k => x \in ToSet(f[k])
        BY <1>6, <1>7, <4>1, <4>2
      <4> QED
        BY <4>1, <4>3
    <3>3. S \in SUBSET (0..n)
      OBVIOUS
    <3> HIDE DEF S
    <3> QED
      BY <1>1, <3>1, <3>2, <3>3, UpFromZero
  <2>2. j - 1 \in 0..n /\ i <= j - 1
    BY <1>1, <1>7
  <2>3. x \in ToSet(f[j - 1])
    BY <2>1, <2>2
  <2>4. ASSUME NEW k \in 1..n,
               \/ ~IsInjective(f[k - 1])
               \/ \E y : y \in ToSet(f[k - 1]) /\ y \in ToSet(RowsOf[k])
        PROVE  ~IsInjective(f[k])
    <3> DEFINE g == f[k - 1]
               h == RowsOf[k]
               m == Len(g)
    <3>1. g \in Seq(Nat) /\ h \in Seq(Nat) /\ f[k] = g \o h
      BY <1>2, <1>4, <1>6
    <3> HIDE DEF g, h
    <3>2. /\ m \in Nat /\ DOMAIN g = 1..m /\ DOMAIN h = 1..Len(h) /\ Len(h) \in Nat
          /\ DOMAIN (g \o h) = 1..(m + Len(h))
          /\ \A p \in 1..m : p \in DOMAIN (g \o h) /\ (g \o h)[p] = g[p]
          /\ \A p \in 1..Len(h) : m + p \in DOMAIN (g \o h) /\ (g \o h)[m + p] = h[p]
      BY <3>1
    <3>3. CASE ~IsInjective(g)
      BY <3>1, <3>2, <3>3 DEF IsInjective
    <3>4. CASE \E y : y \in ToSet(g) /\ y \in ToSet(h)
      <4>1. PICK p \in 1..m, q \in 1..Len(h) : g[p] = h[q]
        BY <3>2, <3>4 DEF ToSet
      <4>2. p # m + q
        BY <3>2
      <4>3. (g \o h)[p] = (g \o h)[m + q] /\ p \in DOMAIN (g \o h) /\ m + q \in DOMAIN (g \o h)
        BY <3>2, <4>1
      <4> QED
        BY <3>1, <4>2, <4>3 DEF IsInjective
    <3> QED
      BY <2>4, <3>3, <3>4 DEF g, h
  <2>5. T = 0..n
    <3>1. 0 \in T
      BY <1>1
    <3>2. ASSUME NEW k \in 1..n, k - 1 \in T PROVE k \in T
      <4>1. k \in 0..n /\ (j <= k => j <= k - 1 \/ j = k)
        BY <1>1
      <4>2. j <= k - 1 => ~IsInjective(f[k - 1])
        BY <3>2
      <4>3. j = k => \E y : y \in ToSet(f[k - 1]) /\ y \in ToSet(RowsOf[k])
        BY <1>7, <2>3
      <4>4. j <= k => ~IsInjective(f[k])
        BY <2>4, <4>1, <4>2, <4>3
      <4> QED
        BY <4>1, <4>4
    <3>3. T \in SUBSET (0..n)
      OBVIOUS
    <3> HIDE DEF T
    <3> QED
      BY <1>1, <3>1, <3>2, <3>3, UpFromZero
  <2>6. ~IsInjective(f[n])
    <3>1. n \in 0..n /\ j <= n
      BY <1>1
    <3> QED
      BY <2>5, <3>1
  <2> QED
    BY <1>5, <2>6, RowsAssumption
<1>8. t < u \/ u < t \/ t = u
  BY <1>1
<1> QED
  BY <1>1, <1>7, <1>8

-----------------------------------------------------------------------------
(* The group of a row: the least set of rows that no common band leaves.   *)

Tied(x, y) == bands[x] \cap bands[y] # {}
Closed(S) == \A x \in S, y \in Rows : Tied(x, y) => y \in S

LEMMA GroupIs ==
    ASSUME NEW r \in Rows
    PROVE  /\ Group(r) \in SUBSET Rows /\ r \in Group(r) /\ Closed(Group(r))
           /\ \A S \in SUBSET Rows : r \in S /\ Closed(S) => Group(r) \subseteq S
<1> DEFINE P(G) == /\ r \in G /\ Closed(G)
                   /\ \A S \in SUBSET Rows : r \in S /\ Closed(S) => G \subseteq S
           M == {x \in Rows : \A S \in SUBSET Rows : r \in S /\ Closed(S) => x \in S}
<1>1. Group(r) = CHOOSE G \in SUBSET Rows : P(G)
  BY DEF Group, Closed, Tied
<1>2. M \in SUBSET Rows
  OBVIOUS
<1>3. P(M)
  <2>1. ASSUME NEW x \in M, NEW y \in Rows, Tied(x, y) PROVE y \in M
    <3>1. ASSUME NEW S \in SUBSET Rows, r \in S, Closed(S) PROVE y \in S
      <4>1. x \in S
        BY <3>1
      <4> QED
        BY <2>1, <3>1, <4>1 DEF Closed
    <3> QED
      BY <3>1
  <2>2. Closed(M)
    <3> HIDE DEF M
    <3> QED
      BY <2>1 DEF Closed
  <2> QED
    BY <2>2
<1>4. \E G \in SUBSET Rows : P(G)
  <2> HIDE DEF M, P
  <2> QED
    BY <1>2, <1>3
<1>5. Group(r) \in SUBSET Rows /\ P(Group(r))
  <2> HIDE DEF P
  <2> QED
    BY <1>1, <1>4
<1> QED
  BY <1>5

(* Rows with a common band are of one group.                               *)
LEMMA TiedGroups ==
    ASSUME NEW x \in Rows, NEW y \in Rows, Tied(x, y)
    PROVE  Group(x) = Group(y)
<1>1. Tied(y, x)
  BY DEF Tied
<1>2. y \in Group(x) /\ x \in Group(y)
  BY <1>1, GroupIs DEF Closed
<1> QED
  BY <1>2, GroupIs

LEMMA GroupsApart ==
    ASSUME NEW x \in Rows, NEW y \in Rows, y \in Group(x)
    PROVE  Group(y) = Group(x)
<1>1. Group(y) \subseteq Group(x)
  BY GroupIs
<1> DEFINE S == Group(x) \ Group(y)
<1>2. ASSUME x \notin Group(y) PROVE FALSE
  <2>1. Closed(S)
    <3> SUFFICES ASSUME NEW v \in S, NEW w \in Rows, Tied(v, w) PROVE w \in S
      BY DEF Closed
    <3>1. w \in Group(x)
      BY GroupIs DEF Closed
    <3>2. w \in Group(y) => v \in Group(y)
      <4>1. Tied(w, v) /\ v \in Rows
        BY GroupIs DEF Tied
      <4> QED
        BY <4>1, GroupIs DEF Closed
    <3> QED
      BY <3>1, <3>2
  <2>2. x \in S /\ S \in SUBSET Rows
    BY <1>2, GroupIs
  <2>3. Group(x) \subseteq S
    <3> HIDE DEF S
    <3> QED
      BY <2>1, <2>2, GroupIs
  <2> QED
    BY <2>3, GroupIs
<1> QED
  BY <1>1, <1>2, GroupIs

-----------------------------------------------------------------------------
(* The invariants.                                                         *)

Uids    == DOMAIN origin
Held(a) == stored[a] \cup ToSet(current[a])
Ends(e) == {Owner(e[1]), Owner(e[2])}

Phases == {"map", "redistribute", "balance", "communicate", "squeeze", "filter"}

TypeInv ==
    /\ bands \in [Rows -> SUBSET Keys] /\ mode \in {"generated", "given"}
    /\ group = [r \in Rows |-> Group(r)]
    /\ nextId \in Nat /\ uid \in [Rows -> Int]
    /\ Uids \in SUBSET Nat /\ IsFiniteSet(Uids)
    /\ \A u \in Uids : origin[u] \in Rows
    /\ DOMAIN task = Tasks /\ DOMAIN left = Tasks
    /\ DOMAIN stored = Actors /\ DOMAIN current = Actors /\ DOMAIN hot = Actors
    /\ DOMAIN todo = Actors /\ DOMAIN parent = Actors /\ DOMAIN oldParent = Actors
    /\ DOMAIN edges = Actors /\ DOMAIN unread = Actors
    /\ DOMAIN fetched = Actors /\ DOMAIN dups = Actors
    /\ phase \in Phases /\ pending \in SUBSET Actors
    /\ \A a \in Actors : unread[a] \in SUBSET Actors /\ fetched[a] \in SUBSET Actors

(* A uid is of the row it was given to; the uids of a running or finished  *)
(* task's rows are known; all tasks are finished before the merge.         *)
TaskInv ==
    /\ mode = "given" => \A u \in Uids : origin[u] = u
    /\ mode = "generated" => \A u \in Uids : u < nextId
    /\ \A t \in Tasks : task[t] # "ready" =>
          \A r \in ToSet(RowsOf[t]) : uid[r] \in Uids /\ origin[uid[r]] = r
    /\ \A t \in Tasks : task[t] = "written" => left[t] = {}
    /\ phase # "map" => \A t \in Tasks : task[t] = "written"

(* What an actor holds is about uids that were given out, and is in the    *)
(* right place.                                                            *)
HeldOK(a) ==
    /\ stored[a] \in SUBSET (Keys \X Nat) /\ current[a] \in Seq(Keys \X Nat)
    /\ \A h \in Held(a) : /\ h \in Keys \X Uids /\ h[1] \in bands[origin[h[2]]]
                          /\ Table(h[1]) = a
    /\ DOMAIN hot[a] \subseteq Keys
    /\ phase = "map" => \A k \in DOMAIN hot[a] : <<k, hot[a][k]>> \in stored[a]
    /\ phase # "map" => Held(a) = {}
TodoOK(a) == \A T \in todo[a] : T # {} /\ T \in SUBSET Uids
ForestOK(a) == /\ Falls(parent[a], Uids) /\ Balanced(parent[a])
               /\ Falls(oldParent[a], Uids) /\ Balanced(oldParent[a])
EdgesOK(a) == edges[a] \in SUBSET (Uids \X Uids)
DataInv == \A a \in Actors : HeldOK(a) /\ TodoOK(a) /\ ForestOK(a) /\ EdgesOK(a)

(* What an actor keeps of its forest when it has sent the news.            *)
KeptOwn(a) ==
    /\ DOMAIN parent[a] = {x \in DOMAIN oldParent[a] : Owner(x) = a}
    /\ \A x \in DOMAIN parent[a] : parent[a][x] = Root(oldParent[a], x)

(* How far an actor is in a phase.                                         *)
ShapeOK(a) ==
    /\ phase = "map" => edges[a] = {} /\ oldParent[a] = Nothing /\ Flat(parent[a])
    /\ phase = "redistribute" =>
          /\ oldParent[a] = Nothing
          /\ a \in pending => edges[a] = {} /\ Flat(parent[a])
          /\ a \notin pending => parent[a] = Nothing /\ unread[a] = Actors /\ todo[a] = {}
    /\ phase = "balance" =>
          /\ \A b \in Actors : a \in unread[b] <=> b \notin fetched[a]
          /\ a \in pending => Flat(parent[a])
          /\ a \notin pending => fetched[a] = Actors /\ todo[a] = {}
    /\ phase = "communicate" =>
          /\ todo[a] = {}
          /\ a \in pending => unread[a] = {}
          /\ a \notin pending => unread[a] = Actors /\ KeptOwn(a)
    /\ phase \in {"squeeze", "filter"} => todo[a] = {} /\ unread[a] = {}
ShapeInv == \A a \in Actors : ShapeOK(a)

Shared == TypeInv /\ TaskInv /\ DataInv /\ ShapeInv

-----------------------------------------------------------------------------
(* Types.                                                                  *)

LEMMA ClaimIs ==
    ASSUME TypeInv, TaskInv, NEW t \in Tasks, Claim(t)
    PROVE  /\ Uids' \in SUBSET Nat /\ IsFiniteSet(Uids') /\ Uids \subseteq Uids'
           /\ \A u \in Uids : origin'[u] = origin[u]
           /\ \A u \in Uids' : origin'[u] \in Rows
           /\ uid' \in [Rows -> Int]
           /\ \A r \in ToSet(RowsOf[t]) : uid'[r] \in Uids' /\ origin'[uid'[r]] = r
           /\ \A r \in Rows \ ToSet(RowsOf[t]) : uid'[r] = uid[r]
           /\ nextId' \in Nat
           /\ mode = "given" => \A u \in Uids' : origin'[u] = u
           /\ mode = "generated" => \A u \in Uids' : u < nextId'
<1> DEFINE rows == RowsOf[t]
           n == Len(rows)
           ids == NewIds(t)
           I == ToSet(ids)
<1>1. /\ rows \in Seq(Nat) /\ n \in Nat /\ DOMAIN rows = 1..n
      /\ \A i \in 1..n : rows[i] \in Nat /\ rows[i] \in Rows /\ rows[i] \in ToSet(rows)
      /\ \A r \in ToSet(rows) : \E i \in 1..n : rows[i] = r
  BY TaskRows DEF ToSet
<1>2. /\ nextId \in Nat /\ mode \in {"generated", "given"} /\ uid \in [Rows -> Int]
      /\ Uids \in SUBSET Nat /\ IsFiniteSet(Uids) /\ \A u \in Uids : origin[u] \in Rows
  BY DEF TypeInv
<1>3. /\ DOMAIN ids = 1..n
      /\ \A i \in 1..n : ids[i] = IF mode = "given" THEN rows[i] ELSE nextId + i - 1
  BY <1>1 DEF NewIds
<1>4. /\ uid' = [r \in Rows |-> IF r \in ToSet(rows)
                                THEN ids[CHOOSE i \in DOMAIN rows : rows[i] = r] ELSE uid[r]]
      /\ origin' = [u \in Uids \cup I |-> IF u \in I
                                          THEN rows[CHOOSE i \in DOMAIN ids : ids[i] = u]
                                          ELSE origin[u]]
      /\ nextId' = IF mode = "given" THEN nextId ELSE nextId + n
  BY DEF Claim, Uids
<1> HIDE DEF rows, n, ids
<1>5. /\ \A i \in 1..n : ids[i] \in I /\ ids[i] \in Nat
      /\ \A u \in I : \E i \in 1..n : ids[i] = u
  <2>1. \A i \in 1..n : ids[i] \in I
    BY <1>3 DEF ToSet
  <2>2. \A u \in I : \E i \in 1..n : ids[i] = u
    BY <1>3 DEF ToSet
  <2>3. \A i \in 1..n : ids[i] \in Nat
    BY <1>1, <1>2, <1>3
  <2> QED
    BY <2>1, <2>2, <2>3
<1>6. I \in SUBSET Nat /\ IsFiniteSet(I)
  <2>1. I \in SUBSET Nat
    BY <1>5
  <2>2. IsFiniteSet(1..n)
    BY <1>1, FS_Interval
  <2>3. [i \in 1..n |-> ids[i]] \in Surjection(1..n, I)
    <3> HIDE DEF I
    <3> QED
      BY <1>5 DEF Surjection
  <2>4. IsFiniteSet(I)
    <3> HIDE DEF I
    <3> QED
      BY <2>2, <2>3, FS_Surjection
  <2> QED
    BY <2>1, <2>4
<1> HIDE DEF I
<1>7. Uids' = Uids \cup I
  BY <1>4 DEF Uids
<1>8. Uids' \in SUBSET Nat /\ IsFiniteSet(Uids') /\ Uids \subseteq Uids'
  BY <1>2, <1>6, <1>7, FS_Union
<1>9. ASSUME NEW i \in 1..n PROVE origin'[ids[i]] = rows[i]
  <2> DEFINE j == CHOOSE k \in DOMAIN ids : ids[k] = ids[i]
  <2>1. j \in 1..n /\ ids[j] = ids[i]
    BY <1>3
  <2>2. origin'[ids[i]] = rows[j]
    BY <1>4, <1>5
  <2> HIDE DEF j
  <2>3. rows[j] = rows[i]
    <3>1. CASE mode = "given"
      BY <1>3, <2>1, <3>1
    <3>2. CASE mode # "given"
      <4>1. nextId + j - 1 = nextId + i - 1
        BY <1>3, <2>1, <3>2
      <4>2. j = i
        BY <1>2, <2>1, <4>1
      <4> QED
        BY <4>2
    <3> QED
      BY <3>1, <3>2
  <2> QED
    BY <2>2, <2>3
<1>10. \A u \in I : \E i \in 1..n : ids[i] = u /\ origin'[u] = rows[i]
  BY <1>5, <1>9
<1>11. \A u \in Uids' \ I : u \in Uids /\ origin'[u] = origin[u]
  BY <1>4, <1>7
<1>12. \A u \in Uids : origin'[u] = origin[u]
  <2> SUFFICES ASSUME NEW u \in I, u \in Uids PROVE origin'[u] = origin[u]
    BY <1>7, <1>11
  <2>1. PICK i \in 1..n : ids[i] = u /\ origin'[u] = rows[i]
    BY <1>10
  <2>2. CASE mode = "given"
    BY <1>3, <2>1, <2>2 DEF TaskInv
  <2>3. CASE mode # "given"
    <3>1. u < nextId /\ u = nextId + i - 1 /\ u \in Nat
      BY <1>2, <1>3, <2>1, <2>3 DEF TaskInv
    <3> QED
      BY <1>1, <1>2, <3>1
  <2> QED
    BY <2>2, <2>3
<1>13. \A u \in Uids' : origin'[u] \in Rows
  BY <1>1, <1>2, <1>10, <1>11
<1>14. ASSUME NEW r \in ToSet(rows)
       PROVE  uid'[r] \in Uids' /\ uid'[r] \in Int /\ origin'[uid'[r]] = r
  <2>1. PICK i \in 1..n : rows[i] = r
    BY <1>1
  <2> DEFINE j == CHOOSE k \in DOMAIN rows : rows[k] = r
  <2>2. j \in 1..n /\ rows[j] = r /\ r \in Rows
    BY <1>1, <2>1
  <2>3. uid'[r] = ids[j]
    BY <1>4, <2>2
  <2> HIDE DEF j
  <2> QED
    BY <1>5, <1>7, <1>9, <2>2, <2>3
<1>15. \A r \in Rows \ ToSet(rows) : uid'[r] = uid[r]
  BY <1>4
<1>16. uid' \in [Rows -> Int]
  <2>1. DOMAIN uid' = Rows /\ uid' = [r \in Rows |-> uid'[r]]
    BY <1>4
  <2>2. \A r \in Rows : uid'[r] \in Int
    BY <1>2, <1>14, <1>15
  <2> QED
    BY <2>1, <2>2
<1>17. nextId' \in Nat
  BY <1>1, <1>2, <1>4
<1>18. ASSUME mode = "given", NEW u \in Uids' PROVE origin'[u] = u
  <2>1. CASE u \in I
    BY <1>3, <1>10, <1>18, <2>1
  <2>2. CASE u \notin I
    BY <1>11, <1>18, <2>2 DEF TaskInv
  <2> QED
    BY <2>1, <2>2
<1>19. ASSUME mode = "generated", NEW u \in Uids' PROVE u < nextId'
  <2>1. nextId' = nextId + n /\ u \in Nat
    BY <1>4, <1>8, <1>19
  <2>2. CASE u \in I
    <3>1. PICK i \in 1..n : ids[i] = u
      BY <1>5, <2>2
    <3>2. u = nextId + i - 1
      BY <1>3, <1>19, <3>1
    <3> QED
      BY <1>1, <1>2, <2>1, <3>2
  <2>3. CASE u \notin I
    <3>1. u < nextId
      BY <1>11, <1>19, <2>3 DEF TaskInv
    <3> QED
      BY <1>1, <1>2, <2>1, <3>1
  <2> QED
    BY <2>2, <2>3
<1> QED
  BY <1>8, <1>12, <1>13, <1>14, <1>15, <1>16, <1>17, <1>18, <1>19 DEF rows

(* What only claiming a task changes.                                      *)
SameRows == UNCHANGED <<bands, mode, group, nextId, uid, origin>>

LEMMA RowsStay ==
    ASSUME [Next]_vars
    PROVE  \/ SameRows
           \/ \E t \in Tasks : Claim(t)
<1>1. CASE UNCHANGED vars
  BY <1>1 DEF vars, SameRows
<1>2. ASSUME NEW t \in Tasks, FinishTask(t) \/ Rerun(t) \/ Filter(t) PROVE SameRows
  BY <1>2 DEF FinishTask, Rerun, Filter, SameRows, input, mapping
<1>3. ASSUME NEW t \in Tasks, NEW a \in Actors, AddPairs(t, a) PROVE SameRows
  BY <1>3 DEF AddPairs, SameRows, input, mapping
<1>4. ASSUME NEW a \in Actors,
             UnionNext(a) \/ Redistribute(a) \/ Balance(a) \/ Communicate(a) \/ Squeeze(a)
      PROVE  SameRows
  BY <1>4 DEF UnionNext, Redistribute, Balance, Communicate, Squeeze, SameRows, input, mapping
<1>5. ASSUME NEW a \in Actors, NEW b \in Actors, Fetch(a, b) PROVE SameRows
  BY <1>5 DEF Fetch, SameRows, input, mapping
<1>6. ASSUME StartMerge \/ NextRound PROVE SameRows
  BY <1>6 DEF StartMerge, NextRound, SameRows, input, mapping
<1> QED
  BY <1>1, <1>2, <1>3, <1>4, <1>5, <1>6 DEF Next

LEMMA TypeNext ==
    ASSUME TypeInv, TaskInv, [Next]_vars
    PROVE  TypeInv'
<1> DEFINE Types == /\ bands \in [Rows -> SUBSET Keys] /\ mode \in {"generated", "given"}
                    /\ group = [r \in Rows |-> Group(r)]
                    /\ nextId \in Nat /\ uid \in [Rows -> Int]
                    /\ Uids \in SUBSET Nat /\ IsFiniteSet(Uids)
                    /\ \A u \in Uids : origin[u] \in Rows
           Maps == /\ DOMAIN task = Tasks /\ DOMAIN left = Tasks
                   /\ DOMAIN stored = Actors /\ DOMAIN current = Actors /\ DOMAIN hot = Actors
                   /\ DOMAIN todo = Actors /\ DOMAIN parent = Actors
                   /\ DOMAIN oldParent = Actors
                   /\ DOMAIN edges = Actors /\ DOMAIN unread = Actors
                   /\ DOMAIN fetched = Actors /\ DOMAIN dups = Actors
           Turns == /\ phase \in Phases /\ pending \in SUBSET Actors
                    /\ \A a \in Actors :
                          unread[a] \in SUBSET Actors /\ fetched[a] \in SUBSET Actors
<1>1. TypeInv <=> Types /\ Maps /\ Turns
  BY DEF TypeInv
<1>2. TypeInv' <=> Types' /\ Maps' /\ Turns'
  BY DEF TypeInv
<1>3. Types'
  <2>1. CASE SameRows
    BY <1>1, <2>1 DEF SameRows, Uids, Group
  <2>2. ASSUME NEW t \in Tasks, Claim(t) PROVE Types'
    <3>1. bands' = bands /\ mode' = mode /\ group' = group
      BY <2>2 DEF Claim, input
    <3>2. group' = [r \in Rows |-> Group(r)']
      BY <1>1, <3>1 DEF Group
    <3> QED
      BY <1>1, <2>2, <3>1, <3>2, ClaimIs
  <2> QED
    BY <2>1, <2>2, RowsStay
<1>4. Maps'
  <2> SUFFICES ASSUME Maps PROVE Maps'
    BY <1>1
  <2>1. CASE UNCHANGED vars
    BY <2>1 DEF vars
  <2>2. ASSUME NEW t \in Tasks, Claim(t) \/ FinishTask(t) \/ Rerun(t) \/ Filter(t)
        PROVE  Maps'
    BY <2>2 DEF Claim, FinishTask, Rerun, Filter, pairs, forest, buffers, driver, result, mapping
  <2>3. ASSUME NEW t \in Tasks, NEW a \in Actors, AddPairs(t, a) PROVE Maps'
    BY <2>3 DEF AddPairs, forest, buffers, driver, result
  <2>4. ASSUME NEW a \in Actors, UnionNext(a) \/ Balance(a) PROVE Maps'
    BY <2>4 DEF UnionNext, Balance, mapping, pairs, buffers, driver, result
  <2>5. ASSUME NEW a \in Actors, Redistribute(a) \/ Communicate(a) PROVE Maps'
    BY <2>5 DEF Redistribute, Communicate, SetEdges, mapping, pairs, result
  <2>6. ASSUME NEW a \in Actors, Squeeze(a) PROVE Maps'
    BY <2>6 DEF Squeeze, mapping, pairs
  <2>7. ASSUME NEW a \in Actors, NEW b \in Actors, Fetch(a, b) PROVE Maps'
    BY <2>7 DEF Fetch, HandOut, mapping, pairs, forest, result
  <2>8. ASSUME StartMerge PROVE Maps'
    BY <2>8 DEF StartMerge, Await, mapping, forest, buffers, result
  <2>9. ASSUME NextRound PROVE Maps'
    BY <2>9 DEF NextRound, Await, mapping, pairs, forest, buffers, result
  <2> QED
    BY <2>1, <2>2, <2>3, <2>4, <2>5, <2>6, <2>7, <2>8, <2>9 DEF Next
<1>5. Turns'
  <2> SUFFICES ASSUME Turns, Maps PROVE Turns'
    BY <1>1
  <2>1. CASE UNCHANGED vars
    BY <2>1 DEF vars
  <2>2. ASSUME NEW t \in Tasks, Claim(t) \/ FinishTask(t) \/ Rerun(t) \/ Filter(t)
        PROVE  Turns'
    BY <2>2 DEF Claim, FinishTask, Rerun, Filter, buffers, driver
  <2>3. ASSUME NEW t \in Tasks, NEW a \in Actors, AddPairs(t, a) PROVE Turns'
    BY <2>3 DEF AddPairs, buffers, driver
  <2>4. ASSUME NEW a \in Actors, UnionNext(a) PROVE Turns'
    BY <2>4 DEF UnionNext, buffers, driver
  <2>5. ASSUME NEW a \in Actors, Balance(a) PROVE Turns'
    BY <2>5 DEF Balance, Finished, buffers
  <2>6. ASSUME NEW a \in Actors, Redistribute(a) \/ Communicate(a) PROVE Turns'
    BY <2>6 DEF Redistribute, Communicate, SetEdges, Finished
  <2>7. ASSUME NEW a \in Actors, Squeeze(a) PROVE Turns'
    BY <2>7 DEF Squeeze, Finished
  <2>8. ASSUME NEW a \in Actors, NEW b \in Actors, Fetch(a, b) PROVE Turns'
    BY <2>8 DEF Fetch, HandOut
  <2>9. ASSUME StartMerge PROVE Turns'
    BY <2>9 DEF StartMerge, Await, buffers, Phases
  <2>10. ASSUME NextRound PROVE Turns'
    BY <2>10 DEF NextRound, Await, buffers, Phases
  <2> QED
    BY <2>1, <2>2, <2>3, <2>4, <2>5, <2>6, <2>7, <2>8, <2>9, <2>10 DEF Next
<1> QED
  BY <1>2, <1>3, <1>4, <1>5

LEMMA TaskNext ==
    ASSUME TypeInv, TaskInv, [Next]_vars
    PROVE  TaskInv'
<1> DEFINE Given == /\ mode = "given" => \A u \in Uids : origin[u] = u
                    /\ mode = "generated" => \A u \in Uids : u < nextId
           Known(t) == task[t] # "ready" =>
                           \A r \in ToSet(RowsOf[t]) : uid[r] \in Uids /\ origin[uid[r]] = r
           Sent1(t) == task[t] = "written" => left[t] = {}
           Over(t)  == phase # "map" => task[t] = "written"
<1>1. TaskInv <=> Given /\ \A t \in Tasks : Known(t) /\ Sent1(t) /\ Over(t)
  BY DEF TaskInv
<1>2. TaskInv' <=> Given' /\ \A t \in Tasks : Known(t)' /\ Sent1(t)' /\ Over(t)'
  BY DEF TaskInv
<1>3. DOMAIN task = Tasks /\ DOMAIN left = Tasks
  BY DEF TypeInv
<1>4. ASSUME NEW t \in Tasks, Claim(t) PROVE TaskInv'
  <2>1. /\ mode' = mode /\ phase' = phase /\ phase = "map"
        /\ task' = [task EXCEPT ![t] = "calling"]
        /\ \A u \in Tasks : u # t => task'[u] = task[u] /\ left'[u] = left[u]
        /\ task'[t] = "calling"
    BY <1>3, <1>4 DEF Claim, input, driver
  <2>2. Given'
    BY <1>4, <2>1, ClaimIs
  <2>3. ASSUME NEW u \in Tasks PROVE Known(u)' /\ Sent1(u)' /\ Over(u)'
    <3>1. Sent1(u)' /\ Over(u)'
      BY <1>1, <2>1
    <3>2. CASE u = t
      BY <1>4, <3>1, <3>2, ClaimIs
    <3>3. CASE u # t
      <4>1. \A r \in ToSet(RowsOf[u]) : r \in Rows \ ToSet(RowsOf[t])
        BY <3>3, TasksApart, TaskRows
      <4>2. \A r \in ToSet(RowsOf[u]) : uid'[r] = uid[r]
        BY <1>4, <4>1, ClaimIs
      <4>3. Uids \subseteq Uids' /\ \A v \in Uids : origin'[v] = origin[v]
        BY <1>4, ClaimIs
      <4>4. Known(u)'
        BY <1>1, <2>1, <3>3, <4>2, <4>3
      <4> QED
        BY <3>1, <4>4
    <3> QED
      BY <3>2, <3>3
  <2> QED
    BY <1>2, <2>2, <2>3
<1>5. CASE SameRows
  <2>1. Given'
    BY <1>1, <1>5 DEF SameRows, Uids
  <2>2. \A t \in Tasks : Known(t)' <=> (task'[t] # "ready" =>
            \A r \in ToSet(RowsOf[t]) : uid[r] \in Uids /\ origin[uid[r]] = r)
    BY <1>5 DEF SameRows, Uids
  <2> DEFINE Fine(t) == /\ task[t] = "ready" => task'[t] = "ready"
                        /\ Sent1(t)' /\ Over(t)'
  <2>3. ASSUME \A t \in Tasks : Fine(t) PROVE TaskInv'
    BY <1>1, <1>2, <2>1, <2>2, <2>3
  <2> HIDE DEF Fine
  <2>4. CASE UNCHANGED vars
    BY <1>1, <2>3, <2>4 DEF vars, Fine
  <2>5. ASSUME NEW t \in Tasks, Claim(t) PROVE TaskInv'
    BY <1>4, <2>5
  <2>6. ASSUME NEW t \in Tasks, FinishTask(t) PROVE TaskInv'
    <3> SUFFICES ASSUME NEW u \in Tasks PROVE Fine(u)
      BY <2>3
    <3>1. /\ task' = [task EXCEPT ![t] = "written"] /\ task[t] = "calling" /\ left[t] = {}
          /\ left' = left /\ phase' = phase
      BY <2>6 DEF FinishTask, driver
    <3> QED
      BY <1>1, <1>3, <3>1 DEF Fine
  <2>7. ASSUME NEW t \in Tasks, Rerun(t) PROVE TaskInv'
    <3> SUFFICES ASSUME NEW u \in Tasks PROVE Fine(u)
      BY <2>3
    <3>1. /\ task' = [task EXCEPT ![t] = "ready"] /\ left' = [left EXCEPT ![t] = {}]
          /\ phase' = phase /\ phase = "map"
      BY <2>7 DEF Rerun, driver
    <3> QED
      BY <1>1, <1>3, <3>1 DEF Fine
  <2>8. ASSUME NEW t \in Tasks, Filter(t) PROVE TaskInv'
    BY <1>1, <2>3, <2>8 DEF Filter, mapping, driver, Fine
  <2>9. ASSUME NEW t \in Tasks, NEW a \in Actors, AddPairs(t, a) PROVE TaskInv'
    <3> SUFFICES ASSUME NEW u \in Tasks PROVE Fine(u)
      BY <2>3
    <3>1. /\ task' = task /\ left' = [left EXCEPT ![t] = @ \ {a}]
          /\ phase' = phase
      BY <2>9 DEF AddPairs, driver
    <3> QED
      BY <1>1, <1>3, <3>1 DEF Fine
  <2>10. ASSUME NEW a \in Actors, UnionNext(a) PROVE TaskInv'
    BY <1>1, <2>3, <2>10 DEF UnionNext, mapping, driver, Fine
  <2>11. ASSUME NEW a \in Actors,
                Redistribute(a) \/ Balance(a) \/ Communicate(a) \/ Squeeze(a)
         PROVE  TaskInv'
    BY <1>1, <2>3, <2>11 DEF Redistribute, Balance, Communicate, Squeeze, mapping, Fine
  <2>12. ASSUME NEW a \in Actors, NEW b \in Actors, Fetch(a, b) PROVE TaskInv'
    BY <1>1, <2>3, <2>12 DEF Fetch, mapping, Fine
  <2>13. ASSUME StartMerge PROVE TaskInv'
    BY <1>1, <2>3, <2>13 DEF StartMerge, Await, mapping, Fine
  <2>14. ASSUME NextRound PROVE TaskInv'
    BY <1>1, <2>3, <2>14 DEF NextRound, Await, mapping, Fine
  <2> QED
    BY <2>4, <2>5, <2>6, <2>7, <2>8, <2>9, <2>10, <2>11, <2>12, <2>13, <2>14 DEF Next
<1> QED
  BY <1>4, <1>5, RowsStay

-----------------------------------------------------------------------------
(* add_key_value_pairs.                                                    *)

LEMMA TimesGrows ==
    ASSUME NEW m \in Nat, NEW n \in Nat, NEW b \in Nat, m <= n
    PROVE  m * b \in Nat /\ n * b \in Nat /\ m * b <= n * b
<1> DEFINE d == n - m
<1>1. d \in Nat /\ n = m + d
  OBVIOUS
<1> HIDE DEF d
<1>2. n * b = m * b + d * b
  BY <1>1
<1>3. \A v \in Nat : v * b \in Nat
  OBVIOUS
<1>4. d * b \in Nat /\ m * b \in Nat /\ n * b \in Nat
  BY <1>1, <1>3
<1> DEFINE u == m * b
           v == n * b
           w == d * b
<1>5. v = u + w /\ u \in Nat /\ v \in Nat /\ w \in Nat
  BY <1>2, <1>4
<1>6. u <= v
  <2> HIDE DEF u, v, w
  <2> QED
    BY <1>5
<1> QED
  BY <1>5, <1>6

(* The blocks of a sequence of length l, and where its rest begins.        *)
LEMMA BlocksCover ==
    ASSUME NEW b \in Nat \ {0}, NEW l \in Nat
    PROVE  /\ l \div b \in Nat /\ (l \div b) * b \in Nat /\ (l \div b) * b <= l
           /\ \A n \in 1..(l \div b) : ((n - 1) * b + 1)..(n * b) \subseteq 1..l
           /\ \A i \in 1..l : i <= (l \div b) * b =>
                 \E n \in 1..(l \div b) : i \in ((n - 1) * b + 1)..(n * b)
<1> DEFINE f == l \div b
<1>1. f \in Nat /\ l % b \in Nat /\ l = b * f + (l % b)
  OBVIOUS
<1>2. f * b \in Nat /\ f * b <= l
  <2> DEFINE r == l % b
  <2>1. l = b * f + r /\ r \in Nat /\ b * f = f * b
    BY <1>1
  <2>2. f * b \in Nat
    BY <1>1, TimesGrows
  <2> HIDE DEF f, r
  <2> QED
    BY <2>1, <2>2
<1> HIDE DEF f
<1>3. \A n \in 1..f : ((n - 1) * b + 1)..(n * b) \subseteq 1..l
  <2> TAKE n \in 1..f
  <2>1. n \in Nat /\ n - 1 \in Nat /\ n <= f
    BY <1>1
  <2>2. n * b \in Nat /\ (n - 1) * b \in Nat /\ n * b <= f * b
    BY <1>1, <2>1, TimesGrows
  <2> DEFINE u == (n - 1) * b
             v == n * b
             w == f * b
  <2>3. u \in Nat /\ v \in Nat /\ w \in Nat /\ v <= w /\ w <= l
    BY <1>2, <2>2
  <2> HIDE DEF u, v, w
  <2>4. (u + 1)..v \subseteq 1..l
    BY <2>3
  <2> QED
    BY <2>4 DEF u, v
<1> DEFINE S == {m \in 0..f : \A i \in 1..l : i <= m * b =>
                                  \E n \in 1..m : i \in ((n - 1) * b + 1)..(n * b)}
<1>4. 0 \in S
  BY <1>1
<1>5. ASSUME NEW k \in 1..f, k - 1 \in S PROVE k \in S
  <2> SUFFICES ASSUME NEW i \in 1..l, i <= k * b
               PROVE  \E n \in 1..k : i \in ((n - 1) * b + 1)..(n * b)
    BY <1>1
  <2>0. k \in Nat /\ k - 1 \in Nat /\ k \in 1..k
    BY <1>1
  <2>1. k * b \in Nat /\ (k - 1) * b \in Nat
    BY <2>0, TimesGrows
  <2>2. CASE i <= (k - 1) * b
    <3>1. PICK n \in 1..(k - 1) : i \in ((n - 1) * b + 1)..(n * b)
      BY <1>5, <2>2
    <3>2. n \in 1..k
      BY <2>0
    <3> QED
      BY <3>1, <3>2
  <2>3. CASE ~(i <= (k - 1) * b)
    <3> DEFINE u == (k - 1) * b
               v == k * b
    <3>1. u \in Nat /\ v \in Nat /\ ~(i <= u) /\ i <= v /\ i \in Nat
      BY <2>1, <2>3
    <3> HIDE DEF u, v
    <3>2. i \in (u + 1)..v
      BY <3>1
    <3> QED
      BY <2>0, <3>2 DEF u, v
  <2> QED
    BY <2>2, <2>3
<1>6. S = 0..f
  <2>1. S \in SUBSET (0..f)
    OBVIOUS
  <2> HIDE DEF S
  <2> QED
    BY <1>1, <1>4, <1>5, <2>1, UpFromZero
<1>7. f \in S
  <2>1. f \in 0..f
    BY <1>1
  <2> HIDE DEF S
  <2> QED
    BY <1>6, <2>1
<1> QED
  BY <1>1, <1>2, <1>3, <1>7 DEF f

LEMMA NotMany ==
    ASSUME NEW U, IsFiniteSet(U), ~(Cardinality(U) > 1), NEW x \in U, NEW y \in U
    PROVE  x = y
<1> SUFFICES ASSUME x # y PROVE FALSE
  OBVIOUS
<1>1. IsFiniteSet({x}) /\ Cardinality({x}) = 1 /\ y \notin {x}
  BY FS_Singleton
<1>2. Cardinality({x} \cup {y}) = 2
  <2>1. Cardinality({x} \cup {y}) = Cardinality({x}) + 1
    BY <1>1, FS_AddElement
  <2> QED
    BY <1>1, <2>1
<1>3. Cardinality({x} \cup {y}) <= Cardinality(U)
  <2>1. {x} \cup {y} \in SUBSET U
    OBVIOUS
  <2> QED
    BY <2>1, FS_Subset
<1>4. Cardinality(U) \in Nat
  BY FS_CardinalityType
<1> QED
  BY <1>2, <1>3, <1>4

(* A pair that belongs to actor a.                                         *)
Right(a, z) == z \in Keys \X Uids /\ z[1] \in bands[origin[z[2]]] /\ Table(z[1]) = a

(* The call, the rows that are in blocks or wait for one, and the blocks.  *)
CallOf(t, a) == PairsFor(t, a, uid, Keys)
ColdOf(t, a) == PairsFor(t, a, uid, Keys \ DOMAIN hot[a])
AllOf(t, a) == current[a] \o ColdOf(t, a)
FullOf(t, a) == Len(AllOf(t, a)) \div BlockRows
BlockOf(n) == ((n - 1) * BlockRows + 1)..(n * BlockRows)
UidsIn(t, a, n, k) == UidsAt(AllOf(t, a), BlockOf(n), k)
WarmOf(t, a) == {i \in DOMAIN CallOf(t, a) : CallOf(t, a)[i][1] \in DOMAIN hot[a]}
HeatedOf(t, a) == {h \in (1..FullOf(t, a)) \X Keys :
                       CountAt(AllOf(t, a), BlockOf(h[1]), h[2]) > Threshold}

WarmTodo(t, a) == {{hot[a][k]} \cup UidsAt(CallOf(t, a), WarmOf(t, a), k) :
                       k \in {CallOf(t, a)[i][1] : i \in WarmOf(t, a)}}
ColdTodo(t, a) == {S \in {UidsIn(t, a, n, k) : n \in 1..FullOf(t, a), k \in Keys} :
                       Cardinality(S) > 1}
HotOf(t, a) == [k \in DOMAIN hot[a] \cup {h[2] : h \in HeatedOf(t, a)} |->
                    IF k \in DOMAIN hot[a] THEN hot[a][k]
                    ELSE MinOf(UNION {UidsIn(t, a, h[1], k) :
                                          h \in {g \in HeatedOf(t, a) : g[2] = k}})]
StoredOf(t, a) == UNION {{<<k, MinOf(UidsIn(t, a, n, k))>> :
                             k \in {AllOf(t, a)[i][1] : i \in BlockOf(n)}} : n \in 1..FullOf(t, a)}
RestOf(t, a) == SubSeq(AllOf(t, a), FullOf(t, a) * BlockRows + 1, Len(AllOf(t, a)))

LEMMA AddPairsIs ==
    ASSUME TypeInv, NEW t \in Tasks, NEW a \in Actors, AddPairs(t, a)
    PROVE  /\ todo'[a] = WarmTodo(t, a) \cup ColdTodo(t, a) /\ hot'[a] = HotOf(t, a)
           /\ stored'[a] = stored[a] \cup StoredOf(t, a) /\ current'[a] = RestOf(t, a)
           /\ \A b \in Actors \ {a} : /\ todo'[b] = todo[b] /\ hot'[b] = hot[b]
                                      /\ stored'[b] = stored[b] /\ current'[b] = current[b]
<1>1. DOMAIN todo = Actors /\ DOMAIN hot = Actors /\ DOMAIN stored = Actors /\ DOMAIN current = Actors
  BY DEF TypeInv
<1>2. todo'[a] = WarmTodo(t, a) \cup ColdTodo(t, a)
  BY <1>1 DEF AddPairs, CallOf, ColdOf, AllOf, FullOf, BlockOf, UidsIn, WarmOf, WarmTodo, ColdTodo
<1>3. hot'[a] = HotOf(t, a)
  BY <1>1 DEF AddPairs, CallOf, ColdOf, AllOf, FullOf, BlockOf, UidsIn, HeatedOf, HotOf
<1>4. stored'[a] = stored[a] \cup StoredOf(t, a)
  BY <1>1 DEF AddPairs, CallOf, ColdOf, AllOf, FullOf, BlockOf, UidsIn, StoredOf
<1>5. current'[a] = RestOf(t, a)
  BY <1>1 DEF AddPairs, CallOf, ColdOf, AllOf, FullOf, RestOf
<1>6. \A b \in Actors \ {a} : /\ todo'[b] = todo[b] /\ hot'[b] = hot[b]
                              /\ stored'[b] = stored[b] /\ current'[b] = current[b]
  BY <1>1 DEF AddPairs
<1> QED
  BY <1>2, <1>3, <1>4, <1>5, <1>6

LEMMA RestIs ==
    ASSUME NEW X, NEW s \in Seq(X), NEW m \in Nat, m <= Len(s)
    PROVE  /\ SubSeq(s, m + 1, Len(s)) \in Seq(X)
           /\ \A z \in ToSet(SubSeq(s, m + 1, Len(s))) : z \in ToSet(s)
           /\ \A i \in DOMAIN s : i > m => s[i] \in ToSet(SubSeq(s, m + 1, Len(s)))
<1> DEFINE n == Len(s)
           w == SubSeq(s, m + 1, n)
<1>1. n \in Nat /\ DOMAIN s = 1..n /\ m <= n /\ \A i \in 1..n : s[i] \in X
  OBVIOUS
<1> HIDE DEF n
<1>2. m + 1 \in Int /\ n \in Int /\ \A i \in (m + 1)..n : s[i] \in X
  BY <1>1
<1>3. /\ w \in Seq(X)
      /\ Len(w) = IF m + 1 <= n THEN n - (m + 1) + 1 ELSE 0
      /\ \A i \in 1..(n - (m + 1) + 1) : w[i] = s[(m + 1) + i - 1]
  BY <1>2, SubSeqProperties
<1> HIDE DEF w
<1>4. Len(w) = n - m /\ DOMAIN w = 1..(n - m) /\ \A i \in 1..(n - m) : w[i] = s[m + i]
  <2>1. Len(w) = n - m
    BY <1>1, <1>3
  <2>2. n - (m + 1) + 1 = n - m /\ \A i \in 1..(n - m) : (m + 1) + i - 1 = m + i
    BY <1>1
  <2> QED
    BY <1>3, <2>1, <2>2
<1>5. ASSUME NEW z \in ToSet(w) PROVE z \in ToSet(s)
  <2>1. PICK i \in 1..(n - m) : z = s[m + i]
    BY <1>4 DEF ToSet
  <2>2. m + i \in 1..n
    BY <1>1
  <2> QED
    BY <1>1, <2>1, <2>2 DEF ToSet
<1>6. ASSUME NEW i \in 1..n, i > m PROVE s[i] \in ToSet(w)
  <2> DEFINE j == i - m
  <2>1. j \in 1..(n - m) /\ m + j = i
    BY <1>1, <1>6
  <2> HIDE DEF j
  <2> QED
    BY <1>4, <2>1 DEF ToSet
<1> QED
  BY <1>1, <1>3, <1>5, <1>6 DEF w, n

(* A call has the pairs of the rows of its task; those whose keys are not  *)
(* hot are to go into blocks.                                              *)
LEMMA CallIs ==
    ASSUME Shared, NEW t \in Tasks, NEW a \in Actors, AddPairs(t, a)
    PROVE  /\ CallOf(t, a) \in Seq(Keys \X Uids) /\ ColdOf(t, a) \in Seq(Keys \X Uids)
           /\ \A z : z \in ToSet(CallOf(t, a)) <=> PairOf(t, a, uid, Keys, z)
           /\ \A z : z \in ToSet(ColdOf(t, a))
                       <=> z \in ToSet(CallOf(t, a)) /\ z[1] \notin DOMAIN hot[a]
<1> DEFINE X == Uids
           ks == Keys \ DOMAIN hot[a]
           c == PairsFor(t, a, uid, Keys)
           d == PairsFor(t, a, uid, ks)
<1>1. /\ bands \in [Rows -> SUBSET Keys] /\ ToSet(RowsOf[t]) \subseteq Rows
      /\ \A r \in ToSet(RowsOf[t]) : uid[r] \in X
  <2>1. task[t] # "ready"
    BY DEF AddPairs
  <2> QED
    BY <2>1, TaskRows DEF Shared, TypeInv, TaskInv
<1> HIDE DEF X, ks
<1>2. c \in Seq(Keys \X X) /\ d \in Seq(Keys \X X)
  BY <1>1, PairsForIs
<1>3. \A z \in ToSet(c) : PairOf(t, a, uid, Keys, z)
  BY <1>1, PairsForIs
<1>4. \A z \in ToSet(d) : PairOf(t, a, uid, ks, z)
  BY <1>1, PairsForIs
<1>5. \A r \in ToSet(RowsOf[t]) : \A k \in bands[r] :
          Table(k) = a /\ k \in Keys => <<k, uid[r]>> \in ToSet(c)
  BY <1>1, PairsForIs
<1>6. \A r \in ToSet(RowsOf[t]) : \A k \in bands[r] :
          Table(k) = a /\ k \in ks => <<k, uid[r]>> \in ToSet(d)
  BY <1>1, PairsForIs
<1> HIDE DEF c, d
<1>7. \A z : z \in ToSet(c) <=> PairOf(t, a, uid, Keys, z)
  BY <1>3, <1>5 DEF PairOf
<1>8. \A z : z \in ToSet(d) <=> PairOf(t, a, uid, ks, z)
  BY <1>4, <1>6 DEF PairOf
<1>9. \A z : PairOf(t, a, uid, ks, z) <=> PairOf(t, a, uid, Keys, z) /\ z[1] \notin DOMAIN hot[a]
  BY DEF PairOf, ks
<1> QED
  BY <1>2, <1>7, <1>8, <1>9 DEF CallOf, ColdOf, X, c, d, ks

(* What a call sends, and all it fills blocks with, belongs to the actor.  *)
LEMMA CallIsRight ==
    ASSUME Shared, NEW t \in Tasks, NEW a \in Actors, AddPairs(t, a)
    PROVE  /\ CallOf(t, a) \in Seq(Keys \X Nat) /\ AllOf(t, a) \in Seq(Keys \X Nat)
           /\ \A z \in ToSet(CallOf(t, a)) : Right(a, z)
           /\ \A z \in ToSet(AllOf(t, a)) : Right(a, z)
           /\ ToSet(AllOf(t, a)) = ToSet(current[a]) \cup ToSet(ColdOf(t, a))
           /\ \A r \in ToSet(RowsOf[t]) : \A k \in bands[r] :
                 Table(k) = a => <<k, uid[r]>> \in ToSet(CallOf(t, a))
<1>1. /\ Uids \in SUBSET Nat /\ bands \in [Rows -> SUBSET Keys]
      /\ \A r \in ToSet(RowsOf[t]) : uid[r] \in Uids /\ origin[uid[r]] = r
      /\ ToSet(RowsOf[t]) \subseteq Rows
  <2>1. task[t] # "ready"
    BY DEF AddPairs
  <2> QED
    BY <2>1, TaskRows DEF Shared, TypeInv, TaskInv
<1>2. \A r \in ToSet(RowsOf[t]) : \A k \in bands[r] :
          k \in Keys /\ (Table(k) = a => <<k, uid[r]>> \in ToSet(CallOf(t, a)))
  <2> TAKE r \in ToSet(RowsOf[t])
  <2> TAKE k \in bands[r]
  <2>1. k \in Keys
    BY <1>1
  <2>2. Table(k) = a => PairOf(t, a, uid, Keys, <<k, uid[r]>>)
    BY <2>1 DEF PairOf
  <2> QED
    BY <2>1, <2>2, CallIs
<1>3. \A z \in ToSet(CallOf(t, a)) : Right(a, z)
  <2> TAKE z \in ToSet(CallOf(t, a))
  <2>1. PairOf(t, a, uid, Keys, z)
    BY CallIs
  <2>2. PICK r \in ToSet(RowsOf[t]) : \E k \in bands[r] \cap Keys : Table(k) = a /\ z = <<k, uid[r]>>
    BY <2>1 DEF PairOf
  <2>3. PICK k \in bands[r] \cap Keys : Table(k) = a /\ z = <<k, uid[r]>>
    BY <2>2
  <2> QED
    BY <1>1, <2>3 DEF Right
<1> DEFINE C == ColdOf(t, a)
<1>4. /\ CallOf(t, a) \in Seq(Keys \X Nat) /\ C \in Seq(Keys \X Nat)
      /\ \A z \in ToSet(C) : z \in ToSet(CallOf(t, a))
  <2>1. \A z \in Keys \X Uids : z \in Keys \X Nat
    BY <1>1
  <2>2. CallOf(t, a) \in Seq(Keys \X Uids) /\ C \in Seq(Keys \X Uids)
    BY CallIs
  <2>3. \A z \in ToSet(C) : z \in ToSet(CallOf(t, a))
    BY CallIs
  <2> HIDE DEF C
  <2> QED
    BY <2>1, <2>2, <2>3
<1>5. HeldOK(a)
  BY DEF Shared, DataInv
<1>6. current[a] \in Seq(Keys \X Nat) /\ \A z \in ToSet(current[a]) : Right(a, z)
  BY <1>5 DEF HeldOK, Held, Right
<1>7. AllOf(t, a) = current[a] \o C
  BY DEF AllOf
<1> HIDE DEF C
<1>8. AllOf(t, a) \in Seq(Keys \X Nat) /\ ToSet(AllOf(t, a)) = ToSet(current[a]) \cup ToSet(C)
  <2>1. current[a] \o C \in Seq(Keys \X Nat)
    BY <1>4, <1>6, ConcatProperties
  <2> QED
    BY <1>4, <1>6, <1>7, <2>1, ConcatValues
<1> QED
  BY <1>2, <1>3, <1>4, <1>6, <1>8 DEF C

(* The full blocks, and what is left of the sequence for the next one.     *)
LEMMA BlocksAre ==
    ASSUME Shared, NEW t \in Tasks, NEW a \in Actors, AddPairs(t, a)
    PROVE  /\ \A n \in 1..FullOf(t, a) : \A k : \A x :
                 x \in UidsIn(t, a, n, k) <=> \E i \in BlockOf(n) : AllOf(t, a)[i] = <<k, x>>
           /\ \A n \in 1..FullOf(t, a) : \A k : UidsIn(t, a, n, k) \in SUBSET Uids
           /\ \A n \in 1..FullOf(t, a) : \A k : \A x \in UidsIn(t, a, n, k) :
                 Right(a, <<k, x>>)
           /\ current'[a] \in Seq(Keys \X Nat)
           /\ \A z \in ToSet(current'[a]) : Right(a, z)
           /\ \A z \in ToSet(AllOf(t, a)) :
                 \/ z \in ToSet(current'[a])
                 \/ \E n \in 1..FullOf(t, a) : \E i \in BlockOf(n) : AllOf(t, a)[i] = z
<1> DEFINE all == AllOf(t, a)
           full == FullOf(t, a)
           l == Len(all)
<1>1. /\ all \in Seq(Keys \X Nat) /\ \A z \in ToSet(all) : Right(a, z)
      /\ current'[a] = SubSeq(all, full * BlockRows + 1, l)
  <2>1. all \in Seq(Keys \X Nat) /\ \A z \in ToSet(all) : Right(a, z)
    BY CallIsRight
  <2>2. TypeInv
    BY DEF Shared
  <2>3. current'[a] = SubSeq(all, full * BlockRows + 1, l)
    BY <2>2, AddPairsIs DEF RestOf
  <2> QED
    BY <2>1, <2>3
<1>2. full = l \div BlockRows
  BY DEF FullOf
<1> HIDE DEF all, full
<1>3. l \in Nat /\ DOMAIN all = 1..l /\ \A i \in 1..l : all[i] \in Keys \X Nat /\ all[i] \in ToSet(all)
  BY <1>1 DEF ToSet
<1>4. BlockRows \in Nat \ {0}
  BY SizesAssumption
<1> HIDE DEF l
<1>5. /\ full * BlockRows \in Nat /\ full * BlockRows <= l
      /\ \A n \in 1..full : BlockOf(n) \subseteq 1..l
      /\ \A i \in 1..l : i <= full * BlockRows => \E n \in 1..full : i \in BlockOf(n)
  BY <1>2, <1>3, <1>4, BlocksCover DEF BlockOf
<1>6. \A n \in 1..full : \A k : \A x :
          x \in UidsIn(t, a, n, k) <=> \E i \in BlockOf(n) : all[i] = <<k, x>>
  <2> TAKE n \in 1..full
  <2> TAKE k
  <2> TAKE x
  <2>1. UidsIn(t, a, n, k) = {all[i][2] : i \in {j \in BlockOf(n) : all[j][1] = k}}
    BY DEF UidsIn, UidsAt, all
  <2>2. \A i \in BlockOf(n) : all[i] \in Keys \X Nat
    BY <1>3, <1>5
  <2>3. \A i \in BlockOf(n) : all[i] = <<k, x>> <=> all[i][1] = k /\ all[i][2] = x
    BY <2>2
  <2> QED
    BY <2>1, <2>3
<1>7. \A n \in 1..full : \A k : \A x \in UidsIn(t, a, n, k) : Right(a, <<k, x>>)
  <2> TAKE n \in 1..full
  <2> TAKE k
  <2> TAKE x \in UidsIn(t, a, n, k)
  <2>1. PICK i \in BlockOf(n) : all[i] = <<k, x>>
    BY <1>6
  <2>2. i \in 1..l
    BY <1>5
  <2> QED
    BY <1>1, <1>3, <2>1, <2>2
<1>8. \A n \in 1..full : \A k : UidsIn(t, a, n, k) \in SUBSET Uids
  BY <1>7 DEF Right
<1> DEFINE c == SubSeq(all, full * BlockRows + 1, l)
<1>9. /\ c \in Seq(Keys \X Nat) /\ \A z \in ToSet(c) : z \in ToSet(all)
      /\ \A i \in 1..l : i > full * BlockRows => all[i] \in ToSet(c)
  <2> DEFINE m == full * BlockRows
  <2>1. m \in Nat /\ m <= Len(all) /\ l = Len(all) /\ DOMAIN all = 1..l
    BY <1>3, <1>5 DEF l
  <2> HIDE DEF m
  <2> QED
    BY <1>1, <2>1, RestIs DEF m
<1>10. \A z \in ToSet(all) :
          z \in ToSet(c) \/ \E n \in 1..full : \E i \in BlockOf(n) : all[i] = z
  <2> TAKE z \in ToSet(all)
  <2>1. PICK i \in 1..l : all[i] = z
    BY <1>3 DEF ToSet
  <2>2. i <= full * BlockRows \/ i > full * BlockRows
    BY <1>5
  <2> HIDE DEF c
  <2> QED
    BY <1>5, <1>9, <2>1, <2>2
<1>11. c = current'[a]
  BY <1>1
<1> HIDE DEF c
<1> QED
  BY <1>1, <1>6, <1>7, <1>8, <1>9, <1>10, <1>11 DEF all, full

LEMMA StoredIs ==
    ASSUME Shared, NEW t \in Tasks, NEW a \in Actors, AddPairs(t, a)
    PROVE  /\ \A z \in StoredOf(t, a) : Right(a, z)
           /\ \A n \in 1..FullOf(t, a) : \A i \in BlockOf(n) : \A k, x :
                 AllOf(t, a)[i] = <<k, x>> =>
                    /\ MinOf(UidsIn(t, a, n, k)) \in UidsIn(t, a, n, k)
                    /\ <<k, MinOf(UidsIn(t, a, n, k))>> \in StoredOf(t, a)
<1> DEFINE all == AllOf(t, a)
           full == FullOf(t, a)
           U(n, k) == UidsIn(t, a, n, k)
           M(n) == {<<k, MinOf(U(n, k))>> : k \in {all[i][1] : i \in BlockOf(n)}}
<1>1. StoredOf(t, a) = UNION {M(n) : n \in 1..full}
  BY DEF StoredOf
<1>2. Uids \in SUBSET Nat
  BY DEF Shared, TypeInv
<1>3. \A n \in 1..full : \A k : \A x : x \in U(n, k) <=> \E i \in BlockOf(n) : all[i] = <<k, x>>
  BY BlocksAre
<1>4. \A n \in 1..full : \A k : U(n, k) \in SUBSET Nat
  BY <1>2, BlocksAre
<1>5. \A n \in 1..full : \A k : \A x \in U(n, k) : Right(a, <<k, x>>)
  BY BlocksAre
<1>6. ASSUME NEW n \in 1..full, NEW i \in BlockOf(n) PROVE all[i] = <<all[i][1], all[i][2]>>
  <2>1. all \in Seq(Keys \X Nat) /\ BlockOf(n) \subseteq DOMAIN all
    <3>1. all \in Seq(Keys \X Nat)
      BY CallIsRight
    <3>2. full = Len(all) \div BlockRows /\ BlockRows \in Nat \ {0}
      BY SizesAssumption DEF FullOf
    <3> HIDE DEF all, full
    <3> DEFINE l == Len(all)
    <3>3. l \in Nat
      BY <3>1
    <3>4. full = l \div BlockRows
      BY <3>2
    <3> HIDE DEF l
    <3>5. BlockOf(n) \subseteq 1..l
      BY <3>2, <3>3, <3>4, BlocksCover DEF BlockOf
    <3> QED
      BY <3>1, <3>5 DEF l
  <2>2. all[i] \in Keys \X Nat
    BY <2>1
  <2> QED
    BY <2>2
<1> HIDE DEF all, full, U
<1>7. ASSUME NEW n \in 1..full, NEW i \in BlockOf(n), NEW k, NEW x, all[i] = <<k, x>>
      PROVE  MinOf(U(n, k)) \in U(n, k) /\ <<k, MinOf(U(n, k))>> \in UNION {M(m) : m \in 1..full}
  <2>1. x \in U(n, k) /\ U(n, k) \in SUBSET Nat
    BY <1>3, <1>4, <1>7
  <2>2. MinOf(U(n, k)) \in U(n, k)
    BY <2>1, MinOfIs
  <2>3. k \in {all[j][1] : j \in BlockOf(n)}
    BY <1>7
  <2> QED
    BY <2>2, <2>3
<1>8. ASSUME NEW z \in UNION {M(n) : n \in 1..full} PROVE Right(a, z)
  <2>1. PICK n \in 1..full : z \in M(n)
    OBVIOUS
  <2>2. PICK i \in BlockOf(n) : z = <<all[i][1], MinOf(U(n, all[i][1]))>>
    BY <2>1
  <2> DEFINE k == all[i][1]
  <2>3. all[i] = <<k, all[i][2]>>
    BY <1>6
  <2> HIDE DEF k
  <2>4. MinOf(U(n, k)) \in U(n, k)
    BY <1>7, <2>3
  <2> QED
    BY <1>5, <2>2, <2>4 DEF k
<1> QED
  <2> HIDE DEF M
  <2>1. \A z \in StoredOf(t, a) : Right(a, z)
    BY <1>1, <1>8
  <2>2. ASSUME NEW n \in 1..full, NEW i \in BlockOf(n), NEW k, NEW x, all[i] = <<k, x>>
        PROVE  MinOf(U(n, k)) \in U(n, k) /\ <<k, MinOf(U(n, k))>> \in StoredOf(t, a)
    BY <1>1, <1>7, <2>2
  <2> QED
    BY <2>1, <2>2 DEF all, full, U

(* A hot key's root is a pair the actor has stored.                        *)
LEMMA HotIs ==
    ASSUME Shared, NEW t \in Tasks, NEW a \in Actors, AddPairs(t, a)
    PROVE  /\ DOMAIN HotOf(t, a) \subseteq Keys
           /\ \A k \in DOMAIN HotOf(t, a) : <<k, HotOf(t, a)[k]>> \in stored[a] \cup StoredOf(t, a)
<1> DEFINE all == AllOf(t, a)
           full == FullOf(t, a)
           U(n, k) == UidsIn(t, a, n, k)
           W(k) == UNION {U(h[1], k) : h \in {g \in HeatedOf(t, a) : g[2] = k}}
<1>1. /\ DOMAIN HotOf(t, a) = DOMAIN hot[a] \cup {h[2] : h \in HeatedOf(t, a)}
      /\ \A k \in DOMAIN HotOf(t, a) :
            HotOf(t, a)[k] = IF k \in DOMAIN hot[a] THEN hot[a][k] ELSE MinOf(W(k))
  BY DEF HotOf
<1>2. DOMAIN hot[a] \subseteq Keys /\ \A k \in DOMAIN hot[a] : <<k, hot[a][k]>> \in stored[a]
  BY DEF Shared, DataInv, HeldOK, AddPairs
<1>3. \A n \in 1..full : \A k : U(n, k) \in SUBSET Nat
  <2>1. Uids \in SUBSET Nat
    BY DEF Shared, TypeInv
  <2> QED
    BY <2>1, BlocksAre
<1>4. \A n \in 1..full : \A k : \A x : x \in U(n, k) <=> \E i \in BlockOf(n) : all[i] = <<k, x>>
  BY BlocksAre
<1>5. ASSUME NEW g \in HeatedOf(t, a)
      PROVE  g[1] \in 1..full /\ g[2] \in Keys /\ U(g[1], g[2]) # {}
  <2> DEFINE I == {j \in BlockOf(g[1]) : all[j][1] = g[2]}
  <2>1. g[1] \in 1..full /\ g[2] \in Keys /\ Cardinality(I) > Threshold
    BY DEF HeatedOf, CountAt
  <2>2. I # {}
    <3>1. Cardinality({}) = 0 /\ Threshold \in Nat
      BY FS_EmptySet, SizesAssumption
    <3> HIDE DEF I
    <3> QED
      BY <2>1, <3>1
  <2>3. U(g[1], g[2]) = {all[i][2] : i \in I}
    BY DEF UidsIn, UidsAt
  <2> HIDE DEF I, U
  <2> QED
    BY <2>1, <2>2, <2>3
<1> HIDE DEF all, full, U
<1>6. ASSUME NEW k \in {h[2] : h \in HeatedOf(t, a)}
      PROVE  k \in Keys /\ <<k, MinOf(W(k))>> \in StoredOf(t, a)
  <2>1. PICK g \in HeatedOf(t, a) : g[2] = k
    OBVIOUS
  <2>2. \A v : v \in W(k) <=> \E h \in HeatedOf(t, a) : h[2] = k /\ v \in U(h[1], k)
    OBVIOUS
  <2>3. W(k) # {} /\ W(k) \in SUBSET Nat
    <3>1. U(g[1], k) # {}
      BY <1>5, <2>1
    <3>2. \A h \in HeatedOf(t, a) : h[1] \in 1..full
      BY <1>5
    <3> HIDE DEF W
    <3> QED
      BY <1>3, <2>1, <2>2, <3>1, <3>2
  <2> DEFINE m == MinOf(W(k))
  <2>4. m \in W(k) /\ \A v \in W(k) : m <= v
    <3> HIDE DEF W
    <3> QED
      BY <2>3, MinOfIs
  <2> HIDE DEF W
  <2>5. PICK h \in HeatedOf(t, a) : h[2] = k /\ m \in U(h[1], k)
    BY <2>2, <2>4
  <2> DEFINE n == h[1]
             V == U(n, k)
  <2>6. n \in 1..full /\ k \in Keys /\ m \in V /\ V \in SUBSET Nat
    BY <1>3, <1>5, <2>5
  <2>7. \A v \in V : v \in W(k)
    BY <2>2, <2>5
  <2> HIDE DEF m
  <2>8. MinOf(V) = m
    <3> HIDE DEF V
    <3>1. MinOf(V) \in V /\ \A v \in V : MinOf(V) <= v
      BY <2>6, MinOfIs
    <3>2. MinOf(V) \in Nat /\ m \in Nat /\ m <= MinOf(V) /\ MinOf(V) <= m
      BY <2>4, <2>6, <2>7, <3>1
    <3> QED
      BY <3>2
  <2>9. PICK i \in BlockOf(n) : all[i] = <<k, m>>
    BY <1>4, <2>6
  <2>10. <<k, MinOf(V)>> \in StoredOf(t, a)
    BY <2>6, <2>9, StoredIs DEF U, all, full
  <2> QED
    BY <2>6, <2>8, <2>10 DEF m
<1> HIDE DEF W
<1>7. DOMAIN HotOf(t, a) \subseteq Keys
  BY <1>1, <1>2, <1>6
<1>8. ASSUME NEW k \in DOMAIN HotOf(t, a)
      PROVE  <<k, HotOf(t, a)[k]>> \in stored[a] \cup StoredOf(t, a)
  BY <1>1, <1>2, <1>6
<1> QED
  BY <1>7, <1>8

(* All that an actor is to unite after a call belongs to one of its keys.  *)
LEMMA TodoIs ==
    ASSUME Shared, NEW t \in Tasks, NEW a \in Actors, AddPairs(t, a),
           NEW T \in WarmTodo(t, a) \cup ColdTodo(t, a)
    PROVE  T # {} /\ \E k : \A x \in T : Right(a, <<k, x>>)
<1> DEFINE call == CallOf(t, a)
           warm == WarmOf(t, a)
           V(k) == UidsAt(call, warm, k)
<1>1. CASE T \in WarmTodo(t, a)
  <2>1. PICK i \in warm : T = {hot[a][call[i][1]]} \cup V(call[i][1])
    BY <1>1 DEF WarmTodo
  <2> DEFINE k == call[i][1]
  <2>2. call \in Seq(Keys \X Nat) /\ \A z \in ToSet(call) : Right(a, z)
    BY CallIsRight
  <2>3. \A j \in warm : j \in DOMAIN call /\ call[j][1] \in DOMAIN hot[a]
    BY DEF WarmOf
  <2>4. V(k) = {call[j][2] : j \in {g \in warm : call[g][1] = k}}
    BY DEF UidsAt
  <2> HIDE DEF call, warm, V
  <2>5. ASSUME NEW x \in V(k) PROVE Right(a, <<k, x>>)
    <3>1. PICK j \in warm : call[j][1] = k /\ x = call[j][2]
      BY <2>4
    <3>2. call[j] \in Keys \X Nat /\ call[j] \in ToSet(call)
      BY <2>2, <2>3 DEF ToSet
    <3>3. call[j] = <<k, x>>
      BY <3>1, <3>2
    <3> QED
      BY <2>2, <3>2, <3>3
  <2>6. Right(a, <<k, hot[a][k]>>)
    <3>1. k \in DOMAIN hot[a] /\ phase = "map"
      BY <2>3 DEF AddPairs
    <3>2. <<k, hot[a][k]>> \in stored[a]
      BY <3>1 DEF Shared, DataInv, HeldOK
    <3> QED
      BY <3>2 DEF Shared, DataInv, HeldOK, Held, Right
  <2>7. T = {hot[a][k]} \cup V(k)
    BY <2>1
  <2> HIDE DEF k
  <2> QED
    BY <2>5, <2>6, <2>7
<1>2. CASE T \in ColdTodo(t, a)
  <2>1. PICK n \in 1..FullOf(t, a), k \in Keys : T = UidsIn(t, a, n, k)
    BY <1>2 DEF ColdTodo
  <2>2. \A x \in T : Right(a, <<k, x>>)
    BY <2>1, BlocksAre
  <2>3. T # {}
    <3>1. Cardinality(T) > 1
      BY <1>2 DEF ColdTodo
    <3> QED
      BY <3>1, FS_EmptySet
  <2> QED
    BY <2>2, <2>3
<1> QED
  BY <1>1, <1>2

(* No tie is lost in a call: a set of uids that keeps together what the    *)
(* actor is to unite has, for every pair that came or was held, a pair of  *)
(* the same key on the same side.                                          *)
SameSide(S, x, y) == x \in S <=> y \in S

Standing(t, a, S, z) ==
    \E h \in stored[a] \cup StoredOf(t, a) \cup ToSet(RestOf(t, a)) :
        h[1] = z[1] /\ SameSide(S, h[2], z[2])

LEMMA NothingLost ==
    ASSUME Shared, NEW t \in Tasks, NEW a \in Actors, AddPairs(t, a),
           NEW S,
           \A T \in WarmTodo(t, a) \cup ColdTodo(t, a) : \A x, y \in T : SameSide(S, x, y),
           NEW z \in ToSet(CallOf(t, a)) \cup Held(a)
    PROVE  Standing(t, a, S, z)
<1> DEFINE call == CallOf(t, a)
           warm == WarmOf(t, a)
           all == AllOf(t, a)
           V(k) == UidsAt(call, warm, k)
<1>1. call \in Seq(Keys \X Nat) /\ all \in Seq(Keys \X Nat)
  BY CallIsRight
<1>2. ASSUME z \in stored[a] PROVE Standing(t, a, S, z)
  BY <1>2 DEF Standing, SameSide
<1>3. ASSUME z \in ToSet(all) PROVE Standing(t, a, S, z)
  <2>1. CASE z \in ToSet(current'[a])
    <3>1. current'[a] = RestOf(t, a)
      BY AddPairsIs DEF Shared
    <3> QED
      BY <2>1, <3>1 DEF Standing, SameSide
  <2>2. CASE z \notin ToSet(current'[a])
    <3>1. PICK n \in 1..FullOf(t, a) : \E i \in BlockOf(n) : all[i] = z
      BY <1>3, <2>2, BlocksAre
    <3>2. PICK i \in BlockOf(n) : all[i] = z
      BY <3>1
    <3>3. z \in Keys \X Nat
      BY <1>1, <1>3 DEF ToSet
    <3> DEFINE k == z[1]
               U == UidsIn(t, a, n, k)
               m == MinOf(U)
    <3>4. all[i] = <<k, z[2]>> /\ k \in Keys
      BY <3>2, <3>3
    <3>5. m \in U /\ <<k, m>> \in StoredOf(t, a)
      BY <3>4, StoredIs
    <3>6. z[2] \in U
      BY <3>4, BlocksAre
    <3>7. U \in SUBSET Uids
      BY BlocksAre
    <3>8. U \in {UidsIn(t, a, g, j) : g \in 1..FullOf(t, a), j \in Keys}
      BY <3>4
    <3> HIDE DEF k, U, m
    <3>9. SameSide(S, m, z[2])
      <4>1. CASE Cardinality(U) > 1
        <5>1. U \in ColdTodo(t, a)
          BY <3>8, <4>1 DEF ColdTodo
        <5> QED
          BY <3>5, <3>6, <5>1
      <4>2. CASE ~(Cardinality(U) > 1)
        <5>1. IsFiniteSet(U)
          <6>1. IsFiniteSet(Uids)
            BY DEF Shared, TypeInv
          <6> QED
            BY <3>7, <6>1, FS_Subset
        <5>2. m = z[2]
          BY <3>5, <3>6, <4>2, <5>1, NotMany
        <5> QED
          BY <5>2 DEF SameSide
      <4> QED
        BY <4>1, <4>2
    <3>10. <<k, m>>[1] = z[1] /\ <<k, m>>[2] = m
      BY DEF k
    <3> QED
      BY <3>5, <3>9, <3>10 DEF Standing
  <2> QED
    BY <2>1, <2>2
<1>4. ASSUME z \in ToSet(call), z[1] \in DOMAIN hot[a] PROVE Standing(t, a, S, z)
  <2>1. PICK i \in DOMAIN call : call[i] = z
    BY <1>4 DEF ToSet
  <2> DEFINE k == call[i][1]
  <2>2. i \in warm
    BY <1>4, <2>1 DEF WarmOf
  <2>3. {hot[a][k]} \cup V(k) \in WarmTodo(t, a)
    BY <2>2 DEF WarmTodo
  <2>4. z[2] \in V(k)
    BY <2>1, <2>2 DEF UidsAt
  <2> HIDE DEF call, warm, V
  <2>5. SameSide(S, hot[a][k], z[2])
    BY <2>3, <2>4
  <2>6. k \in DOMAIN hot[a] /\ phase = "map"
    BY <1>4, <2>1 DEF AddPairs
  <2>7. <<k, hot[a][k]>> \in stored[a]
    BY <2>6 DEF Shared, DataInv, HeldOK
  <2>8. k = z[1]
    BY <2>1
  <2> HIDE DEF k
  <2> QED
    BY <2>5, <2>7, <2>8 DEF Standing
<1>5. z \in ToSet(all) \cup stored[a] \/ (z \in ToSet(call) /\ z[1] \in DOMAIN hot[a])
  <2>1. ToSet(all) = ToSet(current[a]) \cup ToSet(ColdOf(t, a))
    BY CallIsRight
  <2>2. z \in ToSet(call) /\ z[1] \notin DOMAIN hot[a] => z \in ToSet(ColdOf(t, a))
    BY CallIs
  <2> QED
    BY <2>1, <2>2 DEF Held
<1> QED
  BY <1>2, <1>3, <1>4, <1>5

-----------------------------------------------------------------------------
(* What the steps change.                                                  *)

Quiet == UNCHANGED <<pairs, todo, forest, buffers, driver, dups>>

LEMMA Acts ==
    ASSUME [Next]_vars
    PROVE  \/ Quiet
           \/ \E t \in Tasks, a \in Actors : AddPairs(t, a)
           \/ \E a \in Actors : \/ UnionNext(a) \/ Redistribute(a) \/ Balance(a)
                                \/ Communicate(a) \/ Squeeze(a)
           \/ \E a, b \in Actors : Fetch(a, b)
           \/ StartMerge
           \/ NextRound
<1>1. CASE UNCHANGED vars
  BY <1>1 DEF vars, Quiet, pairs, forest, buffers, driver
<1>2. ASSUME NEW t \in Tasks, Claim(t) PROVE Quiet
  BY <1>2 DEF Claim, Quiet, result
<1>3. ASSUME NEW t \in Tasks, FinishTask(t) \/ Rerun(t) PROVE Quiet
  BY <1>3 DEF FinishTask, Rerun, Quiet, result
<1>4. ASSUME NEW t \in Tasks, Filter(t) PROVE Quiet
  BY <1>4 DEF Filter, Quiet
<1> QED
  BY <1>1, <1>2, <1>3, <1>4 DEF Next

(* What is known of a uid stays known.                                     *)
LEMMA UidsGrow ==
    ASSUME TypeInv, TaskInv, [Next]_vars
    PROVE  /\ Uids \subseteq Uids' /\ Uids' \in SUBSET Nat
           /\ \A u \in Uids : origin'[u] = origin[u]
           /\ bands' = bands /\ group' = group
<1>1. CASE SameRows
  BY <1>1 DEF SameRows, Uids, TypeInv
<1>2. ASSUME NEW t \in Tasks, Claim(t)
      PROVE  /\ Uids \subseteq Uids' /\ Uids' \in SUBSET Nat
             /\ \A u \in Uids : origin'[u] = origin[u]
             /\ bands' = bands /\ group' = group
  <2>1. bands' = bands /\ group' = group
    BY <1>2 DEF Claim, input
  <2> QED
    BY <1>2, <2>1, ClaimIs
<1> QED
  BY <1>1, <1>2, RowsStay

LEMMA UnionNextIs ==
    ASSUME TypeInv, NEW a \in Actors, UnionNext(a)
    PROVE  /\ \E T \in todo[a] : parent'[a] = Union(parent[a], T) /\ todo'[a] = todo[a] \ {T}
           /\ \A b \in Actors \ {a} : parent'[b] = parent[b] /\ todo'[b] = todo[b]
           /\ SameRows /\ UNCHANGED <<task, left, stored, current, hot, oldParent, edges, unread, phase, pending,
                                      fetched, again, dups>>
<1>1. DOMAIN parent = Actors /\ DOMAIN todo = Actors
  BY DEF TypeInv
<1> QED
  BY <1>1 DEF UnionNext, SameRows, input, mapping, pairs, buffers, driver, result

LEMMA RedistributeIs ==
    ASSUME TypeInv, NEW a \in Actors, Redistribute(a)
    PROVE  /\ phase = "redistribute" /\ a \in pending /\ todo[a] = {}
           /\ edges'[a] = EdgesOf(Rebalanced(parent[a])) /\ unread'[a] = Actors
           /\ parent'[a] = Nothing /\ pending' = pending \ {a}
           /\ \A b \in Actors \ {a} : /\ parent'[b] = parent[b] /\ edges'[b] = edges[b]
                                      /\ unread'[b] = unread[b]
           /\ SameRows /\ UNCHANGED <<task, left, stored, current, hot, todo, oldParent, phase, fetched, again, dups>>
<1>1. DOMAIN parent = Actors /\ DOMAIN edges = Actors /\ DOMAIN unread = Actors
  BY DEF TypeInv
<1> QED
  BY <1>1 DEF Redistribute, SetEdges, Finished, SameRows, input, mapping, pairs, result

SliceTodo(a, b) ==
    IF a \in unread[b] THEN {{e[1], e[2]} : e \in SliceFor(a, edges[b])} ELSE {}

LEMMA FetchIs ==
    ASSUME TypeInv, NEW a \in Actors, NEW b \in Actors, Fetch(a, b)
    PROVE  /\ phase = "balance" /\ a \in pending /\ b \notin fetched[a] /\ todo[a] = {}
           /\ fetched'[a] = fetched[a] \cup {b} /\ todo'[a] = SliceTodo(a, b)
           /\ unread'[b] = unread[b] \ {a}
           /\ edges'[b] = IF unread[b] \subseteq {a} THEN {} ELSE edges[b]
           /\ \A d \in Actors \ {a} : fetched'[d] = fetched[d] /\ todo'[d] = todo[d]
           /\ \A d \in Actors \ {b} : unread'[d] = unread[d] /\ edges'[d] = edges[d]
           /\ SameRows /\ UNCHANGED <<task, left, stored, current, hot, parent, oldParent, phase, pending, again, dups>>
<1>1. /\ DOMAIN todo = Actors /\ DOMAIN fetched = Actors
      /\ DOMAIN edges = Actors /\ DOMAIN unread = Actors
  BY DEF TypeInv
<1>2. todo' = [todo EXCEPT ![a] = SliceTodo(a, b)]
  BY DEF Fetch, SliceTodo
<1> QED
  BY <1>1, <1>2 DEF Fetch, HandOut, SameRows, input, mapping, pairs, forest, result

LEMMA BalanceIs ==
    ASSUME TypeInv, NEW a \in Actors, Balance(a)
    PROVE  /\ phase = "balance" /\ a \in pending /\ fetched[a] = Actors /\ todo[a] = {}
           /\ parent'[a] = Rebalanced(parent[a]) /\ pending' = pending \ {a}
           /\ again' = (again \/ oldParent[a] # parent'[a])
           /\ \A b \in Actors \ {a} : parent'[b] = parent[b]
           /\ SameRows /\ UNCHANGED <<task, left, stored, current, hot, todo, oldParent, edges, unread, phase,
                                      fetched, dups>>
<1>1. DOMAIN parent = Actors
  BY DEF TypeInv
<1> QED
  BY <1>1 DEF Balance, Finished, SameRows, input, mapping, pairs, buffers, result

LEMMA CommunicateIs ==
    ASSUME TypeInv, NEW a \in Actors, Communicate(a)
    PROVE  /\ phase = "communicate" /\ a \in pending /\ pending' = pending \ {a}
           /\ edges'[a] = News(a) /\ unread'[a] = Actors /\ oldParent'[a] = parent[a]
           /\ DOMAIN parent'[a] = {x \in DOMAIN parent[a] : Owner(x) = a}
           /\ \A x \in DOMAIN parent'[a] : parent'[a][x] = Root(parent[a], x)
           /\ \A b \in Actors \ {a} : /\ parent'[b] = parent[b] /\ oldParent'[b] = oldParent[b]
                                      /\ edges'[b] = edges[b] /\ unread'[b] = unread[b]
           /\ SameRows /\ UNCHANGED <<task, left, stored, current, hot, todo, phase, fetched, again, dups>>
<1>1. /\ DOMAIN parent = Actors /\ DOMAIN oldParent = Actors
      /\ DOMAIN edges = Actors /\ DOMAIN unread = Actors
  BY DEF TypeInv
<1>2. /\ parent' = [parent EXCEPT ![a] = [u \in Own(a) |-> Compressed(parent[a])[u]]]
      /\ oldParent' = [oldParent EXCEPT ![a] = parent[a]]
  BY <1>1 DEF Communicate
<1>3. /\ phase = "communicate" /\ a \in pending /\ pending' = pending \ {a}
      /\ edges'[a] = News(a) /\ unread'[a] = Actors
      /\ \A b \in Actors \ {a} : edges'[b] = edges[b] /\ unread'[b] = unread[b]
  BY <1>1 DEF Communicate, SetEdges, Finished
<1>4. SameRows /\ UNCHANGED <<task, left, stored, current, hot, todo, phase, fetched, again, dups>>
  BY DEF Communicate, SameRows, input, mapping, pairs, result
<1>5. parent'[a] = [u \in Own(a) |-> Compressed(parent[a])[u]] /\ oldParent'[a] = parent[a]
  BY <1>1, <1>2
<1>6. DOMAIN parent'[a] = {x \in DOMAIN parent[a] : Owner(x) = a}
  BY <1>5 DEF Own
<1>7. ASSUME NEW x \in DOMAIN parent'[a] PROVE parent'[a][x] = Root(parent[a], x)
  BY <1>5, <1>6, CompressedRoot DEF Own
<1>8. \A b \in Actors \ {a} : parent'[b] = parent[b] /\ oldParent'[b] = oldParent[b]
  BY <1>1, <1>2
<1> QED
  BY <1>3, <1>4, <1>5, <1>6, <1>7, <1>8

LEMMA SqueezeIs ==
    ASSUME TypeInv, NEW a \in Actors, Squeeze(a)
    PROVE  /\ phase = "squeeze" /\ a \in pending /\ pending' = pending \ {a}
           /\ dups'[a] = Own(a) /\ parent'[a] = Nothing /\ oldParent'[a] = Nothing
           /\ edges'[a] = {} /\ unread'[a] = {}
           /\ \A b \in Actors \ {a} : /\ parent'[b] = parent[b] /\ oldParent'[b] = oldParent[b]
                                      /\ edges'[b] = edges[b] /\ unread'[b] = unread[b]
                                      /\ dups'[b] = dups[b]
           /\ SameRows /\ UNCHANGED <<task, left, stored, current, hot, todo, phase, fetched, again>>
<1>1. /\ DOMAIN parent = Actors /\ DOMAIN oldParent = Actors /\ DOMAIN dups = Actors
      /\ DOMAIN edges = Actors /\ DOMAIN unread = Actors
  BY DEF TypeInv
<1> QED
  BY <1>1 DEF Squeeze, Finished, SameRows, input, mapping, pairs

LEMMA StartMergeIs ==
    ASSUME TypeInv, StartMerge
    PROVE  /\ phase = "map" /\ phase' = "redistribute" /\ pending' = Actors
           /\ \A t \in Tasks : task[t] = "written"
           /\ \A a \in Actors : /\ fetched'[a] = {} /\ todo[a] = {}
                                /\ todo'[a] = {S \in Runs(a) : Cardinality(S) > 1}
                                /\ stored'[a] = {} /\ current'[a] = << >>
           /\ SameRows /\ UNCHANGED <<task, left, hot, parent, oldParent, edges, unread, dups>>
BY DEF StartMerge, Await, SameRows, input, mapping, forest, buffers, result

LEMMA NextRoundIs ==
    ASSUME TypeInv, NextRound
    PROVE  /\ pending = {} /\ pending' = Actors /\ again' = FALSE
           /\ \/ phase \in {"redistribute", "communicate"} /\ phase' = "balance"
              \/ phase = "balance" /\ again /\ phase' = "communicate"
              \/ phase = "balance" /\ ~again /\ phase' = "squeeze"
              \/ phase = "squeeze" /\ phase' = "filter"
           /\ \A a \in Actors : fetched'[a] = {}
           /\ SameRows /\ UNCHANGED <<task, left, stored, current, hot, todo, parent, oldParent, edges, unread, dups>>
BY DEF NextRound, Await, SameRows, input, mapping, pairs, forest, buffers, result

-----------------------------------------------------------------------------
(* The pairs, lists, forests and buffers are about known uids.             *)

LEMMA HeldStays ==
    ASSUME NEW a \in Actors, HeldOK(a), Uids \subseteq Uids',
           \A u \in Uids : origin'[u] = origin[u], bands' = bands,
           stored'[a] = stored[a], current'[a] = current[a], hot'[a] = hot[a],
           phase' = "map" <=> phase = "map"
    PROVE  HeldOK(a)'
<1>1. Held(a)' = Held(a)
  BY DEF Held
<1>2. \A h \in Held(a) : h \in Keys \X Uids' /\ h[1] \in bands'[origin'[h[2]]] /\ Table(h[1]) = a
  <2> TAKE h \in Held(a)
  <2>1. h \in Keys \X Uids /\ h[1] \in bands[origin[h[2]]] /\ Table(h[1]) = a
    BY DEF HeldOK
  <2>2. h[2] \in Uids /\ h \in Keys \X Uids'
    BY <2>1
  <2> QED
    BY <2>1, <2>2
<1> QED
  BY <1>1, <1>2 DEF HeldOK, Table

LEMMA HeldNext ==
    ASSUME Shared, [Next]_vars, NEW a \in Actors
    PROVE  HeldOK(a)'
<1>1. HeldOK(a) /\ TypeInv /\ TaskInv
  BY DEF Shared, DataInv
<1>2. Uids \subseteq Uids' /\ \A u \in Uids : origin'[u] = origin[u]
  BY <1>1, UidsGrow
<1>3. bands' = bands
  BY <1>1, UidsGrow
<1>4. CASE Quiet
  <2>1. stored' = stored /\ current' = current /\ hot' = hot /\ phase' = phase
    BY <1>4 DEF Quiet, pairs, driver
  <2> QED
    BY <1>1, <1>2, <1>3, <2>1, HeldStays
<1>5. ASSUME NEW t \in Tasks, NEW b \in Actors, AddPairs(t, b) PROVE HeldOK(a)'
  <2>1. phase = "map" /\ phase' = phase /\ SameRows
    BY <1>5 DEF AddPairs, driver, SameRows, input
  <2>2. CASE a # b
    <3>1. stored'[a] = stored[a] /\ current'[a] = current[a] /\ hot'[a] = hot[a]
      BY <1>1, <1>5, <2>2, AddPairsIs
    <3> QED
      BY <1>1, <1>2, <1>3, <2>1, <3>1, HeldStays
  <2>3. CASE a = b
    <3>1. /\ hot'[a] = HotOf(t, a) /\ stored'[a] = stored[a] \cup StoredOf(t, a)
      BY <1>1, <1>5, <2>3, AddPairsIs
    <3>2. /\ \A z \in StoredOf(t, a) : Right(a, z)
      BY <1>5, <2>3, StoredIs
    <3>3. current'[a] \in Seq(Keys \X Nat) /\ \A z \in ToSet(current'[a]) : Right(a, z)
      BY <1>5, <2>3, BlocksAre
    <3>4. \A z \in stored[a] : Right(a, z)
      BY <1>1 DEF HeldOK, Held, Right
    <3>5. \A z \in Held(a)' : Right(a, z)
      BY <3>1, <3>2, <3>3, <3>4 DEF Held
    <3>6. \A z \in Held(a)' : Right(a, z)'
      BY <2>1, <3>5 DEF Right, SameRows, Uids, Table
    <3>7. \A z : Right(a, z) => z \in Keys \X Nat
      BY <1>1 DEF Right, TypeInv
    <3>8. stored'[a] \in SUBSET (Keys \X Nat)
      BY <3>1, <3>2, <3>4, <3>7
    <3>9. /\ DOMAIN hot'[a] \subseteq Keys
          /\ \A k \in DOMAIN hot'[a] : <<k, hot'[a][k]>> \in stored'[a]
      BY <1>5, <2>3, <3>1, HotIs
    <3> QED
      BY <2>1, <3>3, <3>6, <3>8, <3>9 DEF HeldOK, Right
  <2> QED
    BY <2>2, <2>3
<1>6. ASSUME NEW b \in Actors, UnionNext(b) PROVE HeldOK(a)'
  <2>1. stored' = stored /\ current' = current /\ hot' = hot /\ phase' = phase
    BY <1>1, <1>6, UnionNextIs
  <2> QED
    BY <1>1, <1>2, <1>3, <2>1, HeldStays
<1>7. ASSUME NEW b \in Actors, Redistribute(b) \/ Balance(b) \/ Communicate(b) \/ Squeeze(b)
      PROVE  HeldOK(a)'
  <2>1. stored' = stored /\ current' = current /\ hot' = hot /\ phase' = phase
    BY <1>1, <1>7, RedistributeIs, BalanceIs, CommunicateIs, SqueezeIs
  <2> QED
    BY <1>1, <1>2, <1>3, <2>1, HeldStays
<1>8. ASSUME NEW b \in Actors, NEW d \in Actors, Fetch(b, d) PROVE HeldOK(a)'
  <2>1. stored' = stored /\ current' = current /\ hot' = hot /\ phase' = phase
    BY <1>1, <1>8, FetchIs
  <2> QED
    BY <1>1, <1>2, <1>3, <2>1, HeldStays
<1>9. CASE NextRound
  <2>1. /\ stored' = stored /\ current' = current /\ hot' = hot
        /\ phase # "map" /\ phase' # "map"
    BY <1>1, <1>9, NextRoundIs
  <2> QED
    BY <1>1, <1>2, <1>3, <2>1, HeldStays
<1>10. CASE StartMerge
  <2>1. stored'[a] = {} /\ current'[a] = << >> /\ hot' = hot /\ phase' = "redistribute"
    BY <1>1, <1>10, StartMergeIs
  <2>2. ToSet(<< >>) = {}
    BY DEF ToSet
  <2>3. Held(a)' = {}
    BY <2>1, <2>2 DEF Held
  <2>4. << >> \in Seq(Keys \X Nat)
    OBVIOUS
  <2> QED
    BY <1>1, <2>1, <2>3, <2>4 DEF HeldOK
<1> QED
  BY <1>4, <1>5, <1>6, <1>7, <1>8, <1>9, <1>10, Acts

LEMMA TodoNext ==
    ASSUME Shared, [Next]_vars, NEW a \in Actors
    PROVE  TodoOK(a)'
<1>1. TodoOK(a) /\ TypeInv /\ TaskInv /\ DataInv
  BY DEF Shared, DataInv
<1>2. Uids \subseteq Uids'
  BY <1>1, UidsGrow
<1>3. ASSUME \A T \in todo'[a] : T \in todo[a] \/ (T # {} /\ T \in SUBSET Uids) PROVE TodoOK(a)'
  BY <1>1, <1>2, <1>3 DEF TodoOK
<1>4. CASE Quiet
  BY <1>3, <1>4 DEF Quiet
<1>5. ASSUME NEW t \in Tasks, NEW b \in Actors, AddPairs(t, b) PROVE TodoOK(a)'
  <2>1. CASE a # b
    BY <1>1, <1>3, <1>5, <2>1, AddPairsIs
  <2>2. CASE a = b
    <3>1. todo'[a] = WarmTodo(t, a) \cup ColdTodo(t, a)
      BY <1>1, <1>5, <2>2, AddPairsIs
    <3>2. ASSUME NEW T \in todo'[a] PROVE T # {} /\ T \in SUBSET Uids
      <4>1. T # {} /\ \E k : \A x \in T : Right(a, <<k, x>>)
        BY <1>5, <2>2, <3>1, TodoIs
      <4> QED
        BY <4>1 DEF Right
    <3> QED
      BY <1>3, <3>2
  <2> QED
    BY <2>1, <2>2
<1>6. ASSUME NEW b \in Actors, UnionNext(b) PROVE TodoOK(a)'
  <2>1. \A T \in todo'[a] : T \in todo[a]
    <3>1. CASE a = b
      BY <1>1, <1>6, <3>1, UnionNextIs
    <3>2. CASE a # b
      BY <1>1, <1>6, <3>2, UnionNextIs
    <3> QED
      BY <3>1, <3>2
  <2> QED
    BY <1>3, <2>1
<1>7. ASSUME NEW b \in Actors, Redistribute(b) \/ Balance(b) \/ Communicate(b) \/ Squeeze(b)
      PROVE  TodoOK(a)'
  <2>1. todo' = todo
    BY <1>1, <1>7, RedistributeIs, BalanceIs, CommunicateIs, SqueezeIs
  <2> QED
    BY <1>3, <2>1
<1>8. ASSUME NEW b \in Actors, NEW d \in Actors, Fetch(b, d) PROVE TodoOK(a)'
  <2>1. CASE a # b
    BY <1>1, <1>3, <1>8, <2>1, FetchIs
  <2>2. CASE a = b
    <3>1. todo'[a] = SliceTodo(a, d)
      BY <1>1, <1>8, <2>2, FetchIs
    <3>2. ASSUME NEW T \in todo'[a] PROVE T # {} /\ T \in SUBSET Uids
      <4>1. PICK e \in edges[d] : T = {e[1], e[2]}
        BY <3>1 DEF SliceTodo, SliceFor
      <4>2. edges[d] \in SUBSET (Uids \X Uids)
        BY <1>1 DEF DataInv, EdgesOK
      <4>3. e \in Uids \X Uids
        BY <4>1, <4>2
      <4> QED
        BY <4>1, <4>3
    <3> QED
      BY <1>3, <3>2
  <2> QED
    BY <2>1, <2>2
<1>9. CASE NextRound
  BY <1>1, <1>3, <1>9, NextRoundIs
<1>10. CASE StartMerge
  <2>1. todo'[a] = {S \in Runs(a) : Cardinality(S) > 1}
    BY <1>1, <1>10, StartMergeIs
  <2>2. ASSUME NEW T \in todo'[a] PROVE T # {} /\ T \in SUBSET Uids
    <3>1. T \in Runs(a) /\ Cardinality(T) > 1
      BY <2>1
    <3>2. \A h \in Held(a) : h[2] \in Uids
      BY <1>1 DEF DataInv, HeldOK
    <3>3. \A x \in T : \E h \in Held(a) : x = h[2]
      BY <3>1 DEF Runs, Held
    <3>4. T # {}
      BY <3>1, FS_EmptySet
    <3> QED
      BY <3>2, <3>3, <3>4
  <2> QED
    BY <1>3, <2>2
<1> QED
  BY <1>4, <1>5, <1>6, <1>7, <1>8, <1>9, <1>10, Acts

(* An actor only unites while its forest is flat.                          *)
LEMMA UnitesFlat ==
    ASSUME Shared, NEW a \in Actors, todo[a] # {}
    PROVE  /\ Flat(parent[a]) /\ phase \in {"map", "redistribute", "balance"}
           /\ phase # "map" => a \in pending
<1>1. ShapeOK(a) /\ phase \in Phases
  BY DEF Shared, ShapeInv, TypeInv
<1> QED
  BY <1>1 DEF ShapeOK, Phases

LEMMA NothingFalls ==
    ASSUME NEW D
    PROVE  Falls(Nothing, D) /\ Balanced(Nothing) /\ Flat(Nothing) /\ DOMAIN Nothing = {}
BY DEF Nothing, Falls, Balanced, Flat

LEMMA ForestNext ==
    ASSUME Shared, [Next]_vars, NEW a \in Actors
    PROVE  ForestOK(a)'
<1> DEFINE D == Uids
<1>1. ForestOK(a) /\ TypeInv /\ TaskInv /\ DataInv
  BY DEF Shared, DataInv
<1>2. D \in SUBSET Nat /\ D \subseteq Uids'
  BY <1>1, UidsGrow DEF TypeInv
<1>3. /\ Falls(parent[a], D) /\ Balanced(parent[a])
      /\ Falls(oldParent[a], D) /\ Balanced(oldParent[a])
  BY <1>1 DEF ForestOK
<1>4. ASSUME /\ Falls(parent'[a], D) /\ Balanced(parent'[a])
             /\ Falls(oldParent'[a], D) /\ Balanced(oldParent'[a])
      PROVE  ForestOK(a)'
  <2> HIDE DEF D
  <2>1. \A p : Falls(p, D) => Falls(p, Uids')
    BY <1>2 DEF Falls
  <2>2. Falls(parent'[a], Uids') /\ Falls(oldParent'[a], Uids')
    BY <1>4, <2>1
  <2> QED
    BY <1>4, <2>2 DEF ForestOK, Balanced, Falls, Find, Owner
<1> HIDE DEF D
<1>5. CASE parent'[a] = parent[a] /\ oldParent'[a] = oldParent[a]
  BY <1>3, <1>4, <1>5
<1>6. CASE Quiet
  BY <1>5, <1>6 DEF Quiet, forest
<1>7. ASSUME NEW t \in Tasks, NEW b \in Actors, AddPairs(t, b) PROVE ForestOK(a)'
  BY <1>5, <1>7 DEF AddPairs, forest
<1>8. ASSUME NEW b \in Actors, UnionNext(b) PROVE ForestOK(a)'
  <2>1. CASE a # b
    BY <1>1, <1>5, <1>8, <2>1, UnionNextIs
  <2>2. CASE a = b
    <3>1. PICK T \in todo[a] : parent'[a] = Union(parent[a], T) /\ oldParent' = oldParent
      BY <1>1, <1>8, <2>2, UnionNextIs
    <3>2. Flat(parent[a])
      BY <3>1, UnitesFlat
    <3>3. T \in SUBSET D /\ T # {}
      BY <1>1 DEF DataInv, TodoOK, D
    <3>4. Falls(Union(parent[a], T), D) /\ Flat(Union(parent[a], T))
      BY <1>2, <1>3, <3>2, <3>3, UnionJoins
    <3>5. Balanced(Union(parent[a], T))
      BY <3>4, FlatIsBalanced
    <3> QED
      BY <1>3, <1>4, <3>1, <3>4, <3>5
  <2> QED
    BY <2>1, <2>2
<1>9. ASSUME NEW b \in Actors, Redistribute(b) PROVE ForestOK(a)'
  <2>1. CASE a # b
    BY <1>1, <1>5, <1>9, <2>1, RedistributeIs
  <2>2. CASE a = b
    <3>1. parent'[a] = Nothing /\ oldParent' = oldParent
      BY <1>1, <1>9, <2>2, RedistributeIs
    <3> QED
      BY <1>3, <1>4, <3>1, NothingFalls
  <2> QED
    BY <2>1, <2>2
<1>10. ASSUME NEW b \in Actors, Balance(b) PROVE ForestOK(a)'
  <2>1. CASE a # b
    BY <1>1, <1>5, <1>10, <2>1, BalanceIs
  <2>2. CASE a = b
    <3>1. /\ parent'[a] = Rebalanced(parent[a]) /\ oldParent' = oldParent
          /\ phase = "balance" /\ a \in pending
      BY <1>1, <1>10, <2>2, BalanceIs
    <3>2. Flat(parent[a])
      BY <3>1 DEF Shared, ShapeInv, ShapeOK
    <3>3. Falls(Rebalanced(parent[a]), D) /\ Balanced(Rebalanced(parent[a]))
      BY <1>2, <1>3, <3>2, RebalancedIs
    <3> QED
      BY <1>3, <1>4, <3>1, <3>3
  <2> QED
    BY <2>1, <2>2
<1>11. ASSUME NEW b \in Actors, Communicate(b) PROVE ForestOK(a)'
  <2>1. CASE a # b
    BY <1>1, <1>5, <1>11, <2>1, CommunicateIs
  <2>2. CASE a = b
    <3> DEFINE q == parent'[a]
    <3>1. /\ oldParent'[a] = parent[a]
          /\ DOMAIN q = {x \in DOMAIN parent[a] : Owner(x) = a}
          /\ \A x \in DOMAIN q : q[x] = Root(parent[a], x)
      BY <1>1, <1>11, <2>2, CommunicateIs
    <3> HIDE DEF q
    <3>2. Falls(q, D) /\ Flat(q)
      BY <1>2, <1>3, <3>1, OwnUidsKeepRoots
    <3>3. Balanced(q)
      BY <3>2, FlatIsBalanced
    <3> QED
      BY <1>3, <1>4, <3>1, <3>2, <3>3 DEF q
  <2> QED
    BY <2>1, <2>2
<1>12. ASSUME NEW b \in Actors, Squeeze(b) PROVE ForestOK(a)'
  <2>1. CASE a # b
    BY <1>1, <1>5, <1>12, <2>1, SqueezeIs
  <2>2. CASE a = b
    <3>1. parent'[a] = Nothing /\ oldParent'[a] = Nothing
      BY <1>1, <1>12, <2>2, SqueezeIs
    <3> QED
      BY <1>4, <3>1, NothingFalls
  <2> QED
    BY <2>1, <2>2
<1>13. ASSUME NEW b \in Actors, NEW d \in Actors, Fetch(b, d) PROVE ForestOK(a)'
  BY <1>1, <1>5, <1>13, FetchIs
<1>14. CASE NextRound
  BY <1>1, <1>5, <1>14, NextRoundIs
<1>15. CASE StartMerge
  BY <1>1, <1>5, <1>15, StartMergeIs
<1> QED
  BY <1>6, <1>7, <1>8, <1>9, <1>10, <1>11, <1>12, <1>13, <1>14, <1>15, Acts

LEMMA EdgesNext ==
    ASSUME Shared, [Next]_vars, NEW a \in Actors
    PROVE  EdgesOK(a)'
<1> DEFINE D == Uids
<1>1. TypeInv /\ TaskInv /\ DataInv
  BY DEF Shared
<1>2. D \in SUBSET Nat /\ D \subseteq Uids'
  BY <1>1, UidsGrow DEF TypeInv
<1>3. /\ Falls(parent[a], D) /\ edges[a] \in SUBSET (D \X D)
  BY <1>1 DEF DataInv, ForestOK, EdgesOK
<1> HIDE DEF D
<1>4. ASSUME edges'[a] \in SUBSET (D \X D) PROVE EdgesOK(a)'
  BY <1>2, <1>4 DEF EdgesOK
<1>5. ASSUME NEW p, Falls(p, D) PROVE EdgesOf(p) \in SUBSET (D \X D)
  BY <1>5 DEF EdgesOf, Falls
<1>6. CASE edges'[a] = edges[a]
  BY <1>3, <1>4, <1>6
<1>7. CASE Quiet
  BY <1>6, <1>7 DEF Quiet, buffers
<1>8. ASSUME NEW t \in Tasks, NEW b \in Actors, AddPairs(t, b) PROVE EdgesOK(a)'
  BY <1>6, <1>8 DEF AddPairs, buffers
<1>9. ASSUME NEW b \in Actors, UnionNext(b) \/ Balance(b) PROVE EdgesOK(a)'
  BY <1>1, <1>6, <1>9, UnionNextIs, BalanceIs
<1>10. ASSUME NEW b \in Actors, Redistribute(b) PROVE EdgesOK(a)'
  <2>1. CASE a # b
    BY <1>1, <1>6, <1>10, <2>1, RedistributeIs
  <2>2. CASE a = b
    <3>1. /\ edges'[a] = EdgesOf(Rebalanced(parent[a]))
          /\ phase = "redistribute" /\ a \in pending
      BY <1>1, <1>10, <2>2, RedistributeIs
    <3>2. Flat(parent[a])
      BY <3>1 DEF Shared, ShapeInv, ShapeOK
    <3>3. Falls(Rebalanced(parent[a]), D)
      BY <1>2, <1>3, <3>2, RebalancedIs
    <3> QED
      BY <1>4, <1>5, <3>1, <3>3
  <2> QED
    BY <2>1, <2>2
<1>11. ASSUME NEW b \in Actors, Communicate(b) PROVE EdgesOK(a)'
  <2>1. CASE a # b
    BY <1>1, <1>6, <1>11, <2>1, CommunicateIs
  <2>2. CASE a = b
    <3>1. edges'[a] = News(a)
      BY <1>1, <1>11, <2>2, CommunicateIs
    <3>2. News(a) \subseteq EdgesOf(parent[a])
      BY DEF News
    <3> QED
      BY <1>3, <1>4, <1>5, <3>1, <3>2
  <2> QED
    BY <2>1, <2>2
<1>12. ASSUME NEW b \in Actors, Squeeze(b) PROVE EdgesOK(a)'
  <2>1. CASE a # b
    BY <1>1, <1>6, <1>12, <2>1, SqueezeIs
  <2>2. CASE a = b
    BY <1>1, <1>4, <1>12, <2>2, SqueezeIs
  <2> QED
    BY <2>1, <2>2
<1>13. ASSUME NEW b \in Actors, NEW d \in Actors, Fetch(b, d) PROVE EdgesOK(a)'
  <2>1. CASE a # d
    BY <1>1, <1>6, <1>13, <2>1, FetchIs
  <2>2. CASE a = d
    <3>1. edges'[a] = {} \/ edges'[a] = edges[a]
      BY <1>1, <1>13, <2>2, FetchIs
    <3> QED
      BY <1>3, <1>4, <3>1
  <2> QED
    BY <2>1, <2>2
<1>14. CASE NextRound
  BY <1>1, <1>6, <1>14, NextRoundIs
<1>15. CASE StartMerge
  BY <1>1, <1>6, <1>15, StartMergeIs
<1> QED
  BY <1>7, <1>8, <1>9, <1>10, <1>11, <1>12, <1>13, <1>14, <1>15, Acts

LEMMA ShapeStays ==
    ASSUME NEW a \in Actors, ShapeOK(a), phase' = phase, a \in pending' <=> a \in pending,
           edges'[a] = edges[a], unread'[a] = unread[a], todo'[a] = todo[a],
           parent'[a] = parent[a], oldParent'[a] = oldParent[a], fetched'[a] = fetched[a],
           phase = "balance" => \A b \in Actors : a \in unread'[b] <=> a \in unread[b]
    PROVE  ShapeOK(a)'
<1>1. KeptOwn(a)' <=> KeptOwn(a)
  BY DEF KeptOwn, Root, Find, Owner
<1> QED
  BY <1>1 DEF ShapeOK, Flat, Nothing

LEMMA ShapeNext ==
    ASSUME Shared, [Next]_vars, NEW a \in Actors
    PROVE  ShapeOK(a)'
<1>1. /\ TypeInv /\ TaskInv /\ DataInv /\ phase \in Phases /\ pending \in SUBSET Actors
      /\ \A b \in Actors : ShapeOK(b) /\ unread[b] \in SUBSET Actors
  BY DEF Shared, ShapeInv, TypeInv
<1>2. /\ Uids \in SUBSET Nat
      /\ Falls(parent[a], Uids) /\ Balanced(parent[a])
      /\ Falls(oldParent[a], Uids) /\ Balanced(oldParent[a])
  BY <1>1 DEF TypeInv, DataInv, ForestOK
<1>3. CASE Quiet
  BY <1>1, <1>3, ShapeStays DEF Quiet, forest, buffers, driver
<1>4. ASSUME NEW t \in Tasks, NEW b \in Actors, AddPairs(t, b) PROVE ShapeOK(a)'
  <2>1. /\ phase = "map" /\ phase' = "map"
        /\ edges' = edges /\ oldParent' = oldParent /\ parent' = parent
    BY <1>4 DEF AddPairs, forest, buffers, driver
  <2> QED
    BY <1>1, <2>1 DEF ShapeOK, Flat, Nothing
<1>5. ASSUME NEW b \in Actors, UnionNext(b) PROVE ShapeOK(a)'
  <2>1. /\ phase' = phase /\ pending' = pending /\ edges' = edges /\ unread' = unread
        /\ oldParent' = oldParent /\ fetched' = fetched
    BY <1>1, <1>5, UnionNextIs
  <2>2. CASE a # b
    <3>1. parent'[a] = parent[a] /\ todo'[a] = todo[a]
      BY <1>1, <1>5, <2>2, UnionNextIs
    <3> QED
      BY <1>1, <2>1, <3>1, ShapeStays
  <2>3. CASE a = b
    <3>1. PICK T \in todo[a] : parent'[a] = Union(parent[a], T)
      BY <1>1, <1>5, <2>3, UnionNextIs
    <3>2. /\ Flat(parent[a]) /\ phase \in {"map", "redistribute", "balance"}
          /\ phase # "map" => a \in pending
      BY <3>1, UnitesFlat
    <3>3. T \in SUBSET Uids /\ T # {}
      BY <1>1 DEF DataInv, TodoOK
    <3>4. Flat(Union(parent[a], T))
      BY <1>2, <3>2, <3>3, UnionJoins
    <3>5. Flat(parent'[a])
      BY <3>1, <3>4
    <3>6. Flat(parent[a])'
      BY <3>5 DEF Flat
    <3> QED
      BY <1>1, <2>1, <3>2, <3>6 DEF ShapeOK, Nothing
  <2> QED
    BY <2>2, <2>3
<1>6. ASSUME NEW b \in Actors, Redistribute(b) PROVE ShapeOK(a)'
  <2>1. /\ phase' = phase /\ phase = "redistribute" /\ pending' = pending \ {b}
        /\ todo' = todo /\ oldParent' = oldParent /\ fetched' = fetched
    BY <1>1, <1>6, RedistributeIs
  <2>2. CASE a # b
    <3>1. parent'[a] = parent[a] /\ edges'[a] = edges[a] /\ unread'[a] = unread[a]
      BY <1>1, <1>6, <2>2, RedistributeIs
    <3> QED
      BY <1>1, <2>1, <2>2, <3>1, ShapeStays
  <2>3. CASE a = b
    <3>1. parent'[a] = Nothing /\ unread'[a] = Actors /\ todo[a] = {}
      BY <1>1, <1>6, <2>3, RedistributeIs
    <3> QED
      BY <1>1, <2>1, <2>3, <3>1 DEF ShapeOK, Nothing, Actors
  <2> QED
    BY <2>2, <2>3
<1>7. ASSUME NEW b \in Actors, NEW d \in Actors, Fetch(b, d) PROVE ShapeOK(a)'
  <2>1. /\ phase' = phase /\ phase = "balance" /\ pending' = pending /\ b \in pending
        /\ parent' = parent /\ oldParent' = oldParent
        /\ unread'[d] = unread[d] \ {b} /\ fetched'[b] = fetched[b] \cup {d}
        /\ \A c \in Actors \ {d} : unread'[c] = unread[c]
    BY <1>1, <1>7, FetchIs
  <2>2. /\ \A c \in Actors : a \in unread[c] <=> c \notin fetched[a]
        /\ a \in pending => Flat(parent[a])
        /\ a \notin pending => fetched[a] = Actors /\ todo[a] = {}
    BY <1>1, <2>1 DEF ShapeOK
  <2>3. ASSUME NEW c \in Actors PROVE a \in unread'[c] <=> c \notin fetched'[a]
    <3>1. CASE a # b
      <4>1. fetched'[a] = fetched[a]
        BY <1>1, <1>7, <3>1, FetchIs
      <4> QED
        BY <2>1, <2>2, <3>1, <4>1
    <3>2. CASE a = b
      BY <2>1, <2>2, <3>2
    <3> QED
      BY <3>1, <3>2
  <2>4. a \notin pending => fetched'[a] = fetched[a] /\ todo'[a] = todo[a]
    BY <1>1, <1>7, <2>1, FetchIs
  <2>5. Flat(parent[a])' <=> Flat(parent[a])
    BY <2>1 DEF Flat
  <2> QED
    BY <2>1, <2>2, <2>3, <2>4, <2>5 DEF ShapeOK, Actors
<1>8. ASSUME NEW b \in Actors, Balance(b) PROVE ShapeOK(a)'
  <2>1. /\ phase' = phase /\ phase = "balance" /\ pending' = pending \ {b}
        /\ todo' = todo /\ oldParent' = oldParent /\ fetched' = fetched
        /\ edges' = edges /\ unread' = unread
    BY <1>1, <1>8, BalanceIs
  <2>2. CASE a # b
    <3>1. parent'[a] = parent[a]
      BY <1>1, <1>8, <2>2, BalanceIs
    <3> QED
      BY <1>1, <2>1, <2>2, <3>1, ShapeStays
  <2>3. CASE a = b
    <3>1. fetched[a] = Actors /\ todo[a] = {}
      BY <1>1, <1>8, <2>3, BalanceIs
    <3>2. \A c \in Actors : a \in unread[c] <=> c \notin fetched[a]
      BY <1>1, <2>1 DEF ShapeOK
    <3> QED
      BY <2>1, <2>3, <3>1, <3>2 DEF ShapeOK, Actors
  <2> QED
    BY <2>2, <2>3
<1>9. ASSUME NEW b \in Actors, Communicate(b) PROVE ShapeOK(a)'
  <2>1. /\ phase' = phase /\ phase = "communicate" /\ pending' = pending \ {b}
        /\ todo' = todo /\ fetched' = fetched
    BY <1>1, <1>9, CommunicateIs
  <2>2. CASE a # b
    <3>1. /\ parent'[a] = parent[a] /\ oldParent'[a] = oldParent[a]
          /\ edges'[a] = edges[a] /\ unread'[a] = unread[a]
      BY <1>1, <1>9, <2>2, CommunicateIs
    <3> QED
      BY <1>1, <2>1, <2>2, <3>1, ShapeStays
  <2>3. CASE a = b
    <3>1. /\ unread'[a] = Actors /\ oldParent'[a] = parent[a]
          /\ DOMAIN parent'[a] = {x \in DOMAIN parent[a] : Owner(x) = a}
          /\ \A x \in DOMAIN parent'[a] : parent'[a][x] = Root(parent[a], x)
      BY <1>1, <1>9, <2>3, CommunicateIs
    <3>2. KeptOwn(a)'
      BY <3>1 DEF KeptOwn, Root, Find, Owner
    <3>3. todo[a] = {}
      BY <1>1, <2>1 DEF ShapeOK
    <3> QED
      BY <2>1, <2>3, <3>1, <3>2, <3>3 DEF ShapeOK, Actors
  <2> QED
    BY <2>2, <2>3
<1>10. ASSUME NEW b \in Actors, Squeeze(b) PROVE ShapeOK(a)'
  <2>1. phase' = phase /\ phase = "squeeze" /\ todo' = todo
    BY <1>1, <1>10, SqueezeIs
  <2>2. todo[a] = {} /\ unread[a] = {}
    BY <1>1, <2>1 DEF ShapeOK
  <2>3. unread'[a] = {}
    BY <1>1, <1>10, <2>2, SqueezeIs
  <2> QED
    BY <2>1, <2>2, <2>3 DEF ShapeOK
<1>11. CASE NextRound
  <2>1. /\ pending = {} /\ pending' = Actors /\ \A b \in Actors : fetched'[b] = {}
        /\ todo' = todo /\ parent' = parent /\ oldParent' = oldParent
        /\ edges' = edges /\ unread' = unread
    BY <1>1, <1>11, NextRoundIs
  <2>2. Flat(parent[a])' <=> Flat(parent[a])
    BY <2>1 DEF Flat
  <2>3. CASE phase \in {"redistribute", "communicate"} /\ phase' = "balance"
    <3>1. \A b \in Actors : unread[b] = Actors
      BY <1>1, <2>1, <2>3 DEF ShapeOK
    <3>2. Flat(parent[a])
      <4>1. CASE phase = "redistribute"
        BY <1>1, <2>1, <4>1, NothingFalls DEF ShapeOK
      <4>2. CASE phase = "communicate"
        <5>1. KeptOwn(a)
          BY <1>1, <2>1, <4>2 DEF ShapeOK
        <5> DEFINE q == parent[a]
                   p == oldParent[a]
                   D == Uids
        <5>2. /\ DOMAIN q = {x \in DOMAIN p : Owner(x) = a}
              /\ \A x \in DOMAIN q : q[x] = Root(p, x)
          BY <5>1 DEF KeptOwn
        <5>3. D \in SUBSET Nat /\ Falls(p, D) /\ Balanced(p)
          BY <1>2
        <5> HIDE DEF q, p, D
        <5>4. Falls(q, D) /\ Flat(q)
          BY <5>2, <5>3, OwnUidsKeepRoots
        <5> QED
          BY <5>4 DEF q
      <4> QED
        BY <2>3, <4>1, <4>2
    <3> QED
      BY <2>1, <2>2, <2>3, <3>1, <3>2 DEF ShapeOK, Actors
  <2>4. CASE phase = "balance" /\ phase' \in {"communicate", "squeeze"}
    <3>1. \A b \in Actors : \A c \in Actors : b \notin unread[c]
      BY <1>1, <2>1, <2>4 DEF ShapeOK
    <3>2. unread[a] = {} /\ todo[a] = {}
      BY <1>1, <2>1, <2>4, <3>1 DEF ShapeOK
    <3> QED
      BY <2>1, <2>4, <3>2 DEF ShapeOK, Actors
  <2>5. CASE phase = "squeeze" /\ phase' = "filter"
    BY <1>1, <2>1, <2>5 DEF ShapeOK
  <2> QED
    BY <1>1, <1>11, <2>3, <2>4, <2>5, NextRoundIs
<1>12. CASE StartMerge
  <2>1. /\ phase = "map" /\ phase' = "redistribute" /\ pending' = Actors
        /\ oldParent' = oldParent /\ edges' = edges /\ parent' = parent
    BY <1>1, <1>12, StartMergeIs
  <2>2. Flat(parent[a])' <=> Flat(parent[a])
    BY <2>1 DEF Flat
  <2> QED
    BY <1>1, <2>1, <2>2 DEF ShapeOK, Actors, Nothing
<1> QED
  BY <1>3, <1>4, <1>5, <1>6, <1>7, <1>8, <1>9, <1>10, <1>11, <1>12, Acts

LEMMA SharedInit ==
    ASSUME Init
    PROVE  Shared
<1>1. TypeInv
  <2>1. /\ bands \in [Rows -> SUBSET Keys] /\ mode \in {"generated", "given"}
    BY RowsAssumption DEF Init
  <2>2. Uids = {} /\ IsFiniteSet(Uids)
    BY FS_EmptySet DEF Init, Uids, Nothing
  <2>3. nextId \in Nat /\ uid \in [Rows -> Int]
    BY DEF Init, NoRow
  <2> QED
    BY <2>1, <2>2, <2>3 DEF Init, TypeInv, Phases
<1>2. TaskInv
  BY DEF Init, TaskInv, Uids, Nothing
<1>3. ASSUME NEW a \in Actors
      PROVE  /\ HeldOK(a) /\ TodoOK(a) /\ ForestOK(a) /\ EdgesOK(a) /\ ShapeOK(a)
  <2>1. /\ stored[a] = {} /\ current[a] = << >> /\ hot[a] = Nothing /\ todo[a] = {}
        /\ parent[a] = Nothing /\ oldParent[a] = Nothing /\ edges[a] = {} /\ phase = "map"
    BY DEF Init
  <2>2. ToSet(<< >>) = {}
    BY DEF ToSet
  <2>3. Held(a) = {} /\ << >> \in Seq(Keys \X Nat)
    BY <2>1, <2>2 DEF Held
  <2>4. HeldOK(a)
    BY <2>1, <2>3, NothingFalls DEF HeldOK
  <2>5. ForestOK(a) /\ ShapeOK(a)
    BY <2>1, NothingFalls DEF ForestOK, ShapeOK
  <2> QED
    BY <2>1, <2>4, <2>5 DEF TodoOK, EdgesOK
<1> QED
  BY <1>1, <1>2, <1>3 DEF Shared, DataInv, ShapeInv

LEMMA SharedNext ==
    ASSUME Shared, [Next]_vars
    PROVE  Shared'
<1>1. TypeInv' /\ TaskInv'
  BY TypeNext, TaskNext DEF Shared
<1>2. DataInv' <=> \A a \in Actors : HeldOK(a)' /\ TodoOK(a)' /\ ForestOK(a)' /\ EdgesOK(a)'
  BY DEF DataInv, Actors
<1>3. ShapeInv' <=> \A a \in Actors : ShapeOK(a)'
  BY DEF ShapeInv, Actors
<1>4. Shared' <=> TypeInv' /\ TaskInv' /\ DataInv' /\ ShapeInv'
  BY DEF Shared
<1> QED
  BY <1>1, <1>2, <1>3, <1>4, HeldNext, TodoNext, ForestNext, EdgesNext, ShapeNext

-----------------------------------------------------------------------------
(* Sets of uids that keep together what is united or will be: in an        *)
(* actor's forest, in its lists, in the edges on their way, and in the     *)
(* pairs of one key.                                                       *)

WholeAt(a, S) ==
    /\ Keeps(parent[a], S)
    /\ \A T \in todo[a] : \A x, y \in T : SameSide(S, x, y)
    /\ \A e \in edges[a] : unread[a] \cap Ends(e) # {} => SameSide(S, e[1], e[2])
    /\ \A g, h \in Held(a) : g[1] = h[1] => SameSide(S, g[2], h[2])
Whole(S) == \A a \in Actors : WholeAt(a, S)

LEMMA WholeNow ==
    ASSUME NEW S
    PROVE  Whole(S)' <=> \A a \in Actors : WholeAt(a, S)'
BY DEF Whole, Actors

LEMMA WholeAtStays ==
    ASSUME NEW S, NEW a \in Actors,
           stored'[a] = stored[a], current'[a] = current[a], todo'[a] = todo[a],
           parent'[a] = parent[a], edges'[a] = edges[a], unread'[a] = unread[a]
    PROVE  WholeAt(a, S)' <=> WholeAt(a, S)
<1>1. Held(a)' = Held(a)
  BY DEF Held
<1> QED
  BY <1>1 DEF WholeAt, Keeps, SameSide, Ends, Owner

LEMMA WholeStays ==
    ASSUME NEW S, UNCHANGED <<stored, current, todo, parent, edges, unread>>
    PROVE  Whole(S)' <=> Whole(S)
BY WholeNow, WholeAtStays DEF Whole

LEMMA WholeUnites ==
    ASSUME Shared, NEW S, NEW a \in Actors, UnionNext(a)
    PROVE  Whole(S)' <=> Whole(S)
<1>1. TypeInv
  BY DEF Shared
<1>2. PICK T \in todo[a] : /\ parent'[a] = Union(parent[a], T) /\ todo'[a] = todo[a] \ {T}
                           /\ \A b \in Actors \ {a} : parent'[b] = parent[b] /\ todo'[b] = todo[b]
                           /\ stored' = stored /\ current' = current
                           /\ edges' = edges /\ unread' = unread
  BY <1>1, UnionNextIs
<1>3. \A b \in Actors \ {a} : WholeAt(b, S)' <=> WholeAt(b, S)
  BY <1>2, WholeAtStays
<1>4. Keeps(Union(parent[a], T), S) <=> Keeps(parent[a], S) /\ \A x, y \in T : x \in S <=> y \in S
  <2>1. Flat(parent[a])
    BY UnitesFlat
  <2>2. Uids \in SUBSET Nat /\ Falls(parent[a], Uids) /\ T \in SUBSET Uids /\ T # {}
    BY <1>1 DEF TypeInv, Shared, DataInv, ForestOK, TodoOK
  <2>3. \A R : Keeps(Union(parent[a], T), R)
                  <=> Keeps(parent[a], R) /\ \A x, y \in T : x \in R <=> y \in R
    <3> DEFINE p == parent[a]
               D == Uids
    <3>1. D \in SUBSET Nat /\ Falls(p, D) /\ Flat(p) /\ T \in SUBSET D /\ T # {}
      BY <2>1, <2>2
    <3> HIDE DEF p, D
    <3>2. \A R : Keeps(Union(p, T), R)
                    <=> Keeps(p, R) /\ \A x, y \in T : x \in R <=> y \in R
      BY <3>1, UnionJoins
    <3> QED
      BY <3>2 DEF p
  <2> QED
    BY <2>3
<1>5. Keeps(parent[a], S)' <=> Keeps(Union(parent[a], T), S)
  BY <1>2 DEF Keeps
<1>6. /\ Held(a)' = Held(a)
      /\ (\A e \in edges[a] : unread[a] \cap Ends(e) # {} => SameSide(S, e[1], e[2]))'
            <=> \A e \in edges[a] : unread[a] \cap Ends(e) # {} => SameSide(S, e[1], e[2])
  BY <1>2 DEF Held, Ends, SameSide, Owner
<1>7. (\A U \in todo[a] : \A x, y \in U : SameSide(S, x, y))'
          <=> \A U \in todo[a] \ {T} : \A x, y \in U : SameSide(S, x, y)
  BY <1>2 DEF SameSide
<1>8. WholeAt(a, S)' <=> WholeAt(a, S)
  BY <1>4, <1>5, <1>6, <1>7 DEF WholeAt, SameSide
<1> QED
  BY <1>3, <1>8, WholeNow DEF Whole

LEMMA WholeRedistributed ==
    ASSUME Shared, NEW S, NEW a \in Actors, Redistribute(a)
    PROVE  Whole(S)' <=> Whole(S)
<1>1. TypeInv
  BY DEF Shared
<1>2. /\ phase = "redistribute" /\ a \in pending /\ todo[a] = {} /\ todo' = todo
      /\ edges'[a] = EdgesOf(Rebalanced(parent[a])) /\ unread'[a] = Actors
      /\ parent'[a] = Nothing /\ stored' = stored /\ current' = current
      /\ \A b \in Actors \ {a} : /\ parent'[b] = parent[b] /\ edges'[b] = edges[b]
                                 /\ unread'[b] = unread[b]
  BY <1>1, RedistributeIs
<1>3. \A b \in Actors \ {a} : WholeAt(b, S)' <=> WholeAt(b, S)
  BY <1>2, WholeAtStays
<1> DEFINE q == Rebalanced(parent[a])
<1>4. edges[a] = {} /\ Flat(parent[a])
  BY <1>2 DEF Shared, ShapeInv, ShapeOK
<1>5. Uids \in SUBSET Nat /\ Falls(parent[a], Uids)
  BY <1>1 DEF TypeInv, Shared, DataInv, ForestOK
<1>6. Falls(q, Uids) /\ (Keeps(q, S) <=> Keeps(parent[a], S))
  BY <1>4, <1>5, RebalancedIs
<1> HIDE DEF q
<1>7. Keeps(parent[a], S)'
  BY <1>2, NothingFalls DEF Keeps
<1>8. \A e \in edges'[a] : unread'[a] \cap Ends(e) # {}
  <2> TAKE e \in edges'[a]
  <2>1. e[1] \in Uids
    BY <1>2, <1>6 DEF EdgesOf, Falls, q
  <2>2. Owner(e[1]) \in Actors
    BY <1>5, <2>1, OwnerType
  <2> QED
    BY <1>2, <2>2 DEF Ends
<1>9. (\A e \in edges'[a] : SameSide(S, e[1], e[2])) <=> Keeps(q, S)
  <2>1. edges'[a] = {<<u, q[u]>> : u \in DOMAIN q}
    BY <1>2 DEF EdgesOf, q
  <2>2. ASSUME \A e \in edges'[a] : SameSide(S, e[1], e[2]), NEW x \in DOMAIN q
        PROVE  x \in S <=> q[x] \in S
    <3>1. <<x, q[x]>> \in edges'[a]
      BY <2>1
    <3> QED
      BY <2>2, <3>1 DEF SameSide
  <2>3. ASSUME Keeps(q, S), NEW e \in edges'[a] PROVE SameSide(S, e[1], e[2])
    BY <2>1, <2>3 DEF Keeps, SameSide
  <2> QED
    BY <2>2, <2>3 DEF Keeps
<1>10. (\A e \in edges[a] : unread[a] \cap Ends(e) # {} => SameSide(S, e[1], e[2]))'
           <=> \A e \in edges'[a] : SameSide(S, e[1], e[2])
  BY <1>8 DEF SameSide, Ends, Owner
<1>11. Held(a)' = Held(a) /\ todo'[a] = {}
  BY <1>2 DEF Held
<1>12. WholeAt(a, S)' <=> WholeAt(a, S)
  BY <1>2, <1>4, <1>6, <1>7, <1>9, <1>10, <1>11 DEF WholeAt, SameSide
<1> QED
  BY <1>3, <1>12, WholeNow DEF Whole

LEMMA WholeFetched ==
    ASSUME Shared, NEW S, NEW a \in Actors, NEW b \in Actors, Fetch(a, b)
    PROVE  Whole(S)' <=> Whole(S)
<1>1. TypeInv
  BY DEF Shared
<1>2. /\ todo[a] = {} /\ todo'[a] = SliceTodo(a, b)
      /\ unread'[b] = unread[b] \ {a}
      /\ edges'[b] = IF unread[b] \subseteq {a} THEN {} ELSE edges[b]
      /\ \A d \in Actors \ {a} : todo'[d] = todo[d]
      /\ \A d \in Actors \ {b} : unread'[d] = unread[d] /\ edges'[d] = edges[d]
      /\ stored' = stored /\ current' = current /\ parent' = parent
  BY <1>1, FetchIs
<1> DEFINE Own1(d) == \A e \in edges[d] : unread[d] \cap Ends(e) # {} => SameSide(S, e[1], e[2])
           Next1(d) == \A e \in edges'[d] : unread'[d] \cap Ends(e) # {} => SameSide(S, e[1], e[2])
           Todo0(d) == \A T \in todo[d] : \A x, y \in T : SameSide(S, x, y)
           Todo1(d) == \A T \in todo'[d] : \A x, y \in T : SameSide(S, x, y)
           Rest(d) == /\ Keeps(parent[d], S)
                      /\ \A g, h \in Held(d) : g[1] = h[1] => SameSide(S, g[2], h[2])
<1>3. Whole(S) <=> \A d \in Actors : Own1(d) /\ Todo0(d) /\ Rest(d)
  BY DEF Whole, WholeAt
<1>4. Whole(S)' <=> \A d \in Actors : Next1(d) /\ Todo1(d) /\ Rest(d)
  <2>1. \A d \in Actors : Rest(d)' <=> Rest(d)
    BY <1>2 DEF Keeps, Held, SameSide
  <2>2. \A d \in Actors : WholeAt(d, S)' <=> Next1(d) /\ Todo1(d) /\ Rest(d)'
    BY DEF WholeAt, SameSide, Ends, Owner
  <2> HIDE DEF Next1, Todo1, Rest
  <2> QED
    BY <2>1, <2>2, WholeNow
<1>5. \A d \in Actors \ {a} : Todo1(d) <=> Todo0(d)
  BY <1>2
<1>6. \A d \in Actors \ {b} : Next1(d) <=> Own1(d)
  BY <1>2
<1>7. Todo0(a)
  BY <1>2
<1>8. Own1(b) <=> Next1(b) /\ Todo1(a)
  <2>1. ASSUME Own1(b) PROVE Next1(b)
    BY <1>2, <2>1
  <2>2. ASSUME Own1(b) PROVE Todo1(a)
    <3> SUFFICES ASSUME NEW T \in todo'[a], NEW x \in T, NEW y \in T PROVE SameSide(S, x, y)
      OBVIOUS
    <3>1. PICK e \in edges[b] : a \in unread[b] /\ a \in Ends(e) /\ T = {e[1], e[2]}
      BY <1>2 DEF SliceTodo, SliceFor, Ends
    <3>2. SameSide(S, e[1], e[2])
      BY <2>2, <3>1
    <3> QED
      BY <3>1, <3>2 DEF SameSide
  <2>3. ASSUME Next1(b), Todo1(a), NEW e \in edges[b], unread[b] \cap Ends(e) # {}
        PROVE  SameSide(S, e[1], e[2])
    <3>1. PICK c \in unread[b] : c \in Ends(e)
      BY <2>3
    <3>2. CASE c = a
      <4>1. {e[1], e[2]} \in todo'[a]
        BY <1>2, <3>1, <3>2 DEF SliceTodo, SliceFor, Ends
      <4>2. e[1] \in {e[1], e[2]} /\ e[2] \in {e[1], e[2]}
        OBVIOUS
      <4> QED
        BY <2>3, <4>1, <4>2
    <3>3. CASE c # a
      BY <1>2, <2>3, <3>1, <3>3
    <3> QED
      BY <3>2, <3>3
  <2> QED
    BY <2>1, <2>2, <2>3
<1> HIDE DEF Own1, Next1, Todo0, Todo1, Rest
<1> QED
  BY <1>3, <1>4, <1>5, <1>6, <1>7, <1>8

LEMMA WholeBalanced ==
    ASSUME Shared, NEW S, NEW a \in Actors, Balance(a)
    PROVE  Whole(S)' <=> Whole(S)
<1>1. TypeInv
  BY DEF Shared
<1>2. /\ phase = "balance" /\ a \in pending /\ parent'[a] = Rebalanced(parent[a])
      /\ \A b \in Actors \ {a} : parent'[b] = parent[b]
      /\ stored' = stored /\ current' = current /\ todo' = todo
      /\ edges' = edges /\ unread' = unread
  BY <1>1, BalanceIs
<1>3. \A b \in Actors \ {a} : WholeAt(b, S)' <=> WholeAt(b, S)
  BY <1>2, WholeAtStays
<1>4. Flat(parent[a])
  BY <1>2 DEF Shared, ShapeInv, ShapeOK
<1>5. Uids \in SUBSET Nat /\ Falls(parent[a], Uids)
  BY <1>1 DEF TypeInv, Shared, DataInv, ForestOK
<1>6. Keeps(Rebalanced(parent[a]), S) <=> Keeps(parent[a], S)
  BY <1>4, <1>5, RebalancedIs
<1>7. Keeps(parent[a], S)' <=> Keeps(Rebalanced(parent[a]), S)
  BY <1>2 DEF Keeps
<1>8. WholeAt(a, S)' <=> WholeAt(a, S)
  BY <1>2, <1>6, <1>7 DEF WholeAt, Held, SameSide, Ends, Owner
<1> QED
  BY <1>3, <1>8, WholeNow DEF Whole

(* Actor b has joined x and y, is going to, or will read that it should.   *)
Told(b, x, y) ==
    \/ \E c \in Actors : <<x, y>> \in edges[c] /\ b \in unread[c]
    \/ {x, y} \in todo[b]
    \/ Root(parent[b], x) = Root(parent[b], y)

Up(p, x, y) == x \in DOMAIN p /\ y = p[x]

(* What an actor told of two uids of another one has reached their owner.  *)
HeadInv ==
    phase \in {"balance", "communicate"} =>
        \A a, b \in Actors : \A x, y :
            Up(oldParent[a], x, y) /\ a # b /\ Owner(x) = b /\ Owner(y) = b => Told(b, x, y)

(* An edge an actor has no need to tell is one it told in the last round.  *)
LEMMA NotNews ==
    ASSUME Shared, NEW a \in Actors, NEW x \in DOMAIN parent[a],
           <<x, parent[a][x]>> \notin News(a)
    PROVE  /\ x \in DOMAIN oldParent[a] /\ oldParent[a][x] = parent[a][x]
           /\ Owner(x) = a \/ parent[a][x] \in DOMAIN parent[a]
<1> DEFINE p == parent[a]
           e == <<x, p[x]>>
<1>1. e \in EdgesOf(p) /\ e[1] = x /\ e[2] = p[x]
  BY DEF EdgesOf
<1>2. p[x] = Find(oldParent[a], x) /\ (Owner(x) = a \/ p[x] \in DOMAIN p)
  BY <1>1 DEF News
<1>3. p[x] # x
  <2>1. p[x] < x /\ x \in Uids /\ p[x] \in Uids /\ Uids \in SUBSET Nat
    BY DEF Shared, DataInv, ForestOK, Falls, TypeInv
  <2>2. p[x] \in Nat /\ x \in Nat
    BY <2>1
  <2> QED
    BY <2>1, <2>2
<1> QED
  BY <1>2, <1>3 DEF Find

LEMMA WholeTold ==
    ASSUME Shared, HeadInv, NEW S, NEW a \in Actors, Communicate(a)
    PROVE  Whole(S)' <=> Whole(S)
<1> DEFINE p == parent[a]
           q == parent'[a]
<1>1. TypeInv
  BY DEF Shared
<1>2. /\ phase = "communicate" /\ a \in pending
      /\ edges'[a] = News(a) /\ unread'[a] = Actors
      /\ DOMAIN q = {x \in DOMAIN p : Owner(x) = a}
      /\ \A x \in DOMAIN q : q[x] = Root(p, x)
      /\ \A b \in Actors \ {a} : /\ parent'[b] = parent[b] /\ edges'[b] = edges[b]
                                 /\ unread'[b] = unread[b]
      /\ stored' = stored /\ current' = current /\ todo' = todo
  BY <1>1, CommunicateIs
<1>3. \A b \in Actors \ {a} : WholeAt(b, S)' <=> WholeAt(b, S)
  BY <1>2, WholeAtStays
<1>4. unread[a] = {} /\ \A b \in Actors : todo[b] = {}
  BY <1>2 DEF Shared, ShapeInv, ShapeOK
<1>5. /\ Uids \in SUBSET Nat /\ Falls(p, Uids) /\ Balanced(p)
  BY <1>1 DEF TypeInv, Shared, DataInv, ForestOK
<1>6. News(a) \subseteq EdgesOf(p)
  BY DEF News
<1>7. \A e \in edges'[a] : unread'[a] \cap Ends(e) # {}
  <2> TAKE e \in edges'[a]
  <2>1. e[1] \in Uids
    BY <1>2, <1>5, <1>6 DEF EdgesOf, Falls
  <2>2. Owner(e[1]) \in Actors
    BY <1>5, <2>1, OwnerType
  <2> QED
    BY <1>2, <2>2 DEF Ends
<1> DEFINE Rest == \A g, h \in Held(a) : g[1] = h[1] => SameSide(S, g[2], h[2])
<1>8. WholeAt(a, S) <=> Keeps(p, S) /\ Rest
  BY <1>4 DEF WholeAt
<1>9. WholeAt(a, S)' <=> /\ Keeps(q, S) /\ Rest
                         /\ \A e \in News(a) : SameSide(S, e[1], e[2])
  <2>1. Rest' <=> Rest
    BY <1>2 DEF Held, SameSide
  <2>2. (\A e \in edges[a] : unread[a] \cap Ends(e) # {} => SameSide(S, e[1], e[2]))'
            <=> \A e \in edges'[a] : SameSide(S, e[1], e[2])
    BY <1>7 DEF SameSide, Ends, Owner
  <2>3. Keeps(parent[a], S)' <=> Keeps(q, S)
    BY DEF Keeps
  <2>4. todo'[a] = {}
    BY <1>2, <1>4
  <2> HIDE DEF Rest, q
  <2>5. WholeAt(a, S)' <=> /\ Keeps(parent[a], S)' /\ Rest'
                           /\ (\A e \in edges[a] : unread[a] \cap Ends(e) # {} => SameSide(S, e[1], e[2]))'
    BY <2>4 DEF WholeAt, Rest
  <2> QED
    BY <1>2, <2>1, <2>2, <2>3, <2>5
<1> HIDE DEF p, q, Rest
<1>10. ASSUME Whole(S) PROVE Whole(S)'
  <2>1. Keeps(p, S) /\ Rest
    BY <1>8, <1>10 DEF Whole
  <2>2. \A e \in News(a) : SameSide(S, e[1], e[2])
    BY <1>6, <2>1 DEF EdgesOf, Keeps, SameSide
  <2>3. Keeps(q, S)
    <3>1. \A x \in DOMAIN q : x \in S <=> Root(p, x) \in S
      BY <2>1, KeepsRoot
    <3> QED
      BY <1>2, <3>1 DEF Keeps
  <2> QED
    BY <1>3, <1>9, <1>10, <2>1, <2>2, <2>3, WholeNow DEF Whole
<1>11. ASSUME Whole(S)' PROVE Whole(S)
  <2>0. \A b \in Actors : WholeAt(b, S)'
    BY <1>11, WholeNow
  <2>1. Keeps(q, S) /\ Rest /\ \A e \in News(a) : SameSide(S, e[1], e[2])
    BY <1>9, <2>0
  <2>2. ASSUME NEW x \in DOMAIN p PROVE x \in S <=> p[x] \in S
    <3> DEFINE y == p[x]
               b == Owner(x)
    <3>1. CASE <<x, y>> \in News(a)
      <4>1. SameSide(S, <<x, y>>[1], <<x, y>>[2])
        BY <2>1, <3>1
      <4> QED
        BY <4>1 DEF SameSide
    <3>2. CASE <<x, y>> \notin News(a)
      <4>1. /\ x \in DOMAIN oldParent[a] /\ oldParent[a][x] = y
            /\ b = a \/ y \in DOMAIN p
        BY <3>2, NotNews DEF p
      <4>2. CASE b = a
        <5>1. x \in DOMAIN q /\ q[x] = Root(p, x)
          BY <1>2, <4>2
        <5>2. x \in S <=> Root(p, x) \in S
          BY <2>1, <5>1 DEF Keeps
        <5>3. CASE y \notin DOMAIN p
          BY <5>2, <5>3 DEF Root, Find
        <5>4. CASE y \in DOMAIN p
          <6>1. Owner(y) = a /\ p[y] \notin DOMAIN p
            BY <1>5, <4>2, <5>4 DEF Balanced, Find
          <6>2. y \in DOMAIN q /\ q[y] = Root(p, y)
            BY <1>2, <5>4, <6>1
          <6>3. Root(p, x) = Root(p, y)
            BY <5>4, <6>1 DEF Root, Find
          <6> QED
            BY <2>1, <5>2, <6>2, <6>3 DEF Keeps
        <5> QED
          BY <5>3, <5>4
      <4>3. CASE b # a
        <5>1. y \in DOMAIN p /\ Owner(y) = b
          BY <1>5, <4>1, <4>3 DEF Balanced
        <5>2. b \in Actors
          BY <1>5, OwnerType DEF Falls
        <5>3. Told(b, x, y)
          BY <1>2, <4>1, <4>3, <5>1, <5>2 DEF HeadInv, Up
        <5>4. WholeAt(b, S)
          BY <1>3, <2>0, <4>3, <5>2
        <5>5. CASE \E c \in Actors : <<x, y>> \in edges[c] /\ b \in unread[c]
          <6>1. PICK c \in Actors : <<x, y>> \in edges[c] /\ b \in unread[c]
            BY <5>5
          <6>2. c # a
            BY <1>4, <6>1
          <6>3. WholeAt(c, S)
            BY <1>3, <2>0, <6>2
          <6>4. b \in unread[c] \cap Ends(<<x, y>>)
            BY <6>1 DEF Ends
          <6>5. SameSide(S, <<x, y>>[1], <<x, y>>[2])
            BY <6>1, <6>3, <6>4 DEF WholeAt
          <6> QED
            BY <6>5 DEF SameSide
        <5>6. CASE Root(parent[b], x) = Root(parent[b], y)
          <6>1. Keeps(parent[b], S)
            BY <5>4 DEF WholeAt
          <6>2. (x \in S <=> Root(parent[b], x) \in S) /\ (y \in S <=> Root(parent[b], y) \in S)
            BY <6>1, KeepsRoot
          <6> QED
            BY <5>6, <6>2
        <5> QED
          BY <1>4, <5>2, <5>3, <5>5, <5>6 DEF Told
      <4> QED
        BY <4>2, <4>3
    <3> QED
      BY <3>1, <3>2
  <2>3. Keeps(p, S)
    BY <2>2 DEF Keeps
  <2> QED
    BY <1>3, <1>8, <2>0, <2>1, <2>3 DEF Whole
<1> QED
  BY <1>10, <1>11

LEMMA WholeFlushed ==
    ASSUME Shared, NEW S, StartMerge
    PROVE  Whole(S)' <=> Whole(S)
<1>1. TypeInv /\ IsFiniteSet(Uids)
  BY DEF Shared, TypeInv
<1>2. /\ phase = "map" /\ parent' = parent /\ edges' = edges
      /\ \A a \in Actors : /\ todo[a] = {}
                           /\ todo'[a] = {T \in Runs(a) : Cardinality(T) > 1}
                           /\ stored'[a] = {} /\ current'[a] = << >>
  BY <1>1, StartMergeIs
<1>3. SUFFICES ASSUME NEW a \in Actors PROVE WholeAt(a, S)' <=> WholeAt(a, S)
  BY WholeNow DEF Whole
<1>4. edges[a] = {} /\ edges'[a] = {}
  BY <1>2 DEF Shared, ShapeInv, ShapeOK
<1>5. Held(a)' = {}
  <2>1. ToSet(<< >>) = {}
    BY DEF ToSet
  <2> QED
    BY <1>2, <2>1 DEF Held
<1> DEFINE Pairs == \A g, h \in Held(a) : g[1] = h[1] => SameSide(S, g[2], h[2])
           Lists == \A T \in todo'[a] : \A x, y \in T : SameSide(S, x, y)
           U(k)  == {h[2] : h \in {g \in Held(a) : g[1] = k}}
<1>6. WholeAt(a, S) <=> Keeps(parent[a], S) /\ Pairs
  BY <1>2, <1>4 DEF WholeAt
<1>7. WholeAt(a, S)' <=> Keeps(parent[a], S) /\ Lists
  <2>1. Keeps(parent[a], S)' <=> Keeps(parent[a], S)
    BY <1>2 DEF Keeps
  <2> QED
    BY <1>4, <1>5, <2>1 DEF WholeAt, SameSide
<1>8. Runs(a) = {U(k) : k \in {h[1] : h \in Held(a)}}
  BY DEF Runs, Held
<1>9. ASSUME Pairs PROVE Lists
  <2> SUFFICES ASSUME NEW T \in todo'[a], NEW x \in T, NEW y \in T PROVE SameSide(S, x, y)
    OBVIOUS
  <2>1. PICK k \in {h[1] : h \in Held(a)} : T = U(k)
    <3>1. T \in Runs(a)
      BY <1>2
    <3> HIDE DEF U
    <3> QED
      BY <1>8, <3>1
  <2>2. PICK g \in Held(a), h \in Held(a) : g[1] = k /\ h[1] = k /\ x = g[2] /\ y = h[2]
    BY <2>1
  <2> QED
    BY <1>9, <2>2
<1>10. ASSUME Lists, NEW g \in Held(a), NEW h \in Held(a), g[1] = h[1]
       PROVE  SameSide(S, g[2], h[2])
  <2> DEFINE T == U(g[1])
  <2>1. T \in Runs(a) /\ g[2] \in T /\ h[2] \in T
    BY <1>8, <1>10
  <2>2. T \in SUBSET Uids
    BY DEF Shared, DataInv, HeldOK
  <2> HIDE DEF T
  <2>3. CASE Cardinality(T) > 1
    BY <1>2, <1>10, <2>1, <2>3
  <2>4. CASE ~(Cardinality(T) > 1)
    <3>1. IsFiniteSet(T)
      BY <1>1, <2>2, FS_Subset
    <3>2. g[2] = h[2]
      BY <2>1, <2>4, <3>1, NotMany
    <3> QED
      BY <3>2 DEF SameSide
  <2> QED
    BY <2>3, <2>4
<1> HIDE DEF Pairs, Lists
<1>11. Pairs <=> Lists
  BY <1>9, <1>10 DEF Pairs
<1> QED
  BY <1>6, <1>7, <1>11

(* Apart from calls, that is so of every step.                             *)
LEMMA WholeStep ==
    ASSUME Shared, [Next]_vars, NEW S,
           ~ \E t \in Tasks, a \in Actors : AddPairs(t, a),
           ~ \E a \in Actors : Communicate(a) \/ Squeeze(a)
    PROVE  Whole(S)' <=> Whole(S)
<1>1. CASE Quiet
  BY <1>1, WholeStays DEF Quiet, pairs, forest, buffers
<1>2. CASE NextRound
  BY <1>2, WholeStays, NextRoundIs DEF Shared
<1> QED
  BY <1>1, <1>2, Acts, WholeFlushed, WholeBalanced, WholeFetched, WholeRedistributed, WholeUnites

(* A set that is whole after a call was so before it.                      *)
LEMMA WholeCalled ==
    ASSUME Shared, NEW S, NEW t \in Tasks, NEW a \in Actors, AddPairs(t, a), Whole(S)'
    PROVE  /\ Whole(S)
           /\ \A T \in WarmTodo(t, a) \cup ColdTodo(t, a) : \A x, y \in T : SameSide(S, x, y)
<1>1. TypeInv
  BY DEF Shared
<1>2. /\ todo'[a] = WarmTodo(t, a) \cup ColdTodo(t, a)
      /\ stored'[a] = stored[a] \cup StoredOf(t, a) /\ current'[a] = RestOf(t, a)
      /\ \A b \in Actors \ {a} : /\ todo'[b] = todo[b] /\ hot'[b] = hot[b]
                                 /\ stored'[b] = stored[b] /\ current'[b] = current[b]
  BY <1>1, AddPairsIs
<1>3. parent' = parent /\ edges' = edges /\ unread' = unread /\ todo[a] = {} /\ phase = "map"
  BY DEF AddPairs, forest, buffers
<1>4. \A b \in Actors : WholeAt(b, S)'
  BY WholeNow
<1>5. \A b \in Actors \ {a} : WholeAt(b, S)
  BY <1>2, <1>3, <1>4, WholeAtStays
<1>6. edges[a] = {}
  BY <1>3 DEF Shared, ShapeInv, ShapeOK
<1>7. Keeps(parent[a], S)
  <2>1. Keeps(parent[a], S)'
    BY <1>4 DEF WholeAt
  <2> QED
    BY <1>3, <2>1 DEF Keeps
<1>8. \A T \in WarmTodo(t, a) \cup ColdTodo(t, a) : \A x, y \in T : SameSide(S, x, y)
  <2>1. (\A T \in todo[a] : \A x, y \in T : SameSide(S, x, y))'
    BY <1>4 DEF WholeAt
  <2>2. \A T \in todo'[a] : \A x, y \in T : SameSide(S, x, y)
    BY <2>1 DEF SameSide
  <2> QED
    BY <1>2, <2>2
<1> DEFINE H == stored[a] \cup StoredOf(t, a) \cup ToSet(RestOf(t, a))
<1>9. \A g, h \in H : g[1] = h[1] => SameSide(S, g[2], h[2])
  <2>1. (\A g, h \in Held(a) : g[1] = h[1] => SameSide(S, g[2], h[2]))'
    BY <1>4 DEF WholeAt
  <2>2. Held(a)' = H
    BY <1>2 DEF Held
  <2> QED
    BY <2>1, <2>2 DEF SameSide
<1>10. ASSUME NEW g \in Held(a), NEW h \in Held(a), g[1] = h[1]
       PROVE  SameSide(S, g[2], h[2])
  <2>1. Standing(t, a, S, g) /\ Standing(t, a, S, h)
    BY <1>8, NothingLost
  <2>2. PICK u \in H : u[1] = g[1] /\ SameSide(S, u[2], g[2])
    BY <2>1 DEF Standing
  <2>3. PICK v \in H : v[1] = h[1] /\ SameSide(S, v[2], h[2])
    BY <2>1 DEF Standing
  <2>4. SameSide(S, u[2], v[2])
    BY <1>9, <1>10, <2>2, <2>3
  <2> QED
    BY <2>2, <2>3, <2>4 DEF SameSide
<1>11. WholeAt(a, S)
  BY <1>3, <1>6, <1>7, <1>10 DEF WholeAt
<1> QED
  BY <1>5, <1>8, <1>11 DEF Whole

-----------------------------------------------------------------------------
(* Nothing unites uids of different groups: a group's uids are whole.      *)

UidsOf(G) == {u \in Uids : origin[u] \in G}
SoundInv == \A r \in Rows : Whole(UidsOf(group[r]))

(* The owner knows a smaller uid of the group for every duplicate.         *)
DupsInv == \A a \in Actors : \A u \in dups[a] :
               u \in Uids /\ \E v \in Uids : v < u /\ origin[v] \in group[origin[u]]

(* Only known uids matter to whether a set is whole.                       *)
LEMMA WholeDepends ==
    ASSUME Shared, NEW S, NEW R, Whole(R), \A u \in Uids : u \in S <=> u \in R
    PROVE  Whole(S)
<1> SUFFICES ASSUME NEW a \in Actors PROVE WholeAt(a, S)
  BY DEF Whole
<1>1. WholeAt(a, R)
  BY DEF Whole
<1>2. /\ Falls(parent[a], Uids) /\ edges[a] \in SUBSET (Uids \X Uids)
      /\ \A T \in todo[a] : T \in SUBSET Uids
      /\ \A h \in Held(a) : h \in Keys \X Uids
  BY DEF Shared, DataInv, ForestOK, EdgesOK, TodoOK, HeldOK
<1>3. Keeps(parent[a], S)
  BY <1>1, <1>2 DEF WholeAt, Keeps, Falls
<1>4. \A T \in todo[a] : \A x, y \in T : SameSide(S, x, y)
  BY <1>1, <1>2 DEF WholeAt, SameSide
<1>5. ASSUME NEW e \in edges[a], unread[a] \cap Ends(e) # {} PROVE SameSide(S, e[1], e[2])
  <2>1. SameSide(R, e[1], e[2]) /\ e[1] \in Uids /\ e[2] \in Uids
    BY <1>1, <1>2, <1>5 DEF WholeAt
  <2> QED
    BY <2>1 DEF SameSide
<1>6. ASSUME NEW g \in Held(a), NEW h \in Held(a), g[1] = h[1] PROVE SameSide(S, g[2], h[2])
  <2>1. SameSide(R, g[2], h[2]) /\ g[2] \in Uids /\ h[2] \in Uids
    BY <1>1, <1>2, <1>6 DEF WholeAt
  <2> QED
    BY <2>1 DEF SameSide
<1> QED
  BY <1>3, <1>4, <1>5, <1>6 DEF WholeAt

LEMMA RightTogether ==
    ASSUME TypeInv, NEW r \in Rows, NEW a, NEW k, NEW x, NEW y,
           Right(a, <<k, x>>), Right(a, <<k, y>>)
    PROVE  SameSide(UidsOf(group[r]), x, y)
<1>1. /\ x \in Uids /\ y \in Uids /\ k \in bands[origin[x]] /\ k \in bands[origin[y]]
      /\ origin[x] \in Rows /\ origin[y] \in Rows /\ group[r] = Group(r)
  BY DEF Right, TypeInv
<1>2. Tied(origin[x], origin[y]) /\ Tied(origin[y], origin[x])
  BY <1>1 DEF Tied
<1>3. Closed(Group(r))
  BY GroupIs
<1>4. origin[x] \in group[r] <=> origin[y] \in group[r]
  BY <1>1, <1>2, <1>3 DEF Closed
<1> QED
  BY <1>1, <1>4 DEF SameSide, UidsOf

LEMMA SoundNext ==
    ASSUME Shared, Shared', HeadInv, SoundInv, [Next]_vars
    PROVE  SoundInv'
<1> SUFFICES ASSUME NEW r \in Rows PROVE Whole(UidsOf(group[r]))'
  BY DEF SoundInv, Rows, Tasks
<1>1. TypeInv /\ TaskInv
  BY DEF Shared
<1>2. PICK R : R = UidsOf(group[r])
  OBVIOUS
<1>3. PICK S : S = UidsOf(group[r])'
  OBVIOUS
<1>4. Whole(R)
  BY <1>2 DEF SoundInv
<1>5. ASSUME Whole(S)' PROVE Whole(UidsOf(group[r]))'
  <2>1. \A a \in Actors : WholeAt(a, S)'
    BY <1>5, WholeNow
  <2>2. ASSUME NEW a \in Actors PROVE WholeAt(a, UidsOf(group[r]))'
    <3>1. WholeAt(a, S)'
      BY <2>1
    <3> QED
      BY <1>3, <3>1 DEF WholeAt, Keeps, SameSide
  <2> QED
    BY <2>2 DEF Whole, Actors
<1>6. ASSUME NEW t \in Tasks, Claim(t) PROVE Whole(S)'
  <2>1. group' = group /\ Uids \subseteq Uids' /\ \A u \in Uids : origin'[u] = origin[u]
    BY <1>1, UidsGrow
  <2>2. \A u \in Uids : u \in S <=> u \in R
    BY <1>2, <1>3, <2>1 DEF UidsOf
  <2>3. Whole(S)
    BY <1>4, <2>2, WholeDepends
  <2>4. UNCHANGED <<stored, current, todo, parent, edges, unread>>
    BY <1>6 DEF Claim, pairs, forest, buffers
  <2> QED
    BY <2>3, <2>4, WholeStays
<1>7. ASSUME SameRows PROVE S = R
  BY <1>2, <1>3, <1>7 DEF SameRows, UidsOf, Uids
<1>8. ASSUME NEW t \in Tasks, NEW a \in Actors, AddPairs(t, a) PROVE Whole(S)'
  <2>1. SameRows
    BY <1>8 DEF AddPairs, SameRows, input
  <2>2. /\ todo'[a] = WarmTodo(t, a) \cup ColdTodo(t, a)
        /\ \A b \in Actors \ {a} : /\ todo'[b] = todo[b] /\ stored'[b] = stored[b]
                                   /\ current'[b] = current[b]
    BY <1>1, <1>8, AddPairsIs
  <2>3. parent' = parent /\ edges' = edges /\ unread' = unread /\ phase = "map"
    BY <1>8 DEF AddPairs, forest, buffers
  <2>4. \A b \in Actors : WholeAt(b, S)
    BY <1>4, <1>7, <2>1 DEF Whole
  <2>5. \A b \in Actors \ {a} : WholeAt(b, S)'
    BY <2>2, <2>3, <2>4, WholeAtStays
  <2>6. Keeps(parent[a], S)'
    BY <2>3, <2>4 DEF WholeAt, Keeps
  <2>7. ASSUME NEW T \in todo'[a], NEW x \in T, NEW y \in T PROVE SameSide(S, x, y)
    <3>1. PICK k : \A z \in T : Right(a, <<k, z>>)
      BY <1>8, <2>2, TodoIs
    <3>2. Right(a, <<k, x>>) /\ Right(a, <<k, y>>)
      BY <3>1
    <3> QED
      BY <1>1, <1>2, <1>7, <2>1, <3>2, RightTogether
  <2>8. edges'[a] = {}
    BY <2>3 DEF Shared, ShapeInv, ShapeOK
  <2>9. ASSUME NEW g \in Held(a)', NEW h \in Held(a)', g[1] = h[1] PROVE SameSide(S, g[2], h[2])
    <3>1. HeldOK(a)'
      BY DEF Shared, DataInv
    <3>2. \A z \in Held(a)' : z \in Keys \X Uids' /\ z[1] \in bands'[origin'[z[2]]] /\ Table(z[1]) = a
      BY <3>1 DEF HeldOK, Table
    <3>3. Uids' = Uids /\ bands' = bands /\ origin' = origin
      BY <2>1 DEF SameRows, Uids
    <3>4. \A z \in Held(a)' : z = <<z[1], z[2]>> /\ Right(a, z)
      BY <3>2, <3>3 DEF Right
    <3>5. Right(a, <<g[1], g[2]>>) /\ Right(a, <<g[1], h[2]>>)
      BY <2>9, <3>4
    <3> QED
      BY <1>1, <1>2, <1>7, <2>1, <3>5, RightTogether
  <2>10. WholeAt(a, S)'
    <3>1. (\A T \in todo[a] : \A x, y \in T : SameSide(S, x, y))'
      BY <2>7 DEF SameSide
    <3>2. (\A g, h \in Held(a) : g[1] = h[1] => SameSide(S, g[2], h[2]))'
      BY <2>9 DEF SameSide
    <3> QED
      BY <2>6, <2>8, <3>1, <3>2 DEF WholeAt
  <2> QED
    BY <2>5, <2>10, WholeNow
<1>9. ASSUME NEW a \in Actors, Communicate(a) PROVE Whole(S)'
  <2>1. SameRows
    BY <1>1, <1>9, CommunicateIs
  <2> QED
    BY <1>4, <1>7, <1>9, <2>1, WholeTold
<1>10. ASSUME NEW a \in Actors, Squeeze(a) PROVE Whole(S)'
  <2>1. /\ SameRows /\ parent'[a] = Nothing /\ edges'[a] = {}
        /\ \A b \in Actors \ {a} : /\ parent'[b] = parent[b] /\ edges'[b] = edges[b]
                                   /\ unread'[b] = unread[b]
        /\ stored' = stored /\ current' = current /\ todo' = todo
    BY <1>1, <1>10, SqueezeIs
  <2>2. \A b \in Actors : WholeAt(b, S)
    BY <1>4, <1>7, <2>1 DEF Whole
  <2>3. \A b \in Actors \ {a} : WholeAt(b, S)'
    BY <2>1, <2>2, WholeAtStays
  <2>4. Keeps(parent[a], S)'
    BY <2>1, NothingFalls DEF Keeps
  <2>5. WholeAt(a, S)'
    BY <2>1, <2>2, <2>4 DEF WholeAt, SameSide, Held
  <2> QED
    BY <2>3, <2>5, WholeNow
<1>11. ASSUME ~ \E t \in Tasks, a \in Actors : AddPairs(t, a),
              ~ \E a \in Actors : Communicate(a) \/ Squeeze(a)
       PROVE  Whole(S)'
  <2>1. ASSUME SameRows PROVE Whole(S)'
    <3>1. Whole(S)
      BY <1>4, <1>7, <2>1
    <3> QED
      BY <1>11, <3>1, WholeStep
  <2> QED
    BY <1>6, <2>1, RowsStay
<1> QED
  BY <1>5, <1>8, <1>9, <1>10, <1>11

(* A uid's parent is a smaller uid of its group.                           *)
LEMMA ParentsTogether ==
    ASSUME Shared, SoundInv, NEW a \in Actors, NEW u \in DOMAIN parent[a]
    PROVE  /\ u \in Uids /\ parent[a][u] \in Uids /\ parent[a][u] < u
           /\ origin[parent[a][u]] \in group[origin[u]]
<1>1. /\ u \in Uids /\ parent[a][u] \in Uids /\ parent[a][u] < u
  BY DEF Shared, DataInv, ForestOK, Falls
<1>2. origin[u] \in Rows /\ group[origin[u]] = Group(origin[u])
  BY <1>1 DEF Shared, TypeInv
<1>3. origin[u] \in group[origin[u]]
  BY <1>2, GroupIs
<1>4. Keeps(parent[a], UidsOf(group[origin[u]]))
  BY <1>2 DEF SoundInv, Whole, WholeAt
<1> QED
  BY <1>1, <1>3, <1>4 DEF Keeps, UidsOf

LEMMA DupsNext ==
    ASSUME Shared, SoundInv, DupsInv, [Next]_vars
    PROVE  DupsInv'
<1> SUFFICES ASSUME NEW a \in Actors, NEW u \in dups'[a]
             PROVE  u \in Uids' /\ \E v \in Uids' : v < u /\ origin'[v] \in group'[origin'[u]]
  BY DEF DupsInv, Actors
<1>1. TypeInv /\ TaskInv
  BY DEF Shared
<1>2. /\ Uids \subseteq Uids' /\ \A v \in Uids : origin'[v] = origin[v]
      /\ group' = group
  BY <1>1, UidsGrow
<1>3. ASSUME u \in Uids, \E v \in Uids : v < u /\ origin[v] \in group[origin[u]]
      PROVE  u \in Uids' /\ \E v \in Uids' : v < u /\ origin'[v] \in group'[origin'[u]]
  BY <1>2, <1>3
<1>4. ASSUME dups'[a] = dups[a]
      PROVE  u \in Uids /\ \E v \in Uids : v < u /\ origin[v] \in group[origin[u]]
  BY <1>4 DEF DupsInv
<1>5. ASSUME Squeeze(a)
      PROVE  u \in Uids /\ \E v \in Uids : v < u /\ origin[v] \in group[origin[u]]
  <2>1. u \in DOMAIN parent[a]
    BY <1>1, <1>5, SqueezeIs DEF Own
  <2> QED
    BY <2>1, ParentsTogether
<1>6. dups'[a] = dups[a] \/ Squeeze(a)
  <2>1. CASE Quiet
    BY <2>1 DEF Quiet
  <2>2. ASSUME NEW t \in Tasks, NEW b \in Actors, AddPairs(t, b) PROVE dups' = dups
    BY <2>2 DEF AddPairs, result
  <2>3. ASSUME NEW b \in Actors, Squeeze(b) PROVE b = a \/ dups'[a] = dups[a]
    BY <1>1, <2>3, SqueezeIs
  <2> QED
    BY <1>1, <2>1, <2>2, <2>3, Acts, UnionNextIs, RedistributeIs, BalanceIs, CommunicateIs,
       FetchIs, StartMergeIs, NextRoundIs
<1> QED
  BY <1>3, <1>4, <1>5, <1>6

LEMMA SoundInit ==
    ASSUME Init
    PROVE  SoundInv /\ DupsInv
<1>1. ASSUME NEW a \in Actors, NEW S PROVE WholeAt(a, S)
  <2>1. /\ stored[a] = {} /\ current[a] = << >> /\ todo[a] = {}
        /\ parent[a] = Nothing /\ edges[a] = {}
    BY DEF Init
  <2>2. ToSet(<< >>) = {}
    BY DEF ToSet
  <2>3. Held(a) = {}
    BY <2>1, <2>2 DEF Held
  <2> QED
    BY <2>1, <2>3, NothingFalls DEF WholeAt, Keeps
<1>2. SoundInv
  BY <1>1 DEF SoundInv, Whole
<1>3. \A a \in Actors : dups[a] = {}
  BY DEF Init
<1> QED
  BY <1>2, <1>3 DEF DupsInv

(* So the first uid of a group never gets a parent and is never dropped.   *)
LEMMA FirstIsFirst ==
    ASSUME Shared, NEW u \in Uids, NEW v \in Uids, v < u, origin[v] \in group[origin[u]]
    PROVE  u # FirstOf(group[origin[u]])
<1> DEFINE S == {w \in Uids : origin[w] \in group[origin[u]]}
<1>1. Uids \in SUBSET Nat
  BY DEF Shared, TypeInv
<1>2. S \in SUBSET Nat /\ v \in S /\ S # {} /\ u \in Nat /\ v \in Nat
  BY <1>1
<1>3. FirstOf(group[origin[u]]) = MinOf(S)
  BY DEF FirstOf, Uids
<1> HIDE DEF S
<1>4. MinOf(S) \in Nat /\ MinOf(S) <= v
  BY <1>2, MinOfIs
<1> QED
  BY <1>2, <1>3, <1>4

LEMMA FirstStays ==
    ASSUME Shared, SoundInv, DupsInv
    PROVE  FirstSurvives
<1> SUFFICES ASSUME NEW a \in Actors, NEW u \in DOMAIN parent[a] \cup dups[a]
             PROVE  /\ u # FirstOf(group[origin[u]])
                    /\ u \in DOMAIN parent[a] => origin[parent[a][u]] \in group[origin[u]]
  BY DEF FirstSurvives
<1>1. ASSUME u \in DOMAIN parent[a]
      PROVE  /\ u # FirstOf(group[origin[u]])
             /\ origin[parent[a][u]] \in group[origin[u]]
  BY <1>1, ParentsTogether, FirstIsFirst
<1>2. ASSUME u \in dups[a] PROVE u # FirstOf(group[origin[u]])
  BY <1>2, FirstIsFirst DEF DupsInv
<1> QED
  BY <1>1, <1>2

-----------------------------------------------------------------------------
(* The rounds.                                                             *)

LEMMA RoundSteps ==
    ASSUME Shared, [Next]_vars
    PROVE  /\ phase' = "balance" =>
                 \/ /\ phase = "balance"
                    /\ \/ Quiet
                       \/ \E a \in Actors : UnionNext(a) \/ Balance(a)
                       \/ \E a, b \in Actors : Fetch(a, b)
                 \/ phase \in {"redistribute", "communicate"} /\ NextRound
           /\ phase' = "communicate" =>
                 \/ phase = "communicate" /\ (Quiet \/ \E a \in Actors : Communicate(a))
                 \/ phase = "balance" /\ NextRound
<1>1. TypeInv
  BY DEF Shared
<1>2. CASE Quiet
  BY <1>2 DEF Quiet, driver
<1>3. ASSUME NEW t \in Tasks, NEW a \in Actors, AddPairs(t, a) PROVE phase' = "map"
  BY <1>3 DEF AddPairs, driver
<1>4. ASSUME NEW a \in Actors, UnionNext(a)
      PROVE  phase' = phase /\ phase \in {"map", "redistribute", "balance"}
  BY <1>1, <1>4, UnionNextIs, UnitesFlat
<1>5. ASSUME NEW a \in Actors
      PROVE  /\ Redistribute(a) => phase' = "redistribute"
             /\ Balance(a) => phase = "balance" /\ phase' = "balance"
             /\ Communicate(a) => phase = "communicate" /\ phase' = "communicate"
             /\ Squeeze(a) => phase' = "squeeze"
             /\ \A b \in Actors : Fetch(a, b) => phase = "balance" /\ phase' = "balance"
  BY <1>1, RedistributeIs, BalanceIs, CommunicateIs, SqueezeIs, FetchIs
<1>6. ASSUME StartMerge PROVE phase' = "redistribute"
  BY <1>1, <1>6, StartMergeIs
<1>7. CASE NextRound
  BY <1>1, <1>7, NextRoundIs
<1> QED
  BY <1>2, <1>3, <1>4, <1>5, <1>6, <1>7, Acts

LEMMA ToldNow ==
    ASSUME NEW b \in Actors, NEW x, NEW y
    PROVE  Told(b, x, y)' <=> \/ \E c \in Actors : <<x, y>> \in edges'[c] /\ b \in unread'[c]
                              \/ {x, y} \in todo'[b]
                              \/ Root(parent'[b], x) = Root(parent'[b], y)
BY DEF Told, Actors, Root, Find

LEMMA UniteJoins ==
    ASSUME Shared, NEW a \in Actors, UnionNext(a)
    PROVE  \E T \in todo[a] :
               /\ todo'[a] = todo[a] \ {T} /\ T # {} /\ T \in SUBSET Nat
               /\ Coarsens(parent[a], parent'[a]) /\ OneTree(parent'[a], T)
               /\ OnlyMoves(parent[a], parent'[a], T)
<1>1. TypeInv
  BY DEF Shared
<1>2. PICK T \in todo[a] : parent'[a] = Union(parent[a], T) /\ todo'[a] = todo[a] \ {T}
  BY <1>1, UnionNextIs
<1> DEFINE p == parent[a]
           D == Uids
<1>3. /\ D \in SUBSET Nat /\ Falls(p, D) /\ Flat(p) /\ T \in SUBSET D /\ T # {}
      /\ parent'[a] = Union(p, T)
  BY <1>2, UnitesFlat DEF Shared, TypeInv, DataInv, ForestOK, TodoOK
<1>4. T \in SUBSET Nat
  BY <1>3
<1> HIDE DEF p, D
<1>5. Falls(Union(p, T), D) /\ Coarsens(p, Union(p, T)) /\ OneTree(Union(p, T), T)
      /\ OnlyMoves(p, Union(p, T), T)
  BY <1>3, UnionJoins
<1> QED
  BY <1>2, <1>3, <1>4, <1>5 DEF p

(* What is joined stays so, and an actor unites what it was told.          *)
LEMMA BalanceKeeps ==
    ASSUME Shared, [Next]_vars, phase = "balance", phase' = "balance", NEW b \in Actors
    PROVE  /\ oldParent' = oldParent /\ Coarsens(parent[b], parent'[b])
           /\ \A x, y : Told(b, x, y) /\ b \in {Owner(x), Owner(y)} => Told(b, x, y)'
<1>1. TypeInv
  BY DEF Shared
<1>2. CASE Quiet
  <2>1. /\ oldParent' = oldParent /\ parent' = parent /\ edges' = edges
        /\ unread' = unread /\ todo' = todo
    BY <1>2 DEF Quiet, forest, buffers
  <2> QED
    BY <2>1, ToldNow DEF Told, Coarsens
<1>3. ASSUME NEW a \in Actors, UnionNext(a)
      PROVE  /\ oldParent' = oldParent
             /\ \A x, y : Root(parent[b], x) = Root(parent[b], y)
                             => Root(parent'[b], x) = Root(parent'[b], y)
             /\ \A x, y : Told(b, x, y) => Told(b, x, y)'
  <2>1. /\ \A d \in Actors \ {a} : parent'[d] = parent[d] /\ todo'[d] = todo[d]
        /\ edges' = edges /\ unread' = unread /\ oldParent' = oldParent
    BY <1>1, <1>3, UnionNextIs
  <2>2. PICK T \in todo[a] :
            /\ todo'[a] = todo[a] \ {T}
            /\ Coarsens(parent[a], parent'[a]) /\ OneTree(parent'[a], T)
    BY <1>3, UniteJoins
  <2>4. \A x, y : Root(parent[b], x) = Root(parent[b], y)
                      => Root(parent'[b], x) = Root(parent'[b], y)
    BY <2>1, <2>2 DEF Coarsens
  <2>5. ASSUME NEW x, NEW y, {x, y} \in todo[b]
        PROVE  {x, y} \in todo'[b] \/ Root(parent'[b], x) = Root(parent'[b], y)
    BY <2>1, <2>2, <2>5 DEF OneTree
  <2> QED
    BY <2>1, <2>4, <2>5, ToldNow DEF Told
<1>4. ASSUME NEW a \in Actors, Balance(a)
      PROVE  /\ oldParent' = oldParent
             /\ \A x, y : Root(parent[b], x) = Root(parent[b], y)
                             => Root(parent'[b], x) = Root(parent'[b], y)
             /\ \A x, y : Told(b, x, y) => Told(b, x, y)'
  <2>1. /\ parent'[a] = Rebalanced(parent[a]) /\ a \in pending
        /\ \A d \in Actors \ {a} : parent'[d] = parent[d]
        /\ edges' = edges /\ unread' = unread /\ todo' = todo /\ oldParent' = oldParent
    BY <1>1, <1>4, BalanceIs
  <2>2. Uids \in SUBSET Nat /\ Falls(parent[a], Uids) /\ Flat(parent[a])
    BY <2>1 DEF Shared, TypeInv, DataInv, ForestOK, ShapeInv, ShapeOK
  <2>3. \A x : Root(Rebalanced(parent[a]), x) = Root(parent[a], x)
    BY <2>2, RebalancedIs
  <2>4. \A x : Root(parent'[b], x) = Root(parent[b], x)
    BY <2>1, <2>3
  <2> QED
    BY <2>1, <2>4, ToldNow DEF Told
<1>5. ASSUME NEW a \in Actors, NEW d \in Actors, Fetch(a, d)
      PROVE  /\ oldParent' = oldParent /\ parent' = parent
             /\ \A x, y : Told(b, x, y) /\ b \in {Owner(x), Owner(y)} => Told(b, x, y)'
  <2>1. /\ todo[a] = {} /\ todo'[a] = SliceTodo(a, d)
        /\ unread'[d] = unread[d] \ {a}
        /\ edges'[d] = IF unread[d] \subseteq {a} THEN {} ELSE edges[d]
        /\ \A c \in Actors \ {a} : todo'[c] = todo[c]
        /\ \A c \in Actors \ {d} : unread'[c] = unread[c] /\ edges'[c] = edges[c]
        /\ parent' = parent /\ oldParent' = oldParent
    BY <1>1, <1>5, FetchIs
  <2>2. ASSUME NEW x, NEW y, b \in {Owner(x), Owner(y)},
               NEW c \in Actors, <<x, y>> \in edges[c], b \in unread[c]
        PROVE  \/ <<x, y>> \in edges'[c] /\ b \in unread'[c]
               \/ {x, y} \in todo'[b]
    <3>1. CASE c = d /\ b = a
      <4> DEFINE e == <<x, y>>
      <4>1. e \in SliceFor(a, edges[d]) /\ {x, y} = {e[1], e[2]}
        BY <2>2, <3>1 DEF SliceFor
      <4> HIDE DEF e
      <4> QED
        BY <2>1, <2>2, <3>1, <4>1 DEF SliceTodo
    <3>2. CASE ~(c = d /\ b = a)
      BY <2>1, <2>2, <3>2
    <3> QED
      BY <3>1, <3>2
  <2>3. \A x, y : {x, y} \in todo[b] => {x, y} \in todo'[b]
    BY <2>1
  <2> QED
    BY <2>1, <2>2, <2>3, ToldNow DEF Told
<1> QED
  BY <1>2, <1>3, <1>4, <1>5, RoundSteps DEF Coarsens

LEMMA CommunicateKeeps ==
    ASSUME Shared, NEW d \in Actors, Communicate(d), NEW b \in Actors, NEW x, NEW y,
           b = d => Owner(x) = d /\ Owner(y) = d, Told(b, x, y)
    PROVE  Told(b, x, y)'
<1>1. TypeInv
  BY DEF Shared
<1>2. /\ phase = "communicate" /\ d \in pending
      /\ DOMAIN parent'[d] = {u \in DOMAIN parent[d] : Owner(u) = d}
      /\ \A u \in DOMAIN parent'[d] : parent'[d][u] = Root(parent[d], u)
      /\ \A c \in Actors \ {d} : /\ parent'[c] = parent[c] /\ edges'[c] = edges[c]
                                 /\ unread'[c] = unread[c]
      /\ todo' = todo
  BY <1>1, CommunicateIs
<1>3. unread[d] = {}
  BY <1>2 DEF Shared, ShapeInv, ShapeOK
<1>4. /\ Uids \in SUBSET Nat /\ Falls(parent[d], Uids) /\ Balanced(parent[d])
  BY DEF Shared, TypeInv, DataInv, ForestOK
<1>5. \A u : Owner(u) = d => Root(parent'[d], u) = Root(parent[d], u)
  <2> DEFINE p == parent[d]
             q == parent'[d]
             D == Uids
  <2>1. /\ D \in SUBSET Nat /\ Falls(p, D) /\ Balanced(p)
        /\ DOMAIN q = {u \in DOMAIN p : Owner(u) = d} /\ \A u \in DOMAIN q : q[u] = Root(p, u)
    BY <1>2, <1>4
  <2> HIDE DEF p, q, D
  <2>2. Falls(q, D) /\ \A u : Owner(u) = d => Root(q, u) = Root(p, u)
    BY <2>1, OwnUidsKeepRoots
  <2> QED
    BY <2>2 DEF p, q
<1>6. \A c \in Actors : b \in unread[c] => c # d
  BY <1>3
<1>7. Root(parent[b], x) = Root(parent[b], y) => Root(parent'[b], x) = Root(parent'[b], y)
  BY <1>2, <1>5
<1> QED
  BY <1>2, <1>6, <1>7, ToldNow DEF Told

LEMMA HeadNext ==
    ASSUME Shared, HeadInv, [Next]_vars
    PROVE  HeadInv'
<1> SUFFICES ASSUME phase' \in {"balance", "communicate"},
                    NEW a \in Actors, NEW b \in Actors, NEW x, NEW y, Up(oldParent'[a], x, y),
                    a # b, Owner(x) = b, Owner(y) = b
             PROVE  Told(b, x, y)'
  BY DEF HeadInv, Actors, Owner, Up
<1>1. TypeInv
  BY DEF Shared
<1>2. ASSUME phase \in {"balance", "communicate"}, oldParent'[a] = oldParent[a]
      PROVE  Told(b, x, y)
  BY <1>2 DEF HeadInv
<1>3. ASSUME phase = "balance", phase' = "balance" PROVE Told(b, x, y)'
  <2>1. oldParent' = oldParent /\ (Told(b, x, y) /\ b \in {Owner(x), Owner(y)} => Told(b, x, y)')
    BY <1>3, BalanceKeeps
  <2> QED
    BY <1>2, <1>3, <2>1
<1>4. ASSUME phase \in {"redistribute", "balance", "communicate"}, NextRound PROVE Told(b, x, y)'
  <2>1. UNCHANGED <<parent, oldParent, edges, unread, todo>>
    BY <1>1, <1>4, NextRoundIs
  <2>2. phase # "redistribute"
    <3>1. phase = "redistribute" => oldParent[a] = Nothing
      BY DEF Shared, ShapeInv, ShapeOK
    <3> QED
      BY <2>1, <3>1, NothingFalls DEF Up
  <2>3. Told(b, x, y)
    BY <1>2, <1>4, <2>1, <2>2
  <2> QED
    BY <2>1, <2>3, ToldNow DEF Told
<1>5. ASSUME phase = "communicate", Quiet PROVE Told(b, x, y)'
  <2>1. UNCHANGED <<parent, oldParent, edges, unread, todo>>
    BY <1>5 DEF Quiet, forest, buffers
  <2>2. Told(b, x, y)
    BY <1>2, <1>5, <2>1
  <2> QED
    BY <2>1, <2>2, ToldNow DEF Told
<1>6. ASSUME NEW d \in Actors, Communicate(d) PROVE Told(b, x, y)'
  <2>1. /\ edges'[d] = News(d) /\ unread'[d] = Actors /\ oldParent'[d] = parent[d]
        /\ \A c \in Actors \ {d} : oldParent'[c] = oldParent[c]
        /\ phase = "communicate"
    BY <1>1, <1>6, CommunicateIs
  <2>2. ASSUME a = d, <<x, y>> \in News(d) PROVE Told(b, x, y)'
    BY <2>1, <2>2, ToldNow
  <2>3. ASSUME ~(a = d /\ <<x, y>> \in News(d)) PROVE Told(b, x, y)
    <3>1. CASE a = d
      <4>1. x \in DOMAIN oldParent[a] /\ oldParent[a][x] = y
        BY <2>1, <2>3, <3>1, NotNews DEF Up
      <4> QED
        BY <2>1, <4>1 DEF HeadInv, Up
    <3>2. CASE a # d
      BY <1>2, <2>1, <3>2
    <3> QED
      BY <3>1, <3>2
  <2>4. b = d => Owner(x) = d /\ Owner(y) = d
    OBVIOUS
  <2> QED
    BY <1>6, <2>2, <2>3, <2>4, CommunicateKeeps
<1> QED
  BY <1>3, <1>4, <1>5, <1>6, RoundSteps

LEMMA Forests ==
    ASSUME Shared, NEW a \in Actors
    PROVE  /\ Uids \in SUBSET Nat
           /\ Falls(parent[a], Uids) /\ Balanced(parent[a])
           /\ Falls(oldParent[a], Uids) /\ Balanced(oldParent[a])
BY DEF Shared, TypeInv, DataInv, ForestOK

(* What an actor told of a root for another actor's uid has reached the    *)
(* owners of both.                                                         *)
RootInv ==
    /\ phase = "balance" => \A a \in Actors : \A x, y :
           Up(oldParent[a], x, y) /\ y \notin DOMAIN oldParent[a] /\ Owner(x) # a
             => Told(Owner(x), x, y) /\ Told(Owner(y), x, y)
    /\ phase = "communicate" => \A a \in Actors \ pending : \A x, y :
           Up(oldParent[a], x, y) /\ y \notin DOMAIN oldParent[a] /\ Owner(x) # a
             => <<x, y>> \in edges[a]

LEMMA RootNext ==
    ASSUME Shared, RootInv, [Next]_vars
    PROVE  RootInv'
<1>1. TypeInv
  BY DEF Shared
<1>2. ASSUME phase' = "balance", NEW a \in Actors, NEW x, NEW y, Up(oldParent'[a], x, y),
             y \notin DOMAIN oldParent'[a], Owner(x) # a
      PROVE  Told(Owner(x), x, y)' /\ Told(Owner(y), x, y)'
  <2>1. CASE phase = "balance"
    <3>1. oldParent' = oldParent
      BY <1>2, <2>1, BalanceKeeps
    <3>2. x \in Nat /\ y \in Nat
      BY <1>2, <3>1, Forests DEF Up, Falls
    <3>3. Owner(x) \in Actors /\ Owner(y) \in Actors
      BY <3>2, OwnerType
    <3>4. Told(Owner(x), x, y) /\ Told(Owner(y), x, y)
      BY <1>2, <2>1, <3>1 DEF RootInv
    <3>5. \A b \in Actors : Told(b, x, y) /\ b \in {Owner(x), Owner(y)} => Told(b, x, y)'
      BY <1>2, <2>1, BalanceKeeps
    <3> QED
      BY <3>3, <3>4, <3>5
  <2>2. CASE phase \in {"redistribute", "communicate"} /\ NextRound
    <3>1. pending = {} /\ UNCHANGED <<parent, oldParent, edges, unread, todo>>
      BY <1>1, <2>2, NextRoundIs
    <3>2. phase = "communicate"
      <4>1. phase = "redistribute" => oldParent[a] = Nothing
        BY DEF Shared, ShapeInv, ShapeOK
      <4> QED
        BY <1>2, <2>2, <3>1, <4>1, NothingFalls DEF Up
    <3>3. <<x, y>> \in edges[a] /\ unread[a] = Actors
      BY <1>2, <3>1, <3>2 DEF RootInv, Shared, ShapeInv, ShapeOK
    <3>4. x \in Nat /\ y \in Nat
      BY <1>2, <3>1, Forests DEF Up, Falls
    <3>5. Owner(x) \in Actors /\ Owner(y) \in Actors
      BY <3>4, OwnerType
    <3>6. \A b \in Actors : Told(b, x, y)'
      BY <3>1, <3>3, ToldNow
    <3> QED
      BY <3>5, <3>6
  <2> QED
    BY <1>2, <2>1, <2>2, RoundSteps
<1>3. ASSUME phase' = "communicate", NEW a \in Actors, a \notin pending', NEW x, NEW y,
             Up(oldParent'[a], x, y), y \notin DOMAIN oldParent'[a], Owner(x) # a
      PROVE  <<x, y>> \in edges'[a]
  <2>1. CASE phase = "communicate" /\ Quiet
    <3>1. pending' = pending /\ oldParent' = oldParent /\ edges' = edges
      BY <2>1 DEF Quiet, driver, forest, buffers
    <3> QED
      BY <1>3, <2>1, <3>1 DEF RootInv
  <2>2. ASSUME NEW d \in Actors, Communicate(d) PROVE <<x, y>> \in edges'[a]
    <3>1. /\ phase = "communicate" /\ pending' = pending \ {d}
          /\ edges'[d] = News(d) /\ oldParent'[d] = parent[d]
          /\ \A b \in Actors \ {d} : oldParent'[b] = oldParent[b] /\ edges'[b] = edges[b]
      BY <1>1, <2>2, CommunicateIs
    <3>2. CASE a = d
      <4> DEFINE e == <<x, y>>
      <4>1. e \in EdgesOf(parent[d]) /\ e[1] = x /\ e[2] = y
        BY <1>3, <3>1, <3>2 DEF Up, EdgesOf
      <4>2. e \in News(d)
        <5> HIDE DEF e
        <5> QED
          BY <1>3, <3>1, <3>2, <4>1 DEF News
      <4> QED
        BY <3>1, <3>2, <4>2
    <3>3. CASE a # d
      BY <1>3, <3>1, <3>3 DEF RootInv
    <3> QED
      BY <3>2, <3>3
  <2>3. CASE NextRound
    BY <1>1, <1>3, <2>3, NextRoundIs
  <2> QED
    BY <1>3, <2>1, <2>2, <2>3, RoundSteps
<1> QED
  BY <1>2, <1>3 DEF RootInv, Actors, Owner, Up

(* Everything an actor unites, or has united, is about one of its uids.    *)
OwnInv ==
    phase = "balance" => \A a \in Actors :
        /\ \A T \in todo[a] : \E x \in T : Owner(x) = a
        /\ \A x \in DOMAIN parent[a] :
               \E y \in Nat : Owner(y) = a /\ Root(parent[a], y) = Root(parent[a], x)

LEMMA OwnNext ==
    ASSUME Shared, Shared', OwnInv, [Next]_vars
    PROVE  OwnInv'
<1> SUFFICES ASSUME phase' = "balance", NEW a \in Actors
             PROVE  /\ \A T \in todo'[a] : \E x \in T : Owner(x) = a
                    /\ \A x \in DOMAIN parent'[a] :
                           \E y \in Nat : /\ Owner(y) = a
                                          /\ Root(parent'[a], y) = Root(parent'[a], x)
  BY DEF OwnInv, Actors, Owner, Root, Find
<1>1. TypeInv
  BY DEF Shared
<1>2. CASE phase \in {"redistribute", "communicate"} /\ NextRound
  <2>1. pending = {} /\ parent' = parent /\ todo' = todo
    BY <1>1, <1>2, NextRoundIs
  <2>2. todo[a] = {} /\ (parent[a] = Nothing \/ KeptOwn(a))
    BY <1>2, <2>1 DEF Shared, ShapeInv, ShapeOK
  <2>3. \A x \in DOMAIN parent[a] : x \in Nat /\ Owner(x) = a
    BY <2>2, Forests, NothingFalls DEF KeptOwn, Falls
  <2> QED
    BY <2>1, <2>2, <2>3
<1>3. CASE phase = "balance" /\ \/ Quiet
                                \/ \E d \in Actors : UnionNext(d) \/ Balance(d)
                                \/ \E d, b \in Actors : Fetch(d, b)
  <2>1. /\ \A T \in todo[a] : \E x \in T : Owner(x) = a
        /\ \A x \in DOMAIN parent[a] :
               \E y \in Nat : Owner(y) = a /\ Root(parent[a], y) = Root(parent[a], x)
    BY <1>3 DEF OwnInv
  <2>2. Coarsens(parent[a], parent'[a])
    BY <1>3, BalanceKeeps
  <2>3. ASSUME NEW x \in DOMAIN parent[a]
        PROVE  \E y \in Nat : Owner(y) = a /\ Root(parent'[a], y) = Root(parent'[a], x)
    BY <2>1, <2>2 DEF Coarsens
  <2>4. ASSUME UnionNext(a)
        PROVE  /\ \A T \in todo'[a] : \E x \in T : Owner(x) = a
               /\ \A x \in DOMAIN parent'[a] :
                      \E y \in Nat : Owner(y) = a /\ Root(parent'[a], y) = Root(parent'[a], x)
    <3>1. PICK T \in todo[a] : /\ todo'[a] = todo[a] \ {T} /\ T \in SUBSET Nat
                               /\ OnlyMoves(parent[a], parent'[a], T)
      BY <2>4, UniteJoins
    <3>2. PICK z \in T : Owner(z) = a /\ z \in Nat
      BY <2>1, <3>1
    <3>3. ASSUME NEW x \in DOMAIN parent'[a], x \notin DOMAIN parent[a]
          PROVE  Root(parent'[a], z) = Root(parent'[a], x)
      <4>1. Uids' \in SUBSET Nat /\ Falls(parent'[a], Uids')
        BY DEF Shared, TypeInv, DataInv, ForestOK, Falls
      <4>2. x \in Nat
        BY <3>3, <4>1 DEF Falls
      <4>3. Root(parent'[a], x) < x
        <5> DEFINE q == parent'[a]
                   D == Uids'
        <5>1. D \in SUBSET Nat /\ Falls(q, D) /\ x \in DOMAIN q
          BY <3>3, <4>1
        <5> HIDE DEF q, D
        <5>2. Root(q, x) < x
          BY <4>2, <5>1, RootsFall
        <5> QED
          BY <5>2 DEF q
      <4>4. Root(parent[a], x) = x
        BY <3>3 DEF Root, Find
      <4>5. Root(parent'[a], x) # Root(parent[a], x)
        BY <4>2, <4>3, <4>4
      <4> QED
        BY <3>1, <3>2, <4>5 DEF OnlyMoves
    <3> QED
      BY <2>1, <2>3, <3>1, <3>2, <3>3
  <2>5. ASSUME NEW d \in Actors, NEW b \in Actors, Fetch(d, b)
        PROVE  parent' = parent /\ \A T \in todo'[a] : \E x \in T : Owner(x) = a
    <3>1. /\ todo'[d] = SliceTodo(d, b) /\ \A c \in Actors \ {d} : todo'[c] = todo[c]
          /\ parent' = parent
      BY <1>1, <2>5, FetchIs
    <3>2. ASSUME NEW T \in SliceTodo(d, b) PROVE \E x \in T : Owner(x) = d
      BY DEF SliceTodo, SliceFor
    <3> QED
      BY <2>1, <3>1, <3>2
  <2>6. ASSUME NEW d \in Actors, Balance(d)
        PROVE  todo' = todo /\ DOMAIN parent'[a] = DOMAIN parent[a]
    <3>1. /\ parent'[d] = Rebalanced(parent[d]) /\ todo' = todo
          /\ \A b \in Actors \ {d} : parent'[b] = parent[b]
      BY <1>1, <2>6, BalanceIs
    <3> QED
      BY <3>1 DEF Rebalanced
  <2>7. ASSUME NEW d \in Actors \ {a}, UnionNext(d) PROVE todo'[a] = todo[a] /\ parent'[a] = parent[a]
    BY <1>1, <2>7, UnionNextIs
  <2>8. CASE Quiet
    <3>1. todo' = todo /\ parent' = parent
      BY <2>8 DEF Quiet, forest
    <3> QED
      BY <2>1, <3>1
  <2> QED
    BY <1>3, <2>1, <2>3, <2>4, <2>5, <2>6, <2>7, <2>8
<1> QED
  BY <1>2, <1>3, RoundSteps

(* The driver is told of every change.                                     *)
AgainInv == phase = "balance" => \A a \in Actors \ pending : again \/ oldParent[a] = parent[a]

LEMMA AgainNext ==
    ASSUME Shared, AgainInv, [Next]_vars
    PROVE  AgainInv'
<1> SUFFICES ASSUME phase' = "balance", NEW a \in Actors, a \notin pending'
             PROVE  again' \/ oldParent'[a] = parent'[a]
  BY DEF AgainInv, Actors
<1>1. TypeInv
  BY DEF Shared
<1>2. CASE NextRound
  BY <1>1, <1>2, NextRoundIs
<1>3. CASE phase = "balance" /\ Quiet
  BY <1>3 DEF AgainInv, Quiet, driver, forest
<1>4. ASSUME phase = "balance", NEW d \in Actors, UnionNext(d) PROVE again' \/ oldParent'[a] = parent'[a]
  <2>1. /\ oldParent' = oldParent /\ again' = again /\ pending' = pending
        /\ d # a => parent'[a] = parent[a]
    BY <1>1, <1>4, UnionNextIs
  <2>2. todo[d] # {}
    BY <1>1, <1>4, UnionNextIs
  <2>3. d \in pending
    BY <1>4, <2>2, UnitesFlat
  <2> QED
    BY <1>4, <2>1, <2>3 DEF AgainInv
<1>5. ASSUME phase = "balance", NEW d \in Actors, Balance(d) PROVE again' \/ oldParent'[a] = parent'[a]
  <2>1. /\ oldParent' = oldParent /\ again' = (again \/ oldParent[d] # parent'[d])
        /\ pending' = pending \ {d} /\ \A b \in Actors \ {d} : parent'[b] = parent[b]
    BY <1>1, <1>5, BalanceIs
  <2>2. CASE a = d
    BY <2>1, <2>2
  <2>3. CASE a # d
    BY <1>5, <2>1, <2>3 DEF AgainInv
  <2> QED
    BY <2>2, <2>3
<1>6. ASSUME phase = "balance", NEW d \in Actors, NEW b \in Actors, Fetch(d, b)
      PROVE  again' \/ oldParent'[a] = parent'[a]
  <2>1. /\ oldParent' = oldParent /\ parent' = parent /\ again' = again /\ pending' = pending
    BY <1>1, <1>6, FetchIs
  <2> QED
    BY <1>6, <2>1 DEF AgainInv
<1> QED
  BY <1>2, <1>3, <1>4, <1>5, <1>6, RoundSteps

(* v is the root of u, one of a's uids, in p, and another actor owns it.   *)
Leads(p, a, u, v) == u \in DOMAIN p /\ v = Root(p, u) /\ Owner(u) = a /\ Owner(v) # a

LEMMA LeadsIs ==
    ASSUME Shared, NEW a \in Actors, NEW u, NEW v,
           Leads(parent[a], a, u, v) \/ Leads(oldParent[a], a, u, v)
    PROVE  u \in Nat /\ v \in Nat /\ Owner(v) \in Actors
<1>1. CASE Leads(parent[a], a, u, v)
  <2>1. u \in Nat /\ u \in DOMAIN parent[a] /\ v = Root(parent[a], u)
    BY <1>1, Forests DEF Leads, Falls
  <2>2. v \in Nat
    BY <2>1, Forests, RootsFall
  <2> QED
    BY <2>1, <2>2, OwnerType
<1>2. CASE Leads(oldParent[a], a, u, v)
  <2>1. u \in Nat /\ u \in DOMAIN oldParent[a] /\ v = Root(oldParent[a], u)
    BY <1>2, Forests DEF Leads, Falls
  <2>2. v \in Nat
    BY <2>1, Forests, RootsFall
  <2> QED
    BY <2>1, <2>2, OwnerType
<1> QED
  BY <1>1, <1>2

(* An actor that was told of a root for one of its uids in the last round  *)
(* has a uid h in the tree, and is told of one, g, with it, that the       *)
(* root's owner knows in the tree too; or it is told of a smaller root.    *)
Answered(a, u, v) ==
    \E h, g \in Nat :
        /\ Owner(h) = a /\ Owner(g) = a
        /\ Root(parent[a], h) = Root(parent[a], u) /\ Told(a, h, g)
        /\ Told(Owner(v), g, v) \/ \E w \in Nat : w < v /\ Told(a, g, w)
AnswerInv ==
    phase = "balance" => \A a \in Actors : \A u, v :
        Leads(oldParent[a], a, u, v) => Answered(a, u, v)

(* The forest an actor last told of.                                       *)
Newest(a) == IF a \in pending THEN parent[a] ELSE oldParent[a]
Agrees(a, h, v) == Root(Newest(a), h) = Root(Newest(a), v)

(* Before an actor tells its news, its root is the smaller one or known to *)
(* the owner of the last; afterwards it is known or on its way.            *)
Replied(a, u, v) ==
    \/ /\ a \in pending
       /\ \/ Root(parent[a], u) < v
          \/ \E h \in Nat : /\ Owner(h) = a /\ Root(parent[a], h) = Root(parent[a], u)
                            /\ Agrees(Owner(v), h, v)
    \/ /\ a \notin pending
       /\ \E h \in Nat : /\ Owner(h) = a /\ Root(oldParent[a], h) = v
                         /\ <<h, v>> \in edges[a] \/ Agrees(Owner(v), h, v)
ReplyInv ==
    phase = "communicate" => \A a \in Actors : \A u, v :
        Leads(oldParent[a], a, u, v) => Replied(a, u, v)

LEMMA AnsweredNow ==
    ASSUME NEW a, NEW u, NEW v
    PROVE  Answered(a, u, v)' <=>
               \E h, g \in Nat :
                   /\ Owner(h) = a /\ Owner(g) = a
                   /\ Root(parent'[a], h) = Root(parent'[a], u) /\ Told(a, h, g)'
                   /\ Told(Owner(v), g, v)' \/ \E w \in Nat : w < v /\ Told(a, g, w)'
BY DEF Answered, Owner, Root, Find

LEMMA RepliedNow ==
    ASSUME NEW a, NEW u, NEW v
    PROVE  Replied(a, u, v)' <=>
               \/ /\ a \in pending'
                  /\ \/ Root(parent'[a], u) < v
                     \/ \E h \in Nat : /\ Owner(h) = a /\ Root(parent'[a], h) = Root(parent'[a], u)
                                       /\ Agrees(Owner(v), h, v)'
               \/ /\ a \notin pending'
                  /\ \E h \in Nat : /\ Owner(h) = a /\ Root(oldParent'[a], h) = v
                                    /\ <<h, v>> \in edges'[a] \/ Agrees(Owner(v), h, v)'
BY DEF Replied, Owner, Root, Find

LEMMA AgreesNow ==
    ASSUME NEW b, NEW h, NEW v
    PROVE  Agrees(b, h, v)' <=> Root(Newest(b)', h) = Root(Newest(b)', v)
BY DEF Agrees, Root, Find

(* When all have told their news, every actor is told of the heads and     *)
(* roots that others have for its uids, and answers.                       *)
LEMMA AnswerStarts ==
    ASSUME Shared, HeadInv, RootInv, ReplyInv, phase = "communicate", pending = {},
           NEW a \in Actors, NEW u, NEW v, Leads(oldParent[a], a, u, v)
    PROVE  Answered(a, u, v)
<1> DEFINE c == Owner(v)
           p == oldParent[a]
           q == oldParent[c]
<1>1. u \in Nat /\ v \in Nat /\ c \in Actors /\ c # a
  BY LeadsIs DEF Leads
<1>2. \A b \in Actors : unread[b] = Actors /\ KeptOwn(b) /\ Newest(b) = oldParent[b]
  BY DEF Shared, ShapeInv, ShapeOK, Newest
<1>3. Uids \in SUBSET Nat /\ Falls(p, Uids) /\ Balanced(p)
  BY Forests
<1>4. \A x : Owner(x) = a => Root(parent[a], x) = Root(p, x)
  <2> DEFINE D == Uids
             s == parent[a]
  <2>1. /\ D \in SUBSET Nat /\ Falls(p, D) /\ Balanced(p)
        /\ DOMAIN s = {x \in DOMAIN p : Owner(x) = a} /\ \A x \in DOMAIN s : s[x] = Root(p, x)
    BY <1>2, <1>3 DEF KeptOwn
  <2> HIDE DEF p, s, D
  <2>2. Falls(s, D) /\ \A x : Owner(x) = a => Root(s, x) = Root(p, x)
    BY <2>1, OwnUidsKeepRoots
  <2> QED
    BY <2>2 DEF s
<1>5. PICK h \in Nat : /\ Owner(h) = a /\ Root(p, h) = v
                       /\ <<h, v>> \in edges[a] \/ Agrees(c, h, v)
  BY DEF ReplyInv, Replied
<1>6. v = Root(p, u) /\ Owner(u) = a
  BY DEF Leads
<1>7. Root(parent[a], h) = Root(parent[a], u)
  BY <1>4, <1>5, <1>6
<1>8. CASE <<h, v>> \in edges[a]
  <2>1. Told(c, h, v)
    BY <1>1, <1>2, <1>8 DEF Told
  <2>2. Told(a, h, h)
    BY DEF Told
  <2> QED
    BY <1>5, <1>7, <2>1, <2>2 DEF Answered
<1>9. CASE Agrees(c, h, v)
  <2> DEFINE r == Root(q, h)
  <2>0. Uids \in SUBSET Nat /\ Falls(q, Uids) /\ Balanced(q)
    BY <1>1, Forests
  <2>1. r = Root(q, v)
    BY <1>1, <1>2, <1>9 DEF Agrees
  <2>2. r \in Nat /\ r <= v
    BY <1>1, <2>0, <2>1, RootsFall
  <2>3. h # v /\ v <= h
    BY <1>1, <1>3, <1>5, RootsFall
  <2>4. h \in DOMAIN q
    <3>1. h \notin DOMAIN q => r = h
      BY DEF Root, Find
    <3> HIDE DEF r
    <3> QED
      BY <1>1, <2>2, <2>3, <3>1
  <2>5. PICK g : /\ g \in DOMAIN q /\ Owner(g) = a /\ q[g] = r /\ r \notin DOMAIN q
                 /\ g = h \/ g = q[h]
    <3>1. CASE q[h] \in DOMAIN q
      <4>1. Owner(q[h]) = a /\ q[q[h]] \notin DOMAIN q
        BY <1>5, <2>0, <2>4, <3>1 DEF Balanced, Find
      <4>2. r = q[q[h]]
        BY <2>4, <3>1 DEF Root, Find
      <4> HIDE DEF q, r
      <4> QED
        BY <3>1, <4>1, <4>2
    <3>2. CASE q[h] \notin DOMAIN q
      <4>1. r = q[h]
        BY <2>4, <3>2 DEF Root, Find
      <4> HIDE DEF q, r
      <4> QED
        BY <1>5, <2>4, <3>2, <4>1
    <3> QED
      BY <3>1, <3>2
  <2>6. g \in Nat
    BY <2>0, <2>5 DEF Falls
  <2>7. Told(a, h, g)
    <3>1. CASE g = h
      BY <3>1 DEF Told
    <3>2. CASE g = q[h]
      BY <1>1, <1>5, <2>4, <2>5, <3>2 DEF HeadInv, Up
    <3> QED
      BY <2>5, <3>1, <3>2
  <2>8. \A b \in Actors : Told(b, g, r)
    <3>1. <<g, r>> \in edges[c]
      BY <1>1, <2>5 DEF RootInv, Up
    <3> HIDE DEF r
    <3> QED
      BY <1>1, <1>2, <3>1 DEF Told
  <2>9. Told(c, g, v) \/ \E w \in Nat : w < v /\ Told(a, g, w)
    <3> HIDE DEF r
    <3>1. CASE r = v
      BY <1>1, <2>8, <3>1
    <3>2. CASE r # v
      <4>1. r < v
        BY <1>1, <2>2, <3>2
      <4> QED
        BY <2>2, <2>8, <4>1
    <3> QED
      BY <3>1, <3>2
  <2> QED
    BY <1>5, <1>7, <2>5, <2>6, <2>7, <2>9 DEF Answered
<1> QED
  BY <1>5, <1>8, <1>9

LEMMA AnswerNext ==
    ASSUME Shared, HeadInv, RootInv, ReplyInv, AnswerInv, [Next]_vars
    PROVE  AnswerInv'
<1> SUFFICES ASSUME phase' = "balance", NEW a \in Actors, NEW u, NEW v,
                    Leads(oldParent'[a], a, u, v)
             PROVE  Answered(a, u, v)'
  BY DEF AnswerInv, Actors, Leads, Owner, Root, Find
<1>1. TypeInv
  BY DEF Shared
<1>2. ASSUME phase = "balance" PROVE Answered(a, u, v)'
  <2>1. oldParent' = oldParent /\ Coarsens(parent[a], parent'[a])
    BY <1>2, BalanceKeeps
  <2>2. u \in Nat /\ v \in Nat /\ Owner(v) \in Actors /\ Answered(a, u, v)
    BY <1>2, <2>1, LeadsIs DEF AnswerInv
  <2>3. PICK h \in Nat, g \in Nat :
            /\ Owner(h) = a /\ Owner(g) = a
            /\ Root(parent[a], h) = Root(parent[a], u) /\ Told(a, h, g)
            /\ Told(Owner(v), g, v) \/ \E w \in Nat : w < v /\ Told(a, g, w)
    BY <2>2 DEF Answered
  <2>4. \A b \in Actors : \A x, y : Told(b, x, y) /\ b \in {Owner(x), Owner(y)} => Told(b, x, y)'
    BY <1>2, BalanceKeeps
  <2>5. Root(parent'[a], h) = Root(parent'[a], u)
    BY <2>1, <2>3 DEF Coarsens
  <2>6. Told(a, h, g)'
    BY <2>3, <2>4
  <2>7. Told(Owner(v), g, v)' \/ \E w \in Nat : w < v /\ Told(a, g, w)'
    BY <2>2, <2>3, <2>4
  <2> QED
    BY <2>3, <2>5, <2>6, <2>7, AnsweredNow
<1>3. ASSUME phase \in {"redistribute", "communicate"}, NextRound PROVE Answered(a, u, v)'
  <2>1. pending = {} /\ UNCHANGED <<parent, oldParent, edges, unread, todo>>
    BY <1>1, <1>3, NextRoundIs
  <2>2. phase = "communicate"
    <3>1. phase = "redistribute" => oldParent[a] = Nothing
      BY DEF Shared, ShapeInv, ShapeOK
    <3> QED
      BY <1>3, <2>1, <3>1, NothingFalls DEF Leads
  <2>3. Answered(a, u, v) /\ Owner(v) \in Actors
    BY <2>1, <2>2, AnswerStarts, LeadsIs
  <2>4. \A b \in Actors : \A x, y : Told(b, x, y)' <=> Told(b, x, y)
    BY <2>1, ToldNow DEF Told
  <2> QED
    BY <2>1, <2>3, <2>4, AnsweredNow DEF Answered
<1> QED
  BY <1>2, <1>3, RoundSteps

(* When a round's unions are done, what actors were told is so.            *)
LEMMA ReplyStarts ==
    ASSUME Shared, AnswerInv, phase = "balance", pending = {}, NextRound, phase' = "communicate",
           NEW a \in Actors, NEW u, NEW v, Leads(oldParent[a], a, u, v)
    PROVE  Replied(a, u, v)'
<1>1. TypeInv
  BY DEF Shared
<1>2. pending' = Actors /\ UNCHANGED <<parent, oldParent, edges, unread, todo>>
  BY <1>1, NextRoundIs
<1>3. u \in Nat /\ v \in Nat /\ Owner(v) \in Actors
  BY LeadsIs
<1>4. \A b \in Actors : todo[b] = {} /\ \A c \in Actors : b \notin unread[c]
  BY DEF Shared, ShapeInv, ShapeOK
<1>5. \A b \in Actors : \A x, y : Told(b, x, y) => Root(parent[b], x) = Root(parent[b], y)
  BY <1>4 DEF Told
<1>6. \A b \in Actors : Newest(b)' = parent[b]
  BY <1>2 DEF Newest
<1>7. PICK h \in Nat, g \in Nat :
          /\ Owner(h) = a /\ Owner(g) = a
          /\ Root(parent[a], h) = Root(parent[a], u) /\ Told(a, h, g)
          /\ Told(Owner(v), g, v) \/ \E w \in Nat : w < v /\ Told(a, g, w)
  BY DEF AnswerInv, Answered
<1>8. Root(parent[a], g) = Root(parent[a], u)
  BY <1>5, <1>7
<1>9. CASE Told(Owner(v), g, v)
  <2>1. Agrees(Owner(v), g, v)'
    BY <1>3, <1>5, <1>6, <1>9, AgreesNow
  <2> QED
    BY <1>2, <1>7, <1>8, <2>1, RepliedNow
<1>10. ASSUME NEW w \in Nat, w < v, Told(a, g, w) PROVE Replied(a, u, v)'
  <2>1. Root(parent[a], u) = Root(parent[a], w)
    BY <1>5, <1>8, <1>10
  <2>2. Root(parent[a], w) \in Nat /\ Root(parent[a], w) <= w
    BY Forests, RootsFall
  <2>3. Root(parent[a], u) < v
    BY <1>3, <1>10, <2>1, <2>2
  <2> QED
    BY <1>2, <2>3, RepliedNow
<1> QED
  BY <1>7, <1>9, <1>10

(* An actor's head for a root of another's is told, or was told already.   *)
LEMMA ReplySent ==
    ASSUME Shared, ReplyInv, NEW a \in Actors, a \in pending, phase = "communicate",
           NEW u, NEW v, Leads(parent[a], a, u, v)
    PROVE  \E h \in Nat : /\ Owner(h) = a /\ Root(parent[a], h) = v
                          /\ <<h, v>> \in News(a) \/ Agrees(Owner(v), h, v)
<1> DEFINE p == parent[a]
           q == oldParent[a]
<1>1. /\ Uids \in SUBSET Nat /\ Falls(p, Uids) /\ Balanced(p)
      /\ Falls(q, Uids) /\ Balanced(q)
  BY Forests
<1>2. u \in DOMAIN p /\ v = Root(p, u) /\ Owner(u) = a /\ Owner(v) # a /\ v \in Nat
  BY LeadsIs DEF Leads
<1>3. PICK h : h \in DOMAIN p /\ p[h] = v /\ Owner(h) = a /\ v \notin DOMAIN p
  <2>1. CASE p[u] \in DOMAIN p
    <3>1. Owner(p[u]) = a /\ p[p[u]] \notin DOMAIN p
      BY <1>1, <1>2, <2>1 DEF Balanced, Find
    <3>2. v = p[p[u]]
      BY <1>2, <2>1 DEF Root, Find
    <3> HIDE DEF p
    <3> QED
      BY <2>1, <3>1, <3>2
  <2>2. CASE p[u] \notin DOMAIN p
    <3>1. v = p[u]
      BY <1>2, <2>2 DEF Root, Find
    <3> HIDE DEF p
    <3> QED
      BY <1>2, <2>2, <3>1
  <2> QED
    BY <2>1, <2>2
<1>4. h \in Nat /\ v < h /\ Root(p, h) = v
  <2>1. h \in Nat /\ p[h] < h
    BY <1>1, <1>3 DEF Falls
  <2>2. Root(p, h) = v
    BY <1>3 DEF Root, Find
  <2> QED
    BY <1>3, <2>1, <2>2
<1>5. CASE <<h, v>> \in News(a)
  BY <1>3, <1>4, <1>5
<1>6. CASE <<h, v>> \notin News(a)
  <2>1. h \in DOMAIN q /\ q[h] = v
    BY <1>3, <1>6, NotNews
  <2>2. v \notin DOMAIN q
    BY <1>1, <1>2, <1>3, <2>1 DEF Balanced
  <2>3. Leads(q, a, h, v)
    BY <1>2, <1>3, <2>1, <2>2 DEF Leads, Root, Find
  <2>4. Replied(a, h, v)
    BY <2>3 DEF ReplyInv
  <2>5. ~(Root(p, h) < v)
    BY <1>2, <1>4
  <2>6. PICK g \in Nat : Owner(g) = a /\ Root(p, g) = Root(p, h) /\ Agrees(Owner(v), g, v)
    BY <2>4, <2>5 DEF Replied
  <2> QED
    BY <1>4, <2>6
<1> QED
  BY <1>5, <1>6

LEMMA ReplyNext ==
    ASSUME Shared, AnswerInv, ReplyInv, [Next]_vars
    PROVE  ReplyInv'
<1> SUFFICES ASSUME phase' = "communicate", NEW a \in Actors, NEW u, NEW v,
                    Leads(oldParent'[a], a, u, v)
             PROVE  Replied(a, u, v)'
  BY DEF ReplyInv, Actors, Leads, Owner, Root, Find
<1>1. TypeInv
  BY DEF Shared
<1>2. CASE phase = "balance" /\ NextRound
  <2>1. pending = {} /\ oldParent' = oldParent
    BY <1>1, <1>2, NextRoundIs
  <2> QED
    BY <1>2, <2>1, ReplyStarts
<1>3. CASE phase = "communicate" /\ Quiet
  <2>1. pending' = pending /\ parent' = parent /\ oldParent' = oldParent /\ edges' = edges
    BY <1>3 DEF Quiet, driver, forest, buffers
  <2>2. \A b : Newest(b)' = Newest(b)
    BY <2>1 DEF Newest
  <2>3. \A b, h, w : Agrees(b, h, w)' <=> Agrees(b, h, w)
    BY <2>2, AgreesNow DEF Agrees
  <2>4. Replied(a, u, v)
    BY <1>3, <2>1 DEF ReplyInv
  <2> QED
    BY <2>1, <2>3, <2>4, RepliedNow DEF Replied
<1>4. ASSUME NEW d \in Actors, Communicate(d) PROVE Replied(a, u, v)'
  <2>1. /\ phase = "communicate" /\ d \in pending /\ pending' = pending \ {d}
        /\ edges'[d] = News(d) /\ oldParent'[d] = parent[d]
        /\ \A b \in Actors \ {d} : /\ parent'[b] = parent[b] /\ oldParent'[b] = oldParent[b]
                                   /\ edges'[b] = edges[b]
    BY <1>1, <1>4, CommunicateIs
  <2>2. \A b \in Actors : Newest(b)' = Newest(b)
    BY <2>1 DEF Newest
  <2>3. \A b \in Actors : \A h, w : Agrees(b, h, w)' <=> Agrees(b, h, w)
    BY <2>2, AgreesNow DEF Agrees
  <2>4. CASE a = d
    <3>1. Leads(parent[a], a, u, v)
      BY <2>1, <2>4
    <3>2. Owner(v) \in Actors
      BY <3>1, LeadsIs
    <3>3. PICK h \in Nat : /\ Owner(h) = a /\ Root(parent[a], h) = v
                           /\ <<h, v>> \in News(a) \/ Agrees(Owner(v), h, v)
      BY <2>1, <2>4, <3>1, ReplySent
    <3>4. /\ a \notin pending' /\ Root(oldParent'[a], h) = v
          /\ <<h, v>> \in edges'[a] \/ Agrees(Owner(v), h, v)'
      BY <2>1, <2>3, <2>4, <3>2, <3>3
    <3> QED
      BY <3>3, <3>4, RepliedNow
  <2>5. CASE a # d
    <3>1. Leads(oldParent[a], a, u, v)
      BY <2>1, <2>5
    <3>2. Owner(v) \in Actors /\ Replied(a, u, v)
      BY <2>1, <3>1, LeadsIs DEF ReplyInv
    <3>3. /\ parent'[a] = parent[a] /\ oldParent'[a] = oldParent[a] /\ edges'[a] = edges[a]
          /\ a \in pending' <=> a \in pending
          /\ \A h : Agrees(Owner(v), h, v)' <=> Agrees(Owner(v), h, v)
      BY <2>1, <2>3, <2>5, <3>2
    <3> QED
      BY <3>2, <3>3, RepliedNow DEF Replied
  <2> QED
    BY <2>4, <2>5
<1> QED
  BY <1>2, <1>3, <1>4, RoundSteps

-----------------------------------------------------------------------------
(* No tie is lost on the way.  A set of uids that is whole has, for every  *)
(* band a row has sent, a pair that its actor holds on the row's side.     *)

Sent(t, a, r, k) ==
    /\ r \in ToSet(RowsOf[t]) /\ k \in bands[r] /\ Table(k) = a
    /\ task[t] # "ready" /\ a \notin left[t]
HeldFor(a, S, r, k) == \E h \in Held(a) : h[1] = k /\ SameSide(S, h[2], uid[r])
SentInv ==
    phase = "map" => \A S : Whole(S) =>
        \A t \in Tasks, a \in Actors : \A r, k : Sent(t, a, r, k) => HeldFor(a, S, r, k)

LEMMA HeldForNow ==
    ASSUME NEW a, NEW S, NEW r, NEW k
    PROVE  HeldFor(a, S, r, k)' <=> \E h \in Held(a)' : h[1] = k /\ SameSide(S, h[2], uid'[r])
BY DEF HeldFor, SameSide

LEMMA MapSteps ==
    ASSUME TypeInv, [Next]_vars, phase' = "map"
    PROVE  /\ phase = "map"
           /\ \/ UNCHANGED vars
              \/ \E t \in Tasks : Claim(t) \/ FinishTask(t) \/ Rerun(t)
              \/ \E t \in Tasks, a \in Actors : AddPairs(t, a)
              \/ \E a \in Actors : UnionNext(a)
<1>1. CASE UNCHANGED vars
  BY <1>1 DEF vars
<1>2. ASSUME NEW t \in Tasks, Claim(t) \/ Rerun(t) PROVE phase = "map"
  BY <1>2 DEF Claim, Rerun
<1>3. ASSUME NEW t \in Tasks, FinishTask(t) PROVE phase = "map"
  BY <1>3 DEF FinishTask, driver
<1>4. ASSUME NEW t \in Tasks, NEW a \in Actors, AddPairs(t, a) PROVE phase = "map"
  BY <1>4 DEF AddPairs
<1>5. ASSUME NEW a \in Actors, UnionNext(a) PROVE phase = "map"
  BY <1>5, UnionNextIs
<1>6. ASSUME NEW a \in Actors
      PROVE  /\ Redistribute(a) => phase' = "redistribute"
             /\ Balance(a) => phase' = "balance"
             /\ Communicate(a) => phase' = "communicate"
             /\ Squeeze(a) => phase' = "squeeze"
             /\ \A b \in Actors : Fetch(a, b) => phase' = "balance"
  BY RedistributeIs, BalanceIs, CommunicateIs, SqueezeIs, FetchIs
<1>7. ASSUME StartMerge \/ NextRound PROVE FALSE
  BY <1>7, StartMergeIs, NextRoundIs
<1>8. ASSUME NEW t \in Tasks, Filter(t) PROVE phase' = "filter"
  BY <1>8 DEF Filter, driver
<1> QED
  BY <1>1, <1>2, <1>3, <1>4, <1>5, <1>6, <1>7, <1>8 DEF Next

(* Only a claim gives a row a uid, and only a call is sent.                *)
LEMMA SentGrows ==
    ASSUME Shared, [Next]_vars, phase' = "map", ~ \E u \in Tasks, d \in Actors : AddPairs(u, d),
           NEW t \in Tasks, NEW a \in Actors, NEW r, NEW k, Sent(t, a, r, k)'
    PROVE  Sent(t, a, r, k) /\ uid'[r] = uid[r]
<1>1. /\ TypeInv /\ DOMAIN task = Tasks /\ DOMAIN left = Tasks
      /\ bands \in [Rows -> SUBSET Keys]
  BY DEF Shared, TypeInv
<1>2. r \in ToSet(RowsOf[t]) /\ r \in Rows /\ Table(k) = a
  BY TaskRows DEF Sent, Table
<1>3. k \in bands'[r] /\ task'[t] # "ready" /\ a \notin left'[t]
  BY DEF Sent
<1>4. ASSUME UNCHANGED <<task, left, bands, uid>> PROVE Sent(t, a, r, k) /\ uid'[r] = uid[r]
  BY <1>2, <1>3, <1>4 DEF Sent
<1>5. ASSUME NEW d \in Actors, UnionNext(d) PROVE UNCHANGED <<task, left, bands, uid>>
  BY <1>1, <1>5, UnionNextIs DEF SameRows
<1>6. ASSUME NEW u \in Tasks, FinishTask(u) PROVE Sent(t, a, r, k) /\ uid'[r] = uid[r]
  <2>1. /\ task[u] = "calling" /\ left' = left /\ bands' = bands /\ uid' = uid
        /\ \A s \in Tasks \ {u} : task'[s] = task[s]
    BY <1>1, <1>6 DEF FinishTask, input
  <2>2. task[t] # "ready"
    BY <1>3, <2>1
  <2> QED
    BY <1>2, <1>3, <2>1, <2>2 DEF Sent
<1>7. ASSUME NEW u \in Tasks, Rerun(u) PROVE Sent(t, a, r, k) /\ uid'[r] = uid[r]
  <2>1. /\ bands' = bands /\ uid' = uid /\ task'[u] = "ready"
        /\ \A s \in Tasks \ {u} : task'[s] = task[s] /\ left'[s] = left[s]
    BY <1>1, <1>7 DEF Rerun, input
  <2> QED
    BY <1>2, <1>3, <2>1 DEF Sent
<1>8. ASSUME NEW u \in Tasks, Claim(u) PROVE Sent(t, a, r, k) /\ uid'[r] = uid[r]
  <2>1. /\ bands' = bands
        /\ left'[u] = {Table(j) : j \in UNION {bands[s] : s \in ToSet(RowsOf[u])}}
        /\ \A s \in Tasks \ {u} : task'[s] = task[s] /\ left'[s] = left[s]
    BY <1>1, <1>8 DEF Claim, input
  <2>2. t # u
    <3> SUFFICES ASSUME t = u PROVE FALSE
      OBVIOUS
    <3>1. k \in UNION {bands[s] : s \in ToSet(RowsOf[u])}
      BY <1>2, <1>3, <2>1
    <3>2. a \in left'[u]
      BY <1>2, <2>1, <3>1
    <3> QED
      BY <1>3, <3>2
  <2>3. r \notin ToSet(RowsOf[u])
    BY <1>2, <2>2, TasksApart
  <2>4. uid'[r] = uid[r]
    BY <1>1, <1>2, <1>8, <2>3, ClaimIs DEF Shared
  <2> QED
    BY <1>2, <1>3, <2>1, <2>2, <2>4 DEF Sent
<1>9. ASSUME UNCHANGED vars PROVE UNCHANGED <<task, left, bands, uid>>
  BY <1>9 DEF vars
<1> QED
  BY <1>1, <1>4, <1>5, <1>6, <1>7, <1>8, <1>9, MapSteps

LEMMA TableType ==
    ASSUME NEW k \in Keys
    PROVE  Table(k) \in Actors
<1>1. TableOf[k] \in Nat
  BY RowsAssumption
<1> DEFINE n == TableOf[k]
<1>2. \A m \in Nat : m % ParallelNum \in 0..(ParallelNum - 1)
  BY SizesAssumption
<1> HIDE DEF n
<1>3. n \in Nat => n % ParallelNum \in 0..(ParallelNum - 1)
  BY <1>2
<1> QED
  BY <1>1, <1>3 DEF Table, Actors, n

LEMMA SentNext ==
    ASSUME Shared, SentInv, [Next]_vars
    PROVE  SentInv'
<1> SUFFICES ASSUME phase' = "map", NEW S, Whole(S)',
                    NEW t \in Tasks, NEW a \in Actors, NEW r, NEW k, Sent(t, a, r, k)'
             PROVE  HeldFor(a, S, r, k)'
  BY DEF SentInv, Actors, Tasks
<1>1. TypeInv /\ phase = "map"
  BY MapSteps DEF Shared
<1>2. ASSUME ~ \E u \in Tasks, d \in Actors : AddPairs(u, d) PROVE HeldFor(a, S, r, k)'
  <2>1. ~ \E d \in Actors : Communicate(d) \/ Squeeze(d)
    BY <1>1, CommunicateIs, SqueezeIs
  <2>2. Whole(S)
    BY <1>2, <2>1, WholeStep
  <2>3. Sent(t, a, r, k) /\ uid'[r] = uid[r]
    BY <1>2, SentGrows
  <2>4. stored' = stored /\ current' = current
    <3>1. ASSUME NEW u \in Tasks, Claim(u) \/ FinishTask(u) \/ Rerun(u)
          PROVE  stored' = stored /\ current' = current
      BY <3>1 DEF Claim, FinishTask, Rerun, pairs
    <3>2. ASSUME NEW d \in Actors, UnionNext(d) PROVE stored' = stored /\ current' = current
      BY <1>1, <3>2, UnionNextIs
    <3>3. CASE UNCHANGED vars
      BY <3>3 DEF vars
    <3> QED
      BY <1>1, <1>2, <3>1, <3>2, <3>3, MapSteps
  <2>5. HeldFor(a, S, r, k)
    BY <1>1, <2>2, <2>3 DEF SentInv
  <2>6. Held(a)' = Held(a)
    BY <2>4 DEF Held
  <2> QED
    BY <2>3, <2>5, <2>6, HeldForNow DEF HeldFor
<1>3. ASSUME NEW u \in Tasks, NEW d \in Actors, AddPairs(u, d) PROVE HeldFor(a, S, r, k)'
  <2>1. /\ bands' = bands /\ uid' = uid /\ task' = task /\ task[u] = "calling"
        /\ left' = [left EXCEPT ![u] = @ \ {d}] /\ DOMAIN left = Tasks
    BY <1>1, <1>3 DEF AddPairs, input, TypeInv
  <2>2. /\ stored'[d] = stored[d] \cup StoredOf(u, d) /\ current'[d] = RestOf(u, d)
        /\ \A b \in Actors \ {d} : stored'[b] = stored[b] /\ current'[b] = current[b]
    BY <1>1, <1>3, AddPairsIs
  <2>3. /\ Whole(S)
        /\ \A T \in WarmTodo(u, d) \cup ColdTodo(u, d) : \A x, y \in T : SameSide(S, x, y)
    BY <1>3, WholeCalled
  <2>4. r \in ToSet(RowsOf[t]) /\ Table(k) = a /\ k \in bands[r] /\ task[t] # "ready" /\ a \notin left'[t]
    BY <2>1 DEF Sent, Table
  <2>5. ASSUME NEW z \in ToSet(CallOf(u, d)) \cup Held(d), a = d,
               z[1] = k, SameSide(S, z[2], uid[r])
        PROVE  HeldFor(a, S, r, k)'
    <3>1. Standing(u, d, S, z)
      BY <1>3, <2>3, <2>5, NothingLost
    <3>2. Held(d)' = stored[d] \cup StoredOf(u, d) \cup ToSet(RestOf(u, d))
      BY <2>2 DEF Held
    <3>3. PICK h \in Held(d)' : h[1] = z[1] /\ SameSide(S, h[2], z[2])
      BY <3>1, <3>2 DEF Standing
    <3>4. SameSide(S, h[2], uid'[r])
      BY <2>1, <2>5, <3>3 DEF SameSide
    <3> QED
      BY <2>5, <3>3, <3>4, HeldForNow
  <2>6. ASSUME a \notin left[t] PROVE HeldFor(a, S, r, k)'
    <3>1. HeldFor(a, S, r, k)
      BY <1>1, <2>3, <2>4, <2>6 DEF SentInv, Sent
    <3>2. PICK h \in Held(a) : h[1] = k /\ SameSide(S, h[2], uid[r])
      BY <3>1 DEF HeldFor
    <3>3. CASE a = d
      BY <2>5, <3>2, <3>3
    <3>4. CASE a # d
      <4>1. Held(a)' = Held(a)
        BY <2>2, <3>4 DEF Held
      <4> QED
        BY <2>1, <3>2, <4>1, HeldForNow
    <3> QED
      BY <3>3, <3>4
  <2>7. ASSUME a \in left[t] PROVE HeldFor(a, S, r, k)'
    <3>1. t = u /\ a = d
      BY <2>1, <2>4, <2>7
    <3> DEFINE z == <<k, uid[r]>>
    <3>2. z \in ToSet(CallOf(u, d))
      BY <1>3, <2>4, <3>1, CallIsRight
    <3>3. z[1] = k /\ SameSide(S, z[2], uid[r])
      BY DEF SameSide
    <3> HIDE DEF z
    <3> QED
      BY <2>5, <3>1, <3>2, <3>3
  <2> QED
    BY <2>6, <2>7
<1> QED
  BY <1>2, <1>3

(* From then on, what is whole keeps rows with a common band together.     *)
JoinedInv ==
    phase \in {"redistribute", "balance", "communicate"} => \A S : Whole(S) =>
        \A x, y \in Rows : Tied(x, y) => SameSide(S, uid[x], uid[y])

LEMMA JoinedStarts ==
    ASSUME Shared, SentInv, StartMerge, NEW S, Whole(S),
           NEW x \in Rows, NEW y \in Rows, Tied(x, y)
    PROVE  SameSide(S, uid[x], uid[y])
<1>1. phase = "map" /\ \A t \in Tasks : task[t] = "written" /\ left[t] = {}
  <2>1. phase = "map" /\ \A t \in Tasks : task[t] = "written"
    BY StartMergeIs DEF Shared
  <2> QED
    BY <2>1 DEF Shared, TaskInv
<1>2. PICK k : k \in bands[x] /\ k \in bands[y]
  BY DEF Tied
<1>3. Table(k) \in Actors
  <2>1. k \in Keys
    BY <1>2 DEF Shared, TypeInv
  <2> QED
    BY <2>1, TableType
<1>4. PICK t \in Tasks, u \in Tasks : x \in ToSet(RowsOf[t]) /\ y \in ToSet(RowsOf[u])
  BY DEF Rows
<1>5. HeldFor(Table(k), S, x, k) /\ HeldFor(Table(k), S, y, k)
  <2>1. Sent(t, Table(k), x, k) /\ Sent(u, Table(k), y, k)
    BY <1>1, <1>2, <1>4 DEF Sent
  <2> QED
    BY <1>1, <1>3, <2>1 DEF SentInv
<1>6. PICK g \in Held(Table(k)) : g[1] = k /\ SameSide(S, g[2], uid[x])
  BY <1>5 DEF HeldFor
<1>7. PICK h \in Held(Table(k)) : h[1] = k /\ SameSide(S, h[2], uid[y])
  BY <1>5 DEF HeldFor
<1>8. SameSide(S, g[2], h[2])
  BY <1>3, <1>6, <1>7 DEF Whole, WholeAt
<1> QED
  BY <1>6, <1>7, <1>8 DEF SameSide

LEMMA JoinedNext ==
    ASSUME Shared, HeadInv, SentInv, JoinedInv, [Next]_vars
    PROVE  JoinedInv'
<1> SUFFICES ASSUME phase' \in {"redistribute", "balance", "communicate"}, NEW S, Whole(S)',
                    NEW x \in Rows, NEW y \in Rows, Tied(x, y)'
             PROVE  SameSide(S, uid[x], uid[y])'
  BY DEF JoinedInv, Rows, Tasks
<1>1. TypeInv
  BY DEF Shared
<1>2. /\ ~ \E t \in Tasks, a \in Actors : AddPairs(t, a)
      /\ ~ \E a \in Actors : Squeeze(a)
      /\ ~ \E t \in Tasks : Claim(t)
  <2>1. ASSUME NEW t \in Tasks, NEW a \in Actors, AddPairs(t, a) PROVE phase' = "map"
    BY <2>1 DEF AddPairs, driver
  <2>2. ASSUME NEW t \in Tasks, Claim(t) PROVE phase' = "map"
    BY <2>2 DEF Claim, driver
  <2>3. ASSUME NEW a \in Actors, Squeeze(a) PROVE phase' = "squeeze"
    BY <1>1, <2>3, SqueezeIs
  <2> QED
    BY <2>1, <2>2, <2>3
<1>3. Whole(S)
  <2>1. CASE \E a \in Actors : Communicate(a)
    BY <2>1, WholeTold
  <2>2. CASE ~ \E a \in Actors : Communicate(a)
    BY <1>2, <2>2, WholeStep
  <2> QED
    BY <2>1, <2>2
<1>4. bands' = bands /\ uid' = uid
  BY <1>2, RowsStay DEF SameRows
<1>5. Tied(x, y)
  BY <1>4 DEF Tied
<1>6. SameSide(S, uid[x], uid[y])
  <2>1. CASE StartMerge
    BY <1>3, <1>5, <2>1, JoinedStarts
  <2>2. CASE ~StartMerge
    <3>1. phase \in {"redistribute", "balance", "communicate"}
      <4>1. Quiet => phase' = phase
        BY DEF Quiet, driver
      <4>2. ASSUME NEW a \in Actors
            PROVE  /\ UnionNext(a) => phase' = phase
                   /\ Redistribute(a) => phase' = phase
                   /\ Balance(a) => phase' = phase
                   /\ Communicate(a) => phase' = phase
                   /\ \A b \in Actors : Fetch(a, b) => phase' = phase
        BY <1>1, UnionNextIs, RedistributeIs, BalanceIs, CommunicateIs, FetchIs
      <4>3. NextRound => phase \in {"redistribute", "balance", "communicate"} \/ phase' = "filter"
        BY <1>1, NextRoundIs
      <4> QED
        BY <1>2, <2>2, <4>1, <4>2, <4>3, Acts
    <3> QED
      BY <1>3, <1>5, <3>1 DEF JoinedInv
  <2> QED
    BY <2>1, <2>2
<1> QED
  BY <1>4, <1>6 DEF SameSide

-----------------------------------------------------------------------------
(* The end of the rounds.                                                  *)

RootOf(u) == Root(parent[Owner(u)], u)

(* When no forest changed, a uid has one root, whoever is asked.           *)
LEMMA OneRoot ==
    ASSUME Shared, HeadInv, RootInv, OwnInv, AnswerInv, AgainInv,
           phase = "balance", pending = {}, ~again,
           NEW a \in Actors, NEW x \in DOMAIN parent[a]
    PROVE  x \in Nat /\ parent[a][x] \in Nat /\ RootOf(parent[a][x]) = RootOf(x)
<1>1. \A b \in Actors : oldParent[b] = parent[b]
  BY DEF AgainInv
<1>2. \A b \in Actors : todo[b] = {} /\ \A c \in Actors : b \notin unread[c]
  BY DEF Shared, ShapeInv, ShapeOK
<1>3. \A b \in Actors : \A y, z : Told(b, y, z) => Root(parent[b], y) = Root(parent[b], z)
  BY <1>2 DEF Told
<1>4. Uids \in SUBSET Nat /\ \A b \in Actors : Falls(parent[b], Uids) /\ Balanced(parent[b])
  BY Forests DEF Shared, TypeInv
<1>5. \A b \in Actors : \A y \in DOMAIN parent[b] :
          y \in Nat /\ parent[b][y] \in Nat /\ Owner(y) \in Actors
  BY <1>4, OwnerType DEF Falls
<1>6. HeadsKnown(parent)
  <2> SUFFICES ASSUME NEW b \in Actors, NEW y \in DOMAIN parent[b],
                      b # Owner(y), Owner(parent[b][y]) = Owner(y)
               PROVE  Root(parent[Owner(y)], y) = Root(parent[Owner(y)], parent[b][y])
    BY DEF HeadsKnown
  <2>1. Up(oldParent[b], y, parent[b][y])
    BY <1>1 DEF Up
  <2>2. Told(Owner(y), y, parent[b][y])
    BY <1>5, <2>1 DEF HeadInv
  <2> QED
    BY <1>3, <1>5, <2>2
<1>7. RootsKnown(parent)
  <2> SUFFICES ASSUME NEW b \in Actors, NEW y \in DOMAIN parent[b],
                      b # Owner(y), parent[b][y] \notin DOMAIN parent[b]
               PROVE  Root(parent[Owner(y)], y) = Root(parent[Owner(y)], parent[b][y])
    BY DEF RootsKnown
  <2>1. Up(oldParent[b], y, parent[b][y]) /\ parent[b][y] \notin DOMAIN oldParent[b]
    BY <1>1 DEF Up
  <2>2. Told(Owner(y), y, parent[b][y])
    BY <2>1 DEF RootInv
  <2> QED
    BY <1>3, <1>5, <2>2
<1>8. OwnInTrees(parent)
  BY DEF OwnInv, OwnInTrees
<1>9. RootsAnswer(parent)
  <2> SUFFICES ASSUME NEW b \in Actors, NEW y \in DOMAIN parent[b],
                      Owner(y) = b, Owner(Root(parent[b], y)) # b
               PROVE  \E g \in Nat :
                 /\ Owner(g) = b /\ Root(parent[b], g) = Root(parent[b], y)
                 /\ \/ Root(parent[Owner(Root(parent[b], y))], g)
                          = Root(parent[Owner(Root(parent[b], y))], Root(parent[b], y))
                    \/ \E w \in Nat : w < Root(parent[b], y) /\ Root(parent[b], g) = Root(parent[b], w)
    BY DEF RootsAnswer
  <2>0. PICK v : v = Root(parent[b], y)
    OBVIOUS
  <2>1. Leads(oldParent[b], b, y, v)
    BY <1>1, <2>0 DEF Leads
  <2>2. Answered(b, y, v) /\ Owner(v) \in Actors
    BY <2>1, LeadsIs DEF AnswerInv
  <2>3. PICK h \in Nat, g \in Nat :
            /\ Owner(h) = b /\ Owner(g) = b
            /\ Root(parent[b], h) = Root(parent[b], y) /\ Told(b, h, g)
            /\ Told(Owner(v), g, v) \/ \E w \in Nat : w < v /\ Told(b, g, w)
    BY <2>2 DEF Answered
  <2>4. Root(parent[b], g) = Root(parent[b], y)
    BY <1>3, <2>3
  <2>5. \/ Root(parent[Owner(v)], g) = Root(parent[Owner(v)], v)
        \/ \E w \in Nat : w < v /\ Root(parent[b], g) = Root(parent[b], w)
    BY <1>3, <2>2, <2>3
  <2> QED
    BY <2>0, <2>3, <2>4, <2>5
<1>10. SameRoots(parent)
  <2> DEFINE D == Uids
  <2>1. D \in SUBSET Nat /\ ForestsIn(parent, D)
    BY <1>4 DEF ForestsIn
  <2> HIDE DEF D
  <2>2. SameRoots(parent) /\ ForestsIn(parent, D)
    BY <1>6, <1>7, <1>8, <1>9, <2>1, RootsAgree
  <2> QED
    BY <2>2
<1>11. \A y \in DOMAIN parent[a] :
           RootOf(y) = Root(parent[a], y) /\ RootOf(Root(parent[a], y)) = Root(parent[a], y)
  BY <1>10 DEF RootOf, SameRoots
<1>12. CASE parent[a][x] \in DOMAIN parent[a]
  <2>1. Root(parent[a], parent[a][x]) = Root(parent[a], x)
    BY <1>4, <1>12 DEF Balanced, Root, Find
  <2> QED
    BY <1>5, <1>11, <1>12, <2>1
<1>13. CASE parent[a][x] \notin DOMAIN parent[a]
  <2>1. Root(parent[a], x) = parent[a][x]
    BY <1>13 DEF Root, Find
  <2> QED
    BY <1>5, <1>11, <2>1
<1> QED
  BY <1>12, <1>13

(* The uids of rows of one group then have one root.                       *)
LEMMA OneRootPerGroup ==
    ASSUME Shared, HeadInv, RootInv, OwnInv, AnswerInv, AgainInv, JoinedInv,
           phase = "balance", pending = {}, ~again,
           NEW x \in Rows, NEW y \in group[x]
    PROVE  RootOf(uid[x]) = RootOf(uid[y])
<1> DEFINE S == {u \in Nat : RootOf(u) = RootOf(uid[x])}
           G == {z \in Rows : uid[z] \in S}
<1>1. Whole(S)
  <2> SUFFICES ASSUME NEW a \in Actors PROVE WholeAt(a, S)
    BY DEF Whole
  <2>1. todo[a] = {} /\ unread[a] \cap Actors = {} /\ unread[a] \in SUBSET Actors
    BY DEF Shared, TypeInv, ShapeInv, ShapeOK
  <2>2. Held(a) = {}
    BY DEF Shared, DataInv, HeldOK
  <2>3. Keeps(parent[a], S)
    BY OneRoot DEF Keeps
  <2> HIDE DEF S
  <2> QED
    BY <2>1, <2>2, <2>3 DEF WholeAt
<1>2. Closed(G)
  <2> HIDE DEF S
  <2> QED
    BY <1>1 DEF JoinedInv, Closed, SameSide
<1>3. x \in G
  <2>1. uid[x] \in Uids /\ Uids \in SUBSET Nat
    BY DEF Shared, TypeInv, TaskInv, Rows
  <2>2. uid[x] \in Nat
    BY <2>1
  <2> QED
    BY <2>2
<1>4. group[x] = Group(x) /\ G \in SUBSET Rows
  BY DEF Shared, TypeInv
<1>5. y \in G
  <2> HIDE DEF G
  <2> QED
    BY <1>2, <1>3, <1>4, GroupIs
<1> QED
  BY <1>5

-----------------------------------------------------------------------------
(* What is dropped, and what is kept.                                      *)

(* An actor in the squeeze has not yet named its duplicates.               *)
Dropped(a) == IF phase = "squeeze" /\ a \in pending THEN DOMAIN parent[a] ELSE dups[a]
Drops(a, u) == u \in Dropped(a)

(* At most one row of a group has a uid that its owner does not drop.      *)
FixInv ==
    phase \in {"squeeze", "filter"} => \A x, y \in Rows :
        y \in group[x] /\ ~Drops(Owner(uid[x]), uid[x]) /\ ~Drops(Owner(uid[y]), uid[y]) => x = y

LEMMA UidsKnown ==
    ASSUME Shared, phase # "map", NEW x \in Rows
    PROVE  uid[x] \in Uids /\ uid[x] \in Nat /\ origin[uid[x]] = x /\ Owner(uid[x]) \in Actors
<1>1. uid[x] \in Uids /\ origin[uid[x]] = x /\ Uids \in SUBSET Nat
  BY DEF Shared, TypeInv, TaskInv, Rows
<1>2. uid[x] \in Nat
  BY <1>1
<1> QED
  BY <1>1, <1>2, OwnerType

LEMMA EndSteps ==
    ASSUME Shared, [Next]_vars, phase' \in {"squeeze", "filter"}
    PROVE  \/ phase = "balance" /\ ~again /\ pending = {} /\ NextRound
           \/ /\ phase \in {"squeeze", "filter"}
              /\ \/ UNCHANGED <<phase, pending, parent, dups>>
                 \/ \E a \in Actors : Squeeze(a)
                 \/ phase = "squeeze" /\ NextRound
<1>1. TypeInv
  BY DEF Shared
<1>2. CASE UNCHANGED vars
  BY <1>2 DEF vars
<1>3. ASSUME NEW t \in Tasks
      PROVE  /\ Claim(t) \/ Rerun(t) => phase' = "map"
             /\ FinishTask(t) => phase' = phase /\ task[t] = "calling"
             /\ Filter(t) => UNCHANGED <<phase, pending, parent, dups>>
             /\ \A a \in Actors : AddPairs(t, a) => phase' = "map"
  <2>1. Claim(t) => phase' = "map"
    BY DEF Claim, driver
  <2>2. Rerun(t) => phase' = "map"
    BY DEF Rerun, driver
  <2>3. FinishTask(t) => phase' = phase /\ task[t] = "calling"
    BY DEF FinishTask, driver
  <2>4. Filter(t) => UNCHANGED <<phase, pending, parent, dups>>
    BY DEF Filter, driver, forest
  <2>5. \A a \in Actors : AddPairs(t, a) => phase' = "map"
    BY DEF AddPairs, driver
  <2> QED
    BY <2>1, <2>2, <2>3, <2>4, <2>5
<1>4. \A t \in Tasks : FinishTask(t) => phase' = "map"
  BY <1>1, <1>3 DEF Shared, TaskInv, TypeInv
<1>5. ASSUME NEW a \in Actors, UnionNext(a) PROVE phase' \in {"map", "redistribute", "balance"}
  BY <1>1, <1>5, UnionNextIs, UnitesFlat
<1>6. ASSUME NEW a \in Actors
      PROVE  /\ Redistribute(a) => phase' = "redistribute"
             /\ Balance(a) => phase' = "balance"
             /\ Communicate(a) => phase' = "communicate"
             /\ Squeeze(a) => phase = "squeeze"
             /\ \A b \in Actors : Fetch(a, b) => phase' = "balance"
  BY <1>1, RedistributeIs, BalanceIs, CommunicateIs, SqueezeIs, FetchIs
<1>7. StartMerge => phase' = "redistribute"
  BY <1>1, StartMergeIs
<1>8. CASE NextRound
  BY <1>1, <1>8, NextRoundIs
<1>9. ASSUME NEW t \in Tasks, Filter(t) PROVE phase = "filter"
  BY <1>9 DEF Filter
<1> QED
  BY <1>2, <1>3, <1>4, <1>5, <1>6, <1>7, <1>8, <1>9 DEF Next

LEMMA FixNext ==
    ASSUME Shared, HeadInv, RootInv, OwnInv, AnswerInv, AgainInv, JoinedInv, FixInv, [Next]_vars
    PROVE  FixInv'
<1> SUFFICES ASSUME phase' \in {"squeeze", "filter"},
                    NEW x \in Rows, NEW y \in Rows, y \in group'[x],
                    NEW u, NEW v, u = uid'[x], v = uid'[y],
                    ~Drops(Owner(u), u)', ~Drops(Owner(v), v)'
             PROVE  x = y
  BY DEF FixInv, Rows, Tasks, Owner, Drops, Dropped
<1>1. TypeInv
  BY DEF Shared
<1>2. phase # "map" /\ SameRows
  <2>1. phase # "map"
    BY EndSteps
  <2>2. ~ \E t \in Tasks : Claim(t)
    BY <2>1 DEF Claim
  <2> QED
    BY <2>1, <2>2, RowsStay
<1>3. y \in group[x] /\ u = uid[x] /\ v = uid[y]
  BY <1>2 DEF SameRows
<1>4. /\ u \in Nat /\ origin[u] = x /\ Owner(u) \in Actors
      /\ v \in Nat /\ origin[v] = y /\ Owner(v) \in Actors
  BY <1>2, <1>3, UidsKnown
<1>5. CASE phase = "balance" /\ ~again /\ pending = {} /\ NextRound
  <2>1. phase' = "squeeze" /\ pending' = Actors /\ parent' = parent
    BY <1>1, <1>5, NextRoundIs
  <2>2. \A a \in Actors : \A w : Drops(a, w)' <=> w \in DOMAIN parent[a]
    BY <2>1 DEF Drops, Dropped
  <2>3. u \notin DOMAIN parent[Owner(u)] /\ v \notin DOMAIN parent[Owner(v)]
    <3>1. \A a, w : a = Owner(w) => (Drops(Owner(w), w)' <=> Drops(a, w)')
      BY DEF Owner
    <3> QED
      BY <1>4, <2>2, <3>1
  <2>4. RootOf(u) = u /\ RootOf(v) = v
    BY <2>3 DEF RootOf, Root, Find
  <2>5. RootOf(u) = RootOf(v)
    BY <1>3, <1>5, OneRootPerGroup
  <2> QED
    BY <1>4, <2>4, <2>5
<1>6. ASSUME phase \in {"squeeze", "filter"},
             \A a \in Actors : \A w : Owner(w) = a => (Drops(a, w)' <=> Drops(a, w))
      PROVE  x = y
  <2>1. ~Drops(Owner(u), u) /\ ~Drops(Owner(v), v)
    <3>1. \A a, w : a = Owner(w) => (Drops(Owner(w), w)' <=> Drops(a, w)')
      BY DEF Owner
    <3> QED
      BY <1>4, <1>6, <3>1
  <2> QED
    BY <1>3, <1>6, <2>1 DEF FixInv
<1>7. CASE phase \in {"squeeze", "filter"} /\ UNCHANGED <<phase, pending, parent, dups>>
  <2>1. \A a \in Actors : \A w : Drops(a, w)' <=> Drops(a, w)
    BY <1>7 DEF Drops, Dropped
  <2> QED
    BY <1>6, <1>7, <2>1
<1>8. CASE phase = "squeeze" /\ NextRound
  <2>1. pending = {} /\ phase' = "filter" /\ parent' = parent /\ dups' = dups
    BY <1>1, <1>8, NextRoundIs
  <2>2. \A a \in Actors : \A w : Drops(a, w)' <=> Drops(a, w)
    BY <1>8, <2>1 DEF Drops, Dropped
  <2> QED
    BY <1>6, <1>8, <2>2
<1>9. ASSUME NEW d \in Actors, Squeeze(d) PROVE x = y
  <2>1. /\ phase = "squeeze" /\ phase' = "squeeze" /\ d \in pending /\ pending' = pending \ {d}
        /\ dups'[d] = Own(d)
        /\ \A b \in Actors \ {d} : parent'[b] = parent[b] /\ dups'[b] = dups[b]
    BY <1>1, <1>9, SqueezeIs
  <2>2. \A w : Owner(w) = d => (Drops(d, w)' <=> Drops(d, w))
    <3>1. \A w : Drops(d, w)' <=> w \in Own(d)
      BY <2>1 DEF Drops, Dropped
    <3>2. \A w : Drops(d, w) <=> w \in DOMAIN parent[d]
      BY <2>1 DEF Drops, Dropped
    <3> QED
      BY <3>1, <3>2 DEF Own
  <2>3. \A b \in Actors \ {d} : \A w : Drops(b, w)' <=> Drops(b, w)
    BY <2>1 DEF Drops, Dropped
  <2> QED
    BY <1>6, <2>1, <2>2, <2>3
<1> QED
  BY <1>5, <1>7, <1>8, <1>9, EndSteps

(* The rows that are kept are those of the filtered blocks whose uids      *)
(* their owners do not drop.                                               *)
KeptInv ==
    /\ phase # "filter" => kept = {} /\ filtered = {}
    /\ kept = {r \in Rows : /\ uid[r] \notin dups[Owner(uid[r])]
                            /\ \E t \in filtered : r \in ToSet(RowsOf[t])}

LEMMA KeptNext ==
    ASSUME Shared, KeptInv, [Next]_vars
    PROVE  KeptInv'
<1> DEFINE Out(r) == uid[r] \notin dups[Owner(uid[r])]
<1>1. TypeInv
  BY DEF Shared
<1>2. UNCHANGED <<kept, filtered>> \/ \E t \in Tasks : Filter(t)
  <2>1. ASSUME NEW t \in Tasks
        PROVE  /\ Claim(t) => UNCHANGED result
               /\ FinishTask(t) => UNCHANGED result
               /\ Rerun(t) => UNCHANGED result
               /\ \A a \in Actors : AddPairs(t, a) => UNCHANGED result
    <3>1. Claim(t) => UNCHANGED result
      BY DEF Claim
    <3>2. FinishTask(t) => UNCHANGED result
      BY DEF FinishTask
    <3>3. Rerun(t) => UNCHANGED result
      BY DEF Rerun
    <3>4. \A a \in Actors : AddPairs(t, a) => UNCHANGED result
      BY DEF AddPairs
    <3> QED
      BY <3>1, <3>2, <3>3, <3>4
  <2>2. ASSUME NEW a \in Actors
        PROVE  /\ UnionNext(a) => UNCHANGED result
               /\ Redistribute(a) => UNCHANGED result
               /\ Balance(a) => UNCHANGED result
               /\ Communicate(a) => UNCHANGED result
               /\ Squeeze(a) => UNCHANGED <<kept, filtered>>
               /\ \A b \in Actors : Fetch(a, b) => UNCHANGED result
    <3>1. UnionNext(a) => UNCHANGED result
      BY DEF UnionNext
    <3>2. Redistribute(a) => UNCHANGED result
      BY DEF Redistribute
    <3>3. Balance(a) => UNCHANGED result
      BY DEF Balance
    <3>4. Communicate(a) => UNCHANGED result
      BY DEF Communicate
    <3>5. Squeeze(a) => UNCHANGED <<kept, filtered>>
      BY DEF Squeeze
    <3>6. \A b \in Actors : Fetch(a, b) => UNCHANGED result
      BY DEF Fetch
    <3> QED
      BY <3>1, <3>2, <3>3, <3>4, <3>5, <3>6
  <2>3. StartMerge => UNCHANGED result
    BY DEF StartMerge
  <2>4. NextRound => UNCHANGED result
    BY DEF NextRound
  <2>5. UNCHANGED vars => UNCHANGED result
    BY DEF vars, result
  <2>6. UNCHANGED result => UNCHANGED <<kept, filtered>>
    BY DEF result
  <2> HIDE DEF Out
  <2>7. Next \/ UNCHANGED vars
    OBVIOUS
  <2> QED
    BY <2>1, <2>2, <2>3, <2>4, <2>5, <2>6, <2>7 DEF Next
<1>3. CASE phase' # "filter"
  <2>1. phase # "filter" /\ ~ \E t \in Tasks : Filter(t)
    <3>1. ASSUME NEW t \in Tasks, Filter(t) PROVE phase' = "filter"
      BY <3>1 DEF Filter, driver
    <3>2. ASSUME phase = "filter" PROVE UNCHANGED phase
      <4>1. ASSUME NEW t \in Tasks
            PROVE  /\ ~Claim(t) /\ ~Rerun(t)
                   /\ FinishTask(t) \/ Filter(t) => UNCHANGED phase
                   /\ \A a \in Actors : ~AddPairs(t, a)
        BY <3>2 DEF Claim, Rerun, FinishTask, Filter, AddPairs, driver
      <4>2. ASSUME NEW a \in Actors
            PROVE  /\ UnionNext(a) => UNCHANGED phase
                   /\ ~Redistribute(a) /\ ~Balance(a) /\ ~Communicate(a) /\ ~Squeeze(a)
                   /\ \A b \in Actors : ~Fetch(a, b)
        BY <1>1, <3>2, UnionNextIs, RedistributeIs, BalanceIs, CommunicateIs, SqueezeIs, FetchIs
      <4>3. ~StartMerge /\ ~NextRound
        BY <1>1, <3>2, StartMergeIs, NextRoundIs
      <4>4. UNCHANGED vars => UNCHANGED phase
        BY DEF vars
      <4> QED
        BY <4>1, <4>2, <4>3, <4>4 DEF Next
    <3> QED
      BY <1>3, <3>1, <3>2
  <2>2. kept' = {} /\ filtered' = {}
    BY <1>2, <2>1 DEF KeptInv
  <2> QED
    BY <1>3, <2>2 DEF KeptInv
<1>4. CASE phase' = "filter"
  <2>1. phase \in {"squeeze", "filter"} /\ dups' = dups
    <3>1. phase \in {"squeeze", "filter"}
      BY <1>1, <1>4, EndSteps, NextRoundIs
    <3>2. \A a \in Actors : ~Squeeze(a)
      BY <1>1, <1>4, SqueezeIs
    <3>3. NextRound => dups' = dups
      BY <1>1, NextRoundIs
    <3>4. phase # "balance"
      BY <3>1
    <3> QED
      BY <1>4, <3>1, <3>2, <3>3, <3>4, EndSteps
  <2>2. uid' = uid
    <3>1. ~ \E t \in Tasks : Claim(t)
      BY <2>1 DEF Claim
    <3> QED
      BY <3>1, RowsStay DEF SameRows
  <2>3. CASE UNCHANGED <<kept, filtered>>
    BY <1>4, <2>1, <2>2, <2>3 DEF KeptInv, Rows, Tasks, Owner
  <2>4. ASSUME NEW t \in Tasks, Filter(t) PROVE KeptInv'
    <3>1. /\ filtered' = filtered \cup {t}
          /\ kept' = kept \cup {r \in ToSet(RowsOf[t]) : Out(r)}
      BY <2>4 DEF Filter
    <3>2. ToSet(RowsOf[t]) \subseteq Rows
      BY TaskRows
    <3>3. kept = {r \in Rows : Out(r) /\ \E s \in filtered : r \in ToSet(RowsOf[s])}
      BY DEF KeptInv
    <3> HIDE DEF Out
    <3>4. kept' = {r \in Rows : Out(r) /\ \E s \in filtered' : r \in ToSet(RowsOf[s])}
      BY <3>1, <3>2, <3>3
    <3> QED
      BY <1>4, <2>1, <2>2, <3>4 DEF KeptInv, Rows, Tasks, Owner, Out
  <2> QED
    BY <1>2, <2>3, <2>4
<1> QED
  BY <1>3, <1>4

-----------------------------------------------------------------------------
(* All of it together.                                                     *)

RoundsInv ==
    /\ HeadInv /\ RootInv /\ OwnInv /\ AgainInv /\ AnswerInv /\ ReplyInv
    /\ SentInv /\ JoinedInv
EndInv == FixInv /\ KeptInv
IndInv == Shared /\ SoundInv /\ DupsInv /\ RoundsInv /\ EndInv

LEMMA IndInit ==
    ASSUME Init
    PROVE  IndInv
<1>1. Shared /\ SoundInv /\ DupsInv
  BY SharedInit, SoundInit
<1>2. /\ phase = "map" /\ kept = {} /\ filtered = {}
      /\ \A t \in Tasks : task[t] = "ready"
  BY DEF Init
<1>3. HeadInv /\ RootInv /\ OwnInv /\ AgainInv
  BY <1>2 DEF HeadInv, RootInv, OwnInv, AgainInv
<1>4. AnswerInv /\ ReplyInv /\ JoinedInv /\ FixInv
  BY <1>2 DEF AnswerInv, ReplyInv, JoinedInv, FixInv
<1>5. SentInv
  BY <1>2 DEF SentInv, Sent
<1>6. KeptInv
  BY <1>2 DEF KeptInv
<1> QED
  BY <1>1, <1>3, <1>4, <1>5, <1>6 DEF IndInv, RoundsInv, EndInv

LEMMA IndNext ==
    ASSUME IndInv, [Next]_vars
    PROVE  IndInv'
<1>1. Shared /\ SoundInv /\ DupsInv /\ RoundsInv /\ EndInv
  BY DEF IndInv
<1>2. /\ HeadInv /\ RootInv /\ OwnInv /\ AgainInv /\ AnswerInv /\ ReplyInv
      /\ SentInv /\ JoinedInv /\ FixInv /\ KeptInv
  BY <1>1 DEF RoundsInv, EndInv
<1>3. Shared'
  BY <1>1, SharedNext
<1>4. SoundInv' /\ DupsInv'
  BY <1>1, <1>2, <1>3, SoundNext, DupsNext
<1>5. HeadInv' /\ RootInv'
  BY <1>1, <1>2, HeadNext, RootNext
<1>6. OwnInv' /\ AgainInv'
  BY <1>1, <1>2, <1>3, OwnNext, AgainNext
<1>7. AnswerInv' /\ ReplyInv'
  BY <1>1, <1>2, AnswerNext, ReplyNext
<1>8. SentInv' /\ JoinedInv'
  BY <1>1, <1>2, SentNext, JoinedNext
<1>9. FixInv'
  BY <1>1, <1>2, FixNext
<1>10. KeptInv'
  BY <1>1, <1>2, KeptNext
<1> QED
  BY <1>3, <1>4, <1>5, <1>6, <1>7, <1>8, <1>9, <1>10 DEF IndInv, RoundsInv, EndInv

(* The rows that are left at the end are those whose owner has no parent   *)
(* for their uid.                                                          *)
LEMMA KeptAtTheEnd ==
    ASSUME Shared, KeptInv, Done, NEW r
    PROVE  r \in kept <=> r \in Rows /\ ~Drops(Owner(uid[r]), uid[r])
<1>1. phase = "filter" /\ filtered = Tasks
  BY DEF Done
<1>2. \A s : s \in kept <=> s \in Rows /\ uid[s] \notin dups[Owner(uid[s])]
  BY <1>1 DEF KeptInv, Rows
<1> QED
  BY <1>1, <1>2 DEF Drops, Dropped

(* Without an attempt that was lost the group's first uid is a row's, and  *)
(* that row is left.                                                       *)
LEMMA FirstIsKept ==
    ASSUME Shared, FirstSurvives, KeptInv, Done, NEW r \in Rows, ~HasGhost(group[r])
    PROVE  \E x \in kept \cap group[r] : uid[x] = FirstOf(group[r])
<1> DEFINE G == group[r]
           S == {u \in Uids : origin[u] \in G}
           F == FirstOf(G)
<1>1. phase = "filter" /\ phase # "map" /\ TypeInv
  BY DEF Done, Shared
<1>2. group[r] = Group(r) /\ G \in SUBSET Rows /\ r \in G
  BY <1>1, GroupIs DEF TypeInv
<1>3. S \in SUBSET Nat /\ S # {}
  <2>1. Uids \in SUBSET Nat
    BY <1>1 DEF TypeInv
  <2>2. uid[r] \in Uids /\ origin[uid[r]] = r
    BY <1>1, UidsKnown
  <2> QED
    BY <1>2, <2>1, <2>2
<1>4. F = MinOf(S)
  BY DEF FirstOf, Uids
<1>5. F \in S
  <2> HIDE DEF S, F
  <2> QED
    BY <1>3, <1>4, MinOfIs
<1>6. F \in Uids /\ origin[F] \in G
  BY <1>5
<1>7. uid[origin[F]] = F
  <2> HIDE DEF F
  <2> QED
    BY <1>6 DEF HasGhost, Uids
<1>8. PICK x \in Rows : x = origin[F] /\ x \in G /\ uid[x] = F
  <2> HIDE DEF F
  <2> QED
    BY <1>2, <1>6, <1>7
<1>9. group[x] = G
  BY <1>1, <1>2, <1>8, GroupsApart DEF TypeInv
<1>10. Owner(F) \in Actors
  BY <1>1, <1>8, UidsKnown
<1>11. F \notin dups[Owner(F)]
  <2> HIDE DEF G, F
  <2>1. FirstOf(group[origin[F]]) = F
    <3>1. F = FirstOf(G)
      BY DEF F
    <3> QED
      BY <1>8, <1>9, <3>1
  <2> QED
    BY <1>1, <1>10, <2>1 DEF FirstSurvives
<1>12. ~Drops(Owner(uid[x]), uid[x])
  <2> HIDE DEF F
  <2> QED
    BY <1>1, <1>8, <1>11 DEF Drops, Dropped
<1>13. x \in kept
  BY <1>8, <1>12, KeptAtTheEnd
<1> QED
  BY <1>8, <1>13

LEMMA OneIsLeft ==
    ASSUME IndInv, FirstSurvives
    PROVE  OnePerGroup
<1> SUFFICES ASSUME Done, NEW r \in Rows
             PROVE  /\ Cardinality(kept \cap group[r]) <= 1
                    /\ ~HasGhost(group[r]) =>
                          {uid[x] : x \in kept \cap group[r]} = {FirstOf(group[r])}
  BY DEF OnePerGroup
<1> DEFINE L == kept \cap group[r]
<1>1. Shared /\ FixInv /\ KeptInv /\ TypeInv /\ phase = "filter"
  BY DEF IndInv, EndInv, Shared, Done
<1>2. ASSUME NEW x \in L, NEW y \in L PROVE x = y
  <2>1. /\ x \in Rows /\ ~Drops(Owner(uid[x]), uid[x])
        /\ y \in Rows /\ ~Drops(Owner(uid[y]), uid[y])
    BY <1>1, <1>2, KeptAtTheEnd
  <2>2. x \in Group(r) /\ y \in Group(r)
    BY <1>1, <1>2 DEF TypeInv
  <2>3. y \in group[x]
    BY <1>1, <2>1, <2>2, GroupsApart DEF TypeInv
  <2> QED
    BY <1>1, <2>1, <2>3 DEF FixInv
<1>3. L = {} \/ \E x : L = {x}
  <2> HIDE DEF L
  <2> QED
    BY <1>2
<1>4. Cardinality(L) <= 1
  <2> HIDE DEF L
  <2>1. CASE L = {}
    BY <2>1, FS_EmptySet
  <2>2. CASE \E x : L = {x}
    <3>1. PICK x : L = {x}
      BY <2>2
    <3>2. Cardinality(L) = 1
      BY <3>1, FS_Singleton
    <3> QED
      BY <3>2
  <2> QED
    BY <1>3, <2>1, <2>2
<1>5. ASSUME ~HasGhost(group[r])
      PROVE  {uid[x] : x \in L} = {FirstOf(group[r])}
  <2>1. PICK x \in L : uid[x] = FirstOf(group[r])
    BY <1>1, <1>5, FirstIsKept
  <2> HIDE DEF L
  <2> QED
    BY <1>2, <2>1
<1> QED
  BY <1>4, <1>5

(* What the actors hold has its types and is where it belongs.             *)
THEOREM SharedHolds == Spec => []Shared
<1>1. IndInv => Shared
  BY DEF IndInv
<1> QED
  BY <1>1, IndInit, IndNext, PTL DEF Spec

(* From the first balancing on, no actor has a parent for the smallest uid *)
(* of a group of connected rows, and a parent is always a uid of the same  *)
(* group: whatever the order of the calls, the answers and the lost tasks, *)
(* the actors never unite two groups and never drop a group's first uid.   *)
THEOREM FirstAlwaysSurvives == Spec => []FirstSurvives
<1>1. IndInv => FirstSurvives
  BY FirstStays DEF IndInv
<1> QED
  BY <1>1, IndInit, IndNext, PTL DEF Spec

(* When the rounds have ended and the blocks are filtered, at most one row *)
(* of every group of connected rows is left, and, unless an attempt that   *)
(* was lost had sent the group's smallest uid, exactly the row with that   *)
(* uid: the fixed point the driver stops at is that of the whole data set. *)
THEOREM OneRowPerGroup == Spec => []OnePerGroup
<1>1. IndInv => OnePerGroup
  BY FirstStays, OneIsLeft DEF IndInv
<1> QED
  BY <1>1, IndInit, IndNext, PTL DEF Spec
=============================================================================
