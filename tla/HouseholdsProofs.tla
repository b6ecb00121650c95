-------------------------- MODULE HouseholdsProofs --------------------------
(***************************************************************************)
(* Proofs about Households: the buckets are the connected components for   *)
(* any population and any links, whatever find does to the trees.          *)
(*                                                                         *)
(* The argument needs no induction along paths.  The inductive invariant   *)
(* says that there is a function rep that is constant along parents, fixes *)
(* the roots and equates exactly what the merged links join.  Compression  *)
(* leaves rep as it is; a union composes it with the map of one root to    *)
(* the other.                                                              *)
(***************************************************************************)
EXTENDS Households, FiniteSetTheorems, TLAPS

\* What a find in progress has established, rep being the roots.
FindInv(rep) ==
    /\ Active => rep[root] = rep[start] /\ rep[cursor] = rep[start]
    /\ pc \in {"compress", "returned"} => parent[root] = root

\* Who called find and what for.
CallInv(rep) ==
    /\ Active => call.by \in {"first", "second", "group"}
    /\ Active /\ call.by = "group" => todo = {} /\ call.pair = {}
    /\ Active /\ call.by \in {"first", "second"} =>
          /\ call.pair \in Links \ todo /\ call.other \in Apps
          /\ \A a \in Apps : bucket[a] = None
    /\ Active /\ call.by = "first" => call.pair = {start, call.other}
    /\ Active /\ call.by = "second" =>
          /\ start = call.other
          /\ rootA \in Apps /\ parent[rootA] = rootA
          /\ \E a \in Apps : call.pair = {a, call.other} /\ rep[a] = rootA

\* rep names the root of every application.
Roots(rep) ==
    /\ rep \in [Apps -> Apps]
    /\ \A a \in Apps : rep[parent[a]] = rep[a]
    /\ \A a \in Apps : parent[rep[a]] = rep[a]
    /\ \A a \in Apps : parent[a] = a => rep[a] = a
    /\ \A a \in Apps : size[a] <= size[rep[a]]
    /\ \A r \in Apps : parent[r] = r => size[r] = Cardinality({a \in Apps : rep[a] = r})

\* rep equates what the merged links join, and nothing else.
Joins(rep) ==
    /\ \A a, b \in Apps : {a, b} \in Merged => rep[a] = rep[b]
    /\ \A a, b \in Apps : rep[a] = rep[b] =>
          \A S \in SUBSET Apps : Closed(S, Merged) => (a \in S <=> b \in S)

Buckets(rep) ==
    /\ \A a \in Apps : bucket[a] # None => bucket[a] = rep[a] /\ todo = {}
    /\ pc = "done" => todo = {} /\ \A a \in Apps : bucket[a] # None

Forest(rep) == Roots(rep) /\ Joins(rep) /\ FindInv(rep) /\ CallInv(rep) /\ Buckets(rep)

IInv == TypeOK /\ TreesShallow /\ \E rep \in [Apps -> Apps] : Forest(rep)

-----------------------------------------------------------------------------

LEMMA InitHolds == Init => IInv
<1> SUFFICES ASSUME Init PROVE IInv
    OBVIOUS
<1> DEFINE rep == [a \in Apps |-> a]
<1> USE HouseholdAssumption
<1>1. TypeOK /\ TreesShallow
    BY DEF Init, TypeOK, TreesShallow, FirstSize, Links
<1>2. Merged = {}
    BY DEF Init, Merged
<1>3. \A r \in Apps : {a \in Apps : rep[a] = r} = {r}
    OBVIOUS
<1>4. Roots(rep)
  <2>1. \A r \in Apps : Cardinality({a \in Apps : rep[a] = r}) = 1
    <3> TAKE r \in Apps
    <3>1. {a \in Apps : rep[a] = r} = {r}
        BY <1>3
    <3>2. Cardinality({r}) = 1
        BY FS_Singleton
    <3> HIDE DEF rep
    <3> QED
        BY <3>1, <3>2
  <2> QED
      BY <2>1 DEF Init, Roots, FirstSize
<1>5. Joins(rep)
    BY <1>2 DEF Joins
<1>6. FindInv(rep) /\ CallInv(rep) /\ Buckets(rep)
    BY DEF Init, FindInv, CallInv, Buckets, Active
<1>7. rep \in [Apps -> Apps]
    OBVIOUS
<1> HIDE DEF rep
<1> QED
    BY <1>1, <1>4, <1>5, <1>6, <1>7 DEF IInv, Forest

\* What the steps that leave the trees and the merged links alone need not redo.
LEMMA TreesKept ==
    ASSUME NEW rep, Roots(rep), Joins(rep), UNCHANGED trees, Merged' = Merged
    PROVE  Roots(rep)' /\ Joins(rep)'
BY DEF Roots, Joins, trees, Closed

LEMMA TypeStep == IInv /\ [Next]_vars => TypeOK'
<1> SUFFICES ASSUME IInv, [Next]_vars PROVE TypeOK'
    OBVIOUS
<1> USE HouseholdAssumption DEF IInv, TypeOK, Links
<1> PICK rep \in [Apps -> Apps] : Forest(rep)
    BY DEF IInv
<1>1. CASE NextPair
    BY <1>1 DEF NextPair, Find, trees
<1>2. CASE NextApplication
    BY <1>2 DEF NextApplication, Find, trees
<1>3. CASE Return
    BY <1>3 DEF Return, trees, find
<1>4. CASE Walk
    BY <1>4 DEF Walk, trees
<1>5. CASE WalkEnds \/ CompressEnds
    BY <1>5 DEF WalkEnds, CompressEnds, trees, find
<1>6. CASE Compress
    BY <1>6 DEF Compress
<1>7. CASE SecondRoot
    BY <1>7 DEF SecondRoot, Find, trees, Forest, CallInv, Active
<1>8. CASE Union
  <2>1. rootA \in Apps /\ root \in Apps
      BY <1>8 DEF Union, Forest, CallInv, Active
  <2> QED
      BY <1>8, <2>1 DEF Union, Hang, trees, find
<1>9. CASE PutInBucket
    BY <1>9 DEF PutInBucket, trees, find
<1>10. CASE UNCHANGED vars
    BY <1>10 DEF vars, trees, find
<1> QED
    BY <1>1, <1>2, <1>3, <1>4, <1>5, <1>6, <1>7, <1>8, <1>9, <1>10 DEF Next

\* The steps that neither merge nor hang anything carry rep over.
LEMMA MergedKept ==
    ASSUME IInv, NextPair \/ NextApplication \/ Return \/ Walk \/ WalkEnds \/ Compress
                 \/ CompressEnds \/ SecondRoot \/ PutInBucket \/ UNCHANGED vars
    PROVE  Merged' = Merged
<1> USE HouseholdAssumption DEF Merged
<1> PICK rep \in [Apps -> Apps] : Forest(rep)
    BY DEF IInv
<1>0. {} \notin Links /\ (rejected' = rejected => Links' = Links)
    BY DEF Links
<1>1. CASE NextPair
  <2>0. PICK a, b \in Apps : {a, b} \in todo /\ todo' = todo \ {{a, b}} /\ Find(a, "first", {a, b}, b)
      BY <1>1 DEF NextPair
  <2> DEFINE pair == {a, b}
  <2>1. pair \in todo /\ todo' = todo \ {pair} /\ call'.pair = pair /\ pc' = "walk"
      BY <2>0 DEF Find
  <2>2. todo \subseteq Links /\ pc = "next" /\ rejected' = rejected
      BY <1>1 DEF NextPair, IInv, TypeOK
  <2>3. Links' = Links /\ Merged = Links \ todo
      BY <1>0, <2>2
  <2>4. Merged' = Links' \ ((todo \ {pair}) \cup {pair})
      BY <2>1
  <2> HIDE DEF Merged, pair
  <2> QED
      BY <2>1, <2>2, <2>3, <2>4
<1>2. CASE NextApplication
    BY <1>0, <1>2 DEF NextApplication, Find
<1>3. CASE Return
    BY <1>0, <1>3 DEF Return
<1>4. CASE Walk \/ WalkEnds \/ Compress \/ CompressEnds
    BY <1>0, <1>4 DEF Walk, WalkEnds, Compress, CompressEnds, find
<1>5. CASE SecondRoot
    BY <1>0, <1>5 DEF SecondRoot, Find
<1>6. CASE PutInBucket
    BY <1>0, <1>6 DEF PutInBucket, find, Forest, CallInv, Active
<1>7. CASE UNCHANGED vars
    BY <1>0, <1>7 DEF vars, find
<1> QED
    BY <1>1, <1>2, <1>3, <1>4, <1>5, <1>6, <1>7

LEMMA QuietStep ==
    ASSUME IInv, NEW rep \in [Apps -> Apps], Forest(rep),
           NextPair \/ NextApplication \/ Return \/ Walk \/ WalkEnds
           \/ CompressEnds \/ SecondRoot \/ PutInBucket \/ UNCHANGED vars
    PROVE  Forest(rep)' /\ TreesShallow'
<1>0. Roots(rep)' /\ Joins(rep)' /\ TreesShallow'
  <2>1. UNCHANGED trees
      BY DEF NextPair, NextApplication, Return, Walk, WalkEnds, CompressEnds,
             SecondRoot, PutInBucket, vars
  <2> QED
      BY <2>1, MergedKept, TreesKept DEF Forest, IInv, TreesShallow, trees
<1> USE DEF FindInv, CallInv, Buckets, Active, Forest, trees, find
<1>a. TypeOK /\ Roots(rep) /\ FindInv(rep) /\ CallInv(rep) /\ Buckets(rep)
    BY DEF IInv
<1>b. SUFFICES FindInv(rep)' /\ CallInv(rep)' /\ Buckets(rep)'
    BY <1>0
<1> USE DEF Roots, TypeOK
<1>1. CASE NextPair
    BY <1>1, <1>a DEF NextPair, Find, Links
<1>2. CASE NextApplication
    BY <1>2, <1>a DEF NextApplication, Find
<1>3. CASE Return
    BY <1>3, <1>a DEF Return
<1>4. CASE Walk
    BY <1>4, <1>a DEF Walk, Links
<1>5. CASE WalkEnds
    BY <1>5, <1>a DEF WalkEnds, Links
<1>6. CASE CompressEnds
    BY <1>6, <1>a DEF CompressEnds, Links
<1>7. CASE SecondRoot
  <2>1. rep[root] = root /\ call.pair = {start, call.other}
      BY <1>7, <1>a DEF SecondRoot
  <2> QED
      BY <1>7, <1>a, <2>1 DEF SecondRoot, Find, Links
<1>8. CASE PutInBucket
    BY <1>8, <1>a DEF PutInBucket, Links
<1>9. CASE UNCHANGED vars
    BY <1>9, <1>a DEF vars, Links
<1> QED
    BY <1>1, <1>2, <1>3, <1>4, <1>5, <1>6, <1>7, <1>8, <1>9

\* Hanging a node of the walked chain below its root moves no root.
LEMMA CompressStep ==
    ASSUME IInv, NEW rep \in [Apps -> Apps], Forest(rep), Compress
    PROVE  Forest(rep)' /\ TreesShallow'
<1> USE DEF Compress
<1>a. TypeOK /\ TreesShallow /\ Roots(rep) /\ Joins(rep) /\ FindInv(rep) /\ CallInv(rep) /\ Buckets(rep)
    BY DEF IInv, Forest
<1>1. /\ cursor \in Apps /\ root \in Apps /\ parent[cursor] \in Apps
      /\ parent[root] = root /\ rep[root] = root /\ rep[cursor] = root
    BY <1>a DEF TypeOK, FindInv, Roots, Active
<1>2. parent[cursor] # cursor
    BY <1>1, <1>a DEF Roots
<1>3. parent' \in [Apps -> Apps] /\ \A a \in Apps : parent'[a] = IF a = cursor THEN root ELSE parent[a]
    BY <1>1, <1>a DEF TypeOK
<1>4. Roots(rep)'
    BY <1>1, <1>2, <1>3, <1>a DEF Roots
<1>5. Joins(rep)'
    BY <1>a, MergedKept DEF Joins, Closed
<1>6. FindInv(rep)' /\ CallInv(rep)' /\ Buckets(rep)'
    BY <1>1, <1>2, <1>3, <1>a DEF FindInv, CallInv, Buckets, Active, Roots, Links, TypeOK
<1>7. TreesShallow'
  <2>1. 2 * size[cursor] <= size[root]
    <3>1. 2 * size[cursor] <= size[parent[cursor]]
        BY <1>1, <1>2, <1>a DEF TreesShallow
    <3>2. size[parent[cursor]] <= size[root]
        BY <1>1, <1>a DEF Roots
    <3> QED
        BY <3>1, <3>2, <1>1, <1>a DEF TypeOK
  <2> QED
      BY <1>1, <1>3, <2>1, <1>a DEF TreesShallow
<1> QED
    BY <1>4, <1>5, <1>6, <1>7 DEF Forest

\* A set closed under the links so far takes every application of a tree or none.
LEMMA ClosedTakesTrees ==
    ASSUME NEW rep, Joins(rep), NEW S \in SUBSET Apps, Closed(S, Merged),
           NEW a \in Apps, NEW b \in Apps, rep[a] = rep[b]
    PROVE  a \in S <=> b \in S
BY DEF Joins

\* A union: the roots of the two applications were equal, or become so.
LEMMA UnionStep ==
    ASSUME IInv, NEW rep \in [Apps -> Apps], Forest(rep), Union
    PROVE  TreesShallow' /\ \E rep2 \in [Apps -> Apps] : Forest(rep2)'
<1>a. TypeOK /\ TreesShallow /\ Roots(rep) /\ Joins(rep) /\ FindInv(rep) /\ CallInv(rep) /\ Buckets(rep)
    BY DEF IInv, Forest
<1>b. /\ pc = "returned" /\ call.by = "second" /\ pc' = "next"
      /\ UNCHANGED <<rejected, todo, bucket, call, start, root, cursor, rootA>>
    BY DEF Union, find
<1>1. /\ root \in Apps /\ parent[root] = root /\ rep[root] = root
      /\ rootA \in Apps /\ parent[rootA] = rootA /\ rep[rootA] = rootA
      /\ start \in Apps /\ start = call.other /\ rep[start] = root
      /\ \A a \in Apps : bucket[a] = None
    BY <1>a, <1>b DEF TypeOK, FindInv, CallInv, Roots, Active
<1>2. PICK x \in Apps : call.pair = {x, start} /\ rep[x] = rootA
    BY <1>a, <1>b, <1>1 DEF CallInv, Active
<1>3. call.pair \in Links \ todo
    BY <1>a, <1>b DEF CallInv, Active
<1>4. Merged' = Merged \cup {{x, start}}
  <2>1. Merged = Links \ (todo \cup {call.pair})
      BY <1>b DEF Merged
  <2>2. Merged' = Links \ todo
      BY <1>b DEF Merged, Links
  <2> QED
      BY <1>2, <1>3, <2>1, <2>2
<1>5. \A S \in SUBSET Apps : Closed(S, Merged') => Closed(S, Merged) /\ (x \in S <=> start \in S)
    BY <1>1, <1>2, <1>4 DEF Closed
<1>6. CASE rootA = root
  <2>1. UNCHANGED trees
      BY <1>6, <1>b DEF Union
  <2>2. Roots(rep)' /\ TreesShallow'
      BY <1>a, <2>1 DEF Roots, TreesShallow, trees
  <2>3. Joins(rep)'
      BY <1>a, <1>1, <1>2, <1>4, <1>5, <1>6 DEF Joins
  <2>4. FindInv(rep)' /\ CallInv(rep)' /\ Buckets(rep)'
      BY <1>b, <1>1 DEF FindInv, CallInv, Buckets, Active
  <2> QED
      BY <2>2, <2>3, <2>4 DEF Forest
<1>7. CASE rootA # root
  <2> DEFINE big == Hang(rootA, root)[1]
             small == Hang(rootA, root)[2]
  <2>1. /\ big \in Apps /\ small \in Apps /\ big # small
        /\ {big, small} = {rootA, root} /\ size[small] <= size[big]
        /\ parent[big] = big /\ parent[small] = small
        /\ rep[big] = big /\ rep[small] = small
      BY <1>1, <1>7, <1>a DEF Hang, TypeOK
  <2>2. /\ parent' \in [Apps -> Apps]
        /\ \A a \in Apps : parent'[a] = IF a = small THEN big ELSE parent[a]
        /\ size' \in [Apps -> Nat \ {0}]
        /\ \A a \in Apps : size'[a] = IF a = big THEN size[big] + size[small] ELSE size[a]
    <3>1. size[rootA] + size[root] = size[big] + size[small]
        BY <1>1, <1>a DEF Hang, TypeOK
    <3> HIDE DEF big, small
    <3>2. /\ parent' = [parent EXCEPT ![small] = big]
          /\ size' = [size EXCEPT ![big] = size[big] + size[small]]
        BY <1>7, <3>1 DEF Union, big, small
    <3> QED
        BY <2>1, <3>2, <1>a DEF TypeOK
  <2> HIDE DEF big, small
  <2>3. PICK rep2 \in [Apps -> Apps] : \A a \in Apps : rep2[a] = IF rep[a] = small THEN big ELSE rep[a]
    <3> DEFINE f == [a \in Apps |-> IF rep[a] = small THEN big ELSE rep[a]]
    <3>1. f \in [Apps -> Apps]
        BY <2>1
    <3>2. \A a \in Apps : f[a] = IF rep[a] = small THEN big ELSE rep[a]
        OBVIOUS
    <3> HIDE DEF f
    <3> QED
        BY <3>1, <3>2
  <2>4. Roots(rep2)'
    <3>1. \A a \in Apps : rep2[parent'[a]] = rep2[a]
        BY <1>a, <2>1, <2>2, <2>3 DEF Roots, TypeOK
    <3>2. \A a \in Apps : parent'[rep2[a]] = rep2[a]
        BY <1>a, <2>1, <2>2, <2>3 DEF Roots, TypeOK
    <3>3. \A a \in Apps : parent'[a] = a => rep2[a] = a
        BY <1>a, <2>1, <2>2, <2>3 DEF Roots, TypeOK
    <3>4. \A a \in Apps : size'[a] <= size'[rep2[a]]
      <4> TAKE a \in Apps
      <4>1. size[a] <= size[rep[a]] /\ rep[a] \in Apps
          BY <1>a DEF Roots
      <4> QED
          BY <4>1, <1>a, <2>1, <2>2, <2>3 DEF TypeOK
    <3>5. \A r \in Apps : parent'[r] = r => size'[r] = Cardinality({a \in Apps : rep2[a] = r})
      <4> SUFFICES ASSUME NEW r \in Apps, parent'[r] = r
                   PROVE  size'[r] = Cardinality({a \in Apps : rep2[a] = r})
          OBVIOUS
      <4> DEFINE Tree(s) == {a \in Apps : rep[a] = s}
      <4>1. r # small /\ parent[r] = r
          BY <2>1, <2>2
      <4>2. \A s \in Apps : IsFiniteSet(Tree(s))
          BY HouseholdAssumption, FS_Subset
      <4>3. CASE r = big
        <5>1. {a \in Apps : rep2[a] = r} = Tree(big) \cup Tree(small)
            BY <2>1, <2>3, <4>3
        <5>2. Tree(big) \cap Tree(small) = {}
            BY <2>1
        <5>3. Cardinality(Tree(big) \cup Tree(small)) = Cardinality(Tree(big)) + Cardinality(Tree(small)) - Cardinality(Tree(big) \cap Tree(small))
            BY <2>1, <4>2, FS_Union
        <5>4. Cardinality(Tree(big) \cap Tree(small)) = 0
            BY <5>2, FS_EmptySet
        <5>5. size[big] = Cardinality(Tree(big)) /\ size[small] = Cardinality(Tree(small))
            BY <1>a, <2>1 DEF Roots
        <5> HIDE DEF Tree
        <5>6. size[big] \in Nat /\ size[small] \in Nat /\ size'[big] = size[big] + size[small]
            BY <1>a, <2>1, <2>2 DEF TypeOK
        <5>7. Cardinality(Tree(big) \cup Tree(small)) = size[big] + size[small]
            BY <5>3, <5>4, <5>5, <5>6
        <5> QED
            BY <4>3, <5>1, <5>6, <5>7
      <4>4. CASE r # big
        <5>1. {a \in Apps : rep2[a] = r} = Tree(r)
            BY <2>1, <2>3, <4>1, <4>4
        <5>2. size'[r] = size[r]
            BY <2>2, <4>4
        <5> QED
            BY <4>1, <5>1, <5>2, <1>a DEF Roots
      <4> QED
          BY <4>3, <4>4
    <3> QED
        BY <2>3, <3>1, <3>2, <3>3, <3>4, <3>5 DEF Roots
  <2>5. Joins(rep2)'
    <3>1. \A a, b \in Apps : {a, b} \in Merged' => rep2[a] = rep2[b]
      <4> TAKE a, b \in Apps
      <4> HAVE {a, b} \in Merged'
      <4>1. CASE {a, b} \in Merged
          BY <4>1, <1>a, <2>3 DEF Joins
      <4>2. CASE {a, b} = {x, start}
        <5>1. rep2[x] = big /\ rep2[start] = big
            BY <1>1, <1>2, <2>1, <2>3
        <5>2. (a = x /\ b = start) \/ (a = start /\ b = x)
            BY <4>2
        <5> QED
            BY <5>1, <5>2
      <4> QED
          BY <4>1, <4>2, <1>4
    <3>2. ASSUME NEW a \in Apps, NEW b \in Apps, rep2[a] = rep2[b],
                 NEW S \in SUBSET Apps, Closed(S, Merged')
          PROVE  a \in S <=> b \in S
      <4>1. Closed(S, Merged) /\ (x \in S <=> start \in S)
          BY <1>5, <3>2
      <4>2. \A c, d \in Apps : rep[c] = rep[d] => (c \in S <=> d \in S)
          BY <4>1, <1>a DEF Joins
      <4>3. \A c \in Apps : rep[c] \in {rootA, root} => (c \in S <=> x \in S)
          BY <4>1, <4>2, <1>1, <1>2
      <4>4. rep[a] = rep[b] \/ {rep[a], rep[b]} = {big, small}
          BY <2>1, <2>3, <3>2
      <4>5. CASE {rep[a], rep[b]} = {big, small}
        <5>1. rep[a] \in {rootA, root} /\ rep[b] \in {rootA, root}
            BY <4>5, <2>1
        <5> QED
            BY <4>3, <5>1
      <4> QED
          BY <4>2, <4>4, <4>5
    <3> QED
        BY <3>1, <3>2 DEF Joins
  <2>6. FindInv(rep2)' /\ CallInv(rep2)' /\ Buckets(rep2)'
      BY <1>b, <1>1 DEF FindInv, CallInv, Buckets, Active
  <2>7. TreesShallow'
    <3> SUFFICES ASSUME NEW a \in Apps, parent'[a] # a
                 PROVE  2 * size'[a] <= size'[parent'[a]]
        BY DEF TreesShallow
    <3>1. CASE a = small
        BY <3>1, <1>a, <2>1, <2>2 DEF TypeOK
    <3>2. CASE a # small
      <4>1. parent'[a] = parent[a] /\ parent[a] # a /\ a # big
          BY <3>2, <2>1, <2>2
      <4>2. 2 * size[a] <= size[parent[a]] /\ parent[a] \in Apps
          BY <4>1, <1>a DEF TreesShallow, TypeOK
      <4> QED
          BY <4>1, <4>2, <1>a, <2>1, <2>2 DEF TypeOK
    <3> QED
        BY <3>1, <3>2
  <2> QED
      BY <2>3, <2>4, <2>5, <2>6, <2>7 DEF Forest
<1> QED
    BY <1>6, <1>7

LEMMA StepHolds == IInv /\ [Next]_vars => IInv'
<1> SUFFICES ASSUME IInv, [Next]_vars PROVE IInv'
    OBVIOUS
<1>1. TypeOK'
    BY TypeStep
<1>2. PICK rep \in [Apps -> Apps] : Forest(rep)
    BY DEF IInv
<1>3. TreesShallow' /\ \E rep2 \in [Apps -> Apps] : Forest(rep2)'
    BY <1>2, QuietStep, CompressStep, UnionStep DEF Next
<1> QED
    BY <1>1, <1>3 DEF IInv

LEMMA Inductive == Spec => []IInv
BY InitHolds, StepHolds, PTL DEF Spec

\* The component of an application is its tree.
LEMMA ComponentIsTree ==
    ASSUME NEW rep \in [Apps -> Apps], Joins(rep), NEW a \in Apps
    PROVE  Component(a, Merged) = {b \in Apps : rep[b] = rep[a]}
<1> DEFINE T == {b \in Apps : rep[b] = rep[a]}
<1>1. Closed(T, Merged) /\ a \in T
    BY DEF Joins, Closed
<1>2. Component(a, Merged) \subseteq T
    BY <1>1 DEF Component
<1>3. T \subseteq Component(a, Merged)
    BY DEF Component, Joins
<1> QED
    BY <1>2, <1>3

-----------------------------------------------------------------------------

\* Every state of the run of detectComponents is typed, whatever the population and
\* the links (components.ts, UnionFind).
THEOREM TypeCorrect == Spec => []TypeOK
<1>1. IInv => TypeOK
    BY DEF IInv
<1> QED
    BY <1>1, Inductive, PTL

\* The buckets are the connected components of the surviving links, for any number of
\* applications, any links and rejections and any order of the merges
\* (components.ts, detectComponents).
THEOREM GroupsAreHouseholds == Spec => []BucketsAreComponents
<1>1. IInv => BucketsAreComponents
  <2> SUFFICES ASSUME IInv, pc = "done", NEW a \in Apps, NEW b \in Apps
               PROVE  bucket[a] = bucket[b] <=> b \in Component(a, Links)
      BY DEF BucketsAreComponents
  <2>1. PICK rep \in [Apps -> Apps] : Forest(rep)
      BY DEF IInv
  <2>2. bucket[a] = rep[a] /\ bucket[b] = rep[b] /\ todo = {}
      BY <2>1 DEF Forest, Buckets
  <2>3. Merged = Links
      BY <2>2 DEF Merged
  <2> QED
      BY <2>1, <2>2, <2>3, ComponentIsTree DEF Forest
<1> QED
    BY <1>1, Inductive, PTL

\* Union by size: each root counts its tree (components.ts, union).
THEOREM SizesCountTrees == Spec => []SizesCount
<1>1. IInv => SizesCount
  <2> SUFFICES ASSUME IInv, NEW r \in Apps, parent[r] = r
               PROVE  size[r] = Cardinality(Component(r, Merged))
      BY DEF SizesCount
  <2>1. PICK rep \in [Apps -> Apps] : Forest(rep)
      BY DEF IInv
  <2>2. rep[r] = r /\ size[r] = Cardinality({a \in Apps : rep[a] = r})
      BY <2>1 DEF Forest, Roots
  <2> QED
      BY <2>1, <2>2, ComponentIsTree DEF Forest
<1> QED
    BY <1>1, Inductive, PTL

\* Every step towards a root at least doubles the size, so no find walks in a circle
\* and no path is longer than the logarithm of the population (components.ts: "Union
\* by size keeps trees shallow").
THEOREM TreesStayShallow == Spec => []TreesShallow
<1>1. IInv => TreesShallow
    BY DEF IInv
<1> QED
    BY <1>1, Inductive, PTL

-----------------------------------------------------------------------------
(* What is left shrinks.                                                    *)

\* No tree is larger than the population.
LEMMA SizesBounded ==
    ASSUME IInv
    PROVE  /\ Cardinality(Apps) \in Nat
           /\ \A a \in Apps : size[a] \in Nat \ {0} /\ size[a] <= Cardinality(Apps)
<1> USE HouseholdAssumption
<1>1. PICK rep \in [Apps -> Apps] : Forest(rep)
    BY DEF IInv
<1>2. Cardinality(Apps) \in Nat
    BY FS_CardinalityType
<1> SUFFICES ASSUME NEW a \in Apps
             PROVE  size[a] \in Nat \ {0} /\ size[a] <= Cardinality(Apps)
    BY <1>2
<1> DEFINE Tree == {b \in Apps : rep[b] = rep[a]}
<1>3. Cardinality(Tree) \in Nat /\ Cardinality(Tree) <= Cardinality(Apps)
    BY FS_Subset, FS_CardinalityType
<1>4. size[rep[a]] = Cardinality(Tree) /\ size[a] <= size[rep[a]]
    BY <1>1 DEF Forest, Roots
<1> HIDE DEF Tree
<1>5. size[a] \in Nat \ {0} /\ size[rep[a]] \in Nat
    BY <1>1 DEF IInv, TypeOK
<1> QED
    BY <1>2, <1>3, <1>4, <1>5

LEMMA LeftIsCounted ==
    IInv => /\ IsFiniteSet(todo) /\ Cardinality(todo) \in Nat
            /\ IsFiniteSet(Ungrouped) /\ Cardinality(Ungrouped) \in Nat
            /\ FindsLeft \in Nat /\ StepsLeft \in Nat
<1> SUFFICES ASSUME IInv
             PROVE  /\ IsFiniteSet(todo) /\ Cardinality(todo) \in Nat
                    /\ IsFiniteSet(Ungrouped) /\ Cardinality(Ungrouped) \in Nat
                    /\ FindsLeft \in Nat /\ StepsLeft \in Nat
    OBVIOUS
<1> USE HouseholdAssumption
<1>1. IsFiniteSet(todo) /\ Cardinality(todo) \in Nat
  <2>1. todo \subseteq SUBSET Apps
      BY DEF IInv, TypeOK, Links
  <2>2. IsFiniteSet(SUBSET Apps)
      BY FS_SUBSET
  <2> QED
      BY <2>1, <2>2, FS_Subset, FS_CardinalityType
<1>2. IsFiniteSet(Ungrouped) /\ Cardinality(Ungrouped) \in Nat
  <2>1. Ungrouped \subseteq Apps
      BY DEF Ungrouped
  <2> QED
      BY <2>1, FS_Subset, FS_CardinalityType
<1>3. FindsLeft \in Nat
    BY <1>1, <1>2 DEF FindsLeft
<1>4. StepsLeft \in Nat
  <2>1. pc \in {"walk", "compress"} => root \in Apps /\ cursor \in Apps
      BY DEF IInv, TypeOK
  <2>2. pc \in {"next", "walk", "compress", "returned", "done"}
      BY DEF IInv, TypeOK
  <2> QED
      BY <2>1, <2>2, SizesBounded DEF StepsLeft
<1> QED
    BY <1>1, <1>2, <1>3, <1>4

\* The steps that begin a find, end one, or end the function.
LEMMA FindsCountDown ==
    ASSUME IInv, IInv', NextPair \/ NextApplication \/ SecondRoot
    PROVE  FindsLeft' < FindsLeft
<1> USE HouseholdAssumption, LeftIsCounted
<1>0. (IsFiniteSet(todo) /\ Cardinality(todo) \in Nat
       /\ IsFiniteSet(Ungrouped) /\ Cardinality(Ungrouped) \in Nat
       /\ FindsLeft \in Nat /\ StepsLeft \in Nat)'
    BY LeftIsCounted, PTL
<1>1. CASE NextPair
  <2>1. PICK a, b \in Apps : {a, b} \in todo /\ todo' = todo \ {{a, b}} /\ Find(a, "first", {a, b}, b)
      BY <1>1 DEF NextPair
  <2>2. Cardinality(todo') = Cardinality(todo) - 1
      BY <2>1, FS_RemoveElement
  <2>3. Ungrouped' = Ungrouped
      BY <1>1, <2>1 DEF NextPair, Find, Ungrouped, Active
  <2>4. ~Active /\ Active' /\ call'.by = "first"
      BY <1>1, <2>1 DEF NextPair, Find, Active
  <2> QED
      BY <2>2, <2>3, <2>4 DEF FindsLeft
<1>2. CASE NextApplication
  <2>1. PICK a \in Apps : bucket[a] = None /\ Find(a, "group", {}, None)
      BY <1>2 DEF NextApplication
  <2>2. Ungrouped' = Ungrouped \ {a} /\ a \in Ungrouped
      BY <1>2, <2>1 DEF NextApplication, Find, Ungrouped, Active
  <2>3. Cardinality(Ungrouped') = Cardinality(Ungrouped) - 1
      BY <2>2, FS_RemoveElement
  <2>4. todo' = todo /\ ~Active /\ call'.by = "group"
      BY <1>2, <2>1 DEF NextApplication, Find, Active
  <2> QED
      BY <2>3, <2>4 DEF FindsLeft
<1>3. CASE SecondRoot
  <2>1. Ungrouped' = Ungrouped /\ todo' = todo
      BY <1>3 DEF SecondRoot, Find, Ungrouped, Active
  <2>2. Active /\ call.by = "first" /\ call'.by = "second"
      BY <1>3 DEF SecondRoot, Find, Active
  <2> QED
      BY <2>1, <2>2 DEF FindsLeft
<1> QED
    BY <1>1, <1>2, <1>3

LEMMA StepsAt ==
    /\ pc = "walk" => StepsLeft = (Cardinality(Apps) - size[root]) + Cardinality(Apps) + 4
    /\ pc = "compress" => StepsLeft = (Cardinality(Apps) - size[cursor]) + 3
    /\ pc = "returned" => StepsLeft = 2
    /\ pc = "next" => StepsLeft = 1
    /\ pc = "done" => StepsLeft = 0
BY DEF StepsLeft

\* The steps within a find, and those that end it or the function.
LEMMA StepsCountDown ==
    ASSUME IInv, IInv', Walk \/ WalkEnds \/ Compress \/ CompressEnds \/ Union
                        \/ PutInBucket \/ Return
    PROVE  FindsLeft' = FindsLeft /\ StepsLeft' < StepsLeft
<1> USE HouseholdAssumption
<1> DEFINE n == Cardinality(Apps)
<1>0. n \in Nat /\ \A a \in Apps : size[a] \in Nat \ {0} /\ size[a] <= n
    BY SizesBounded
<1>1. /\ pc' = "walk" => StepsLeft' = (n - size'[root']) + n + 4
      /\ pc' = "compress" => StepsLeft' = (n - size'[cursor']) + 3
      /\ pc' = "returned" => StepsLeft' = 2
      /\ pc' = "next" => StepsLeft' = 1
      /\ pc' = "done" => StepsLeft' = 0
    BY DEF StepsLeft
<1>2. PICK rep \in [Apps -> Apps] : Forest(rep)
    BY DEF IInv
<1>3. Active => root \in Apps /\ cursor \in Apps /\ parent[root] \in Apps /\ parent[cursor] \in Apps
    BY DEF IInv, TypeOK, Active
<1>4. \A a \in Apps : parent[a] # a => 2 * size[a] <= size[parent[a]]
    BY DEF IInv, TreesShallow
<1> HIDE DEF n
<1>5. CASE Walk
  <2>1. FindsLeft' = FindsLeft
      BY <1>5 DEF Walk, FindsLeft, Ungrouped, Active
  <2>2. /\ pc = "walk" /\ pc' = "walk" /\ root' = parent[root] /\ size' = size
        /\ parent[root] # root
      BY <1>5 DEF Walk, trees
  <2>3. StepsLeft = (n - size[root]) + n + 4 /\ StepsLeft' = (n - size[parent[root]]) + n + 4
      BY <1>1, <2>2, StepsAt DEF n
  <2>4. size[root] < size[parent[root]]
      BY <1>0, <1>3, <1>4, <2>2 DEF Active
  <2> QED
      BY <1>0, <1>3, <2>1, <2>2, <2>3, <2>4 DEF Active
<1>6. CASE WalkEnds
  <2>1. FindsLeft' = FindsLeft
      BY <1>6 DEF WalkEnds, FindsLeft, Ungrouped, Active, find
  <2>2. pc = "walk" /\ pc' = "compress" /\ cursor' = cursor /\ size' = size
      BY <1>6 DEF WalkEnds, trees, find
  <2>3. StepsLeft = (n - size[root]) + n + 4 /\ StepsLeft' = (n - size[cursor]) + 3
      BY <1>1, <2>2, StepsAt DEF n
  <2> QED
      BY <1>0, <1>3, <2>1, <2>2, <2>3 DEF Active
<1>7. CASE Compress
  <2>1. FindsLeft' = FindsLeft
      BY <1>7 DEF Compress, FindsLeft, Ungrouped, Active
  <2>2. /\ pc = "compress" /\ pc' = "compress" /\ cursor' = parent[cursor] /\ size' = size
        /\ cursor # root
      BY <1>7 DEF Compress
  <2>3. StepsLeft = (n - size[cursor]) + 3 /\ StepsLeft' = (n - size[parent[cursor]]) + 3
      BY <1>1, <2>2, StepsAt DEF n
  <2>4. parent[cursor] # cursor
    \* Otherwise the cursor would be the root of what was looked up, and so would root.
    <3>1. rep[root] = rep[cursor] /\ parent[root] = root
        BY <1>2, <2>2 DEF Forest, FindInv, Active
    <3> QED
        BY <1>2, <1>3, <2>2, <3>1 DEF Forest, Roots, Active
  <2>5. size[cursor] < size[parent[cursor]]
      BY <1>0, <1>3, <1>4, <2>2, <2>4 DEF Active
  <2> QED
      BY <1>0, <1>3, <2>1, <2>2, <2>3, <2>5 DEF Active
<1>8. CASE CompressEnds
  <2>1. FindsLeft' = FindsLeft
      BY <1>8 DEF CompressEnds, FindsLeft, Ungrouped, Active, find
  <2>2. pc = "compress" /\ pc' = "returned"
      BY <1>8 DEF CompressEnds
  <2>3. StepsLeft = (n - size[cursor]) + 3 /\ StepsLeft' = 2
      BY <1>1, <2>2, StepsAt DEF n
  <2> QED
      BY <1>0, <1>3, <2>1, <2>2, <2>3 DEF Active
<1>9. CASE Union
  <2>1. FindsLeft' = FindsLeft
      BY <1>9 DEF Union, FindsLeft, Ungrouped, Active, find
  <2>2. pc = "returned" /\ pc' = "next"
      BY <1>9 DEF Union
  <2> QED
      BY <1>1, <2>1, <2>2, StepsAt
<1>10. CASE PutInBucket
  <2>1. Ungrouped' = Ungrouped /\ todo' = todo
    <3>1. start \in Apps /\ root # None /\ Active /\ call.by = "group"
        BY <1>3, <1>10 DEF PutInBucket, IInv, TypeOK, Active
    <3>2. bucket' = [bucket EXCEPT ![start] = root] /\ ~Active' /\ todo' = todo
        BY <1>10 DEF PutInBucket, Active
    <3>3. bucket \in [Apps -> Apps \cup {None}]
        BY DEF IInv, TypeOK
    <3> QED
        BY <3>1, <3>2, <3>3 DEF Ungrouped
  <2>2. FindsLeft' = FindsLeft
      BY <1>10, <2>1 DEF PutInBucket, FindsLeft, Active
  <2>3. pc = "returned" /\ pc' = "next"
      BY <1>10 DEF PutInBucket
  <2> QED
      BY <1>1, <2>2, <2>3, StepsAt
<1>11. CASE Return
  <2>1. FindsLeft' = FindsLeft
      BY <1>11 DEF Return, FindsLeft, Ungrouped, Active, find
  <2>2. pc = "next" /\ pc' = "done"
      BY <1>11 DEF Return
  <2> QED
      BY <1>1, <2>1, <2>2, StepsAt
<1> QED
    BY <1>5, <1>6, <1>7, <1>8, <1>9, <1>10, <1>11

\* What is left of the function is two natural numbers.
LEMMA LeftIsNatural == Spec => [](FindsLeft \in Nat /\ StepsLeft \in Nat)
BY LeftIsCounted, Inductive, PTL

\* detectComponents returns, for any population and any links: every step it takes leaves
\* fewer finds to begin, or as many and fewer steps to the next, and both numbers are
\* natural (LeftIsNatural), so that it takes finitely many steps.  With the fairness of
\* FairSpec this is Returns.
THEOREM FindsEnd == Spec => CountsDown
<1>1. ASSUME IInv, IInv', [Next]_vars
      PROVE  \/ FindsLeft' < FindsLeft
             \/ FindsLeft' = FindsLeft /\ StepsLeft' < StepsLeft
             \/ UNCHANGED vars
    BY <1>1, FindsCountDown, StepsCountDown DEF Next
<1> QED
    BY <1>1, Inductive, PTL DEF Spec, CountsDown
=============================================================================
