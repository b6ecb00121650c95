----------------------------- MODULE Households -----------------------------
(***************************************************************************)
(* detectComponents (apps/api/src/household/components.ts): the linked     *)
(* pairs of a cycle are merged one after another in a union-find with path *)
(* compression and union by size, and every application is then put in the *)
(* bucket of its root.  The pairs come in any order.                       *)
(*                                                                         *)
(* One step is one iteration of a loop of the code, so that what find does *)
(* to the trees on its way is visible.                                     *)
(***************************************************************************)
EXTENDS Integers, FiniteSets

CONSTANTS
    Apps,        \* the applications of the cycle
    None,        \* no bucket yet
    MatchEdges   \* the edges <<{a, b}, field>> resolution can find

ASSUME HouseholdAssumption ==
    /\ IsFiniteSet(Apps) /\ None \notin Apps
    /\ \A e \in MatchEdges : \E a, b \in Apps : e[1] = {a, b}

VARIABLES
    rejected,   \* the edges a reviewer rejected
    todo,       \* the pairs not yet merged
    parent,     \* the union-find: parent and size of each application
    size,
    bucket,     \* bucket[a]: the root a is grouped under, or None
    pc,         \* "next", "walk", "compress", "returned", "done"
    call,       \* the running find: its caller, and the pair being merged
    start,      \* what is looked up
    root,       \* find's two loop variables
    cursor,
    rootA       \* the first result of the union under way

trees == <<parent, size>>
find == <<call, start, root, cursor, rootA>>
vars == <<rejected, todo, trees, bucket, pc, find>>

\* The pairs with an edge nobody rejected.
Links == {e[1] : e \in MatchEdges \ rejected}

\* Mutant of FirstSize: an application on its own counts for nothing.
FirstSizeZero == 0

FirstSize == 1

Init ==
    /\ rejected \in SUBSET MatchEdges
    /\ todo = Links
    /\ parent = [a \in Apps |-> a]
    /\ size = [a \in Apps |-> FirstSize]
    /\ bucket = [a \in Apps |-> None]
    /\ pc = "next"
    /\ call = [by |-> "none", pair |-> {}, other |-> None]
    /\ start = None /\ root = None /\ cursor = None /\ rootA = None

\* find(id) begins: root and cursor stand on id.
Find(id, by, pair, other) ==
    /\ call' = [by |-> by, pair |-> pair, other |-> other]
    /\ start' = id /\ root' = id /\ cursor' = id
    /\ pc' = "walk"

-----------------------------------------------------------------------------
\* The next pair: union(a, b) looks up a first.
NextPair ==
    /\ pc = "next" /\ todo # {}
    /\ \E a, b \in Apps :
          /\ {a, b} \in todo
          /\ todo' = todo \ {{a, b}}
          /\ Find(a, "first", {a, b}, b)
    /\ UNCHANGED <<rejected, trees, bucket, rootA>>

\* while (parent.get(root) !== root)
Walk ==
    /\ pc = "walk" /\ parent[root] # root
    /\ root' = parent[root]
    /\ UNCHANGED <<rejected, todo, trees, bucket, pc, call, start, cursor, rootA>>

WalkEnds ==
    /\ pc = "walk" /\ parent[root] = root
    /\ pc' = "compress"
    /\ UNCHANGED <<rejected, todo, trees, bucket, find>>

\* Mutant of Compress: the cursor stays where it is.
CompressInPlace ==
    /\ pc = "compress" /\ cursor # root
    /\ parent' = [parent EXCEPT ![cursor] = root]
    /\ UNCHANGED <<rejected, todo, size, bucket, pc, find>>

\* while (cursor !== root): the walked chain is hung below the root.
Compress ==
    /\ pc = "compress" /\ cursor # root
    /\ parent' = [parent EXCEPT ![cursor] = root]
    /\ cursor' = parent[cursor]
    /\ UNCHANGED <<rejected, todo, size, bucket, pc, call, start, root, rootA>>

CompressEnds ==
    /\ pc = "compress" /\ cursor = root
    /\ pc' = "returned"
    /\ UNCHANGED <<rejected, todo, trees, bucket, find>>

\* union has rootA and looks up b.
SecondRoot ==
    /\ pc = "returned" /\ call.by = "first"
    /\ rootA' = root
    /\ Find(call.other, "second", call.pair, call.other)
    /\ UNCHANGED <<rejected, todo, trees, bucket>>

\* Mutant of Hang: what is hung is the second application, not its root.
HangGiven(a, b) == <<a, start>>

\* [big, small]: the larger tree takes the smaller.
Hang(a, b) == IF size[a] >= size[b] THEN <<a, b>> ELSE <<b, a>>

Union ==
    /\ pc = "returned" /\ call.by = "second"
    /\ IF rootA = root THEN UNCHANGED trees
       ELSE LET big == Hang(rootA, root)[1]  small == Hang(rootA, root)[2] IN
            /\ parent' = [parent EXCEPT ![small] = big]
            /\ size' = [size EXCEPT ![big] = size[rootA] + size[root]]
    /\ pc' = "next"
    /\ UNCHANGED <<rejected, todo, bucket, find>>

\* All pairs merged: each application is looked up, and put in its root's bucket.
NextApplication ==
    /\ pc = "next" /\ todo = {}
    /\ \E a \in Apps : bucket[a] = None /\ Find(a, "group", {}, None)
    /\ UNCHANGED <<rejected, todo, trees, bucket, rootA>>

PutInBucket ==
    /\ pc = "returned" /\ call.by = "group"
    /\ bucket' = [bucket EXCEPT ![start] = root]
    /\ pc' = "next"
    /\ UNCHANGED <<rejected, todo, trees, find>>

\* Every application is in a bucket.  What is left reads the trees, which are flat by now:
\* an edge goes to the bucket of its first end, and the buckets are sorted.
Return ==
    /\ pc = "next" /\ todo = {} /\ \A a \in Apps : bucket[a] # None
    /\ pc' = "done"
    /\ UNCHANGED <<rejected, todo, trees, bucket, find>>

Next ==
    \/ NextPair \/ NextApplication \/ Return
    \/ Walk \/ WalkEnds \/ Compress \/ CompressEnds
    \/ SecondRoot \/ Union \/ PutInBucket

Spec == Init /\ [][Next]_vars

\* The function runs on while it has a step to take.
FairSpec == Spec /\ WF_vars(Next)

-----------------------------------------------------------------------------
(* Properties.                                                             *)

\* Type invariant.
TypeOK ==
    /\ rejected \in SUBSET MatchEdges
    /\ todo \in SUBSET Links
    /\ parent \in [Apps -> Apps]
    /\ size \in [Apps -> Nat \ {0}]
    /\ bucket \in [Apps -> Apps \cup {None}]
    /\ pc \in {"next", "walk", "compress", "returned", "done"}
    /\ call \in [by : {"none", "first", "second", "group"},
                 pair : SUBSET Apps, other : Apps \cup {None}]
    /\ {start, root, cursor, rootA} \subseteq Apps \cup {None}
    /\ pc \in {"walk", "compress", "returned"} => {start, root, cursor} \subseteq Apps

\* The pairs merged so far.
Merged == Links \ (todo \cup IF pc \in {"walk", "compress", "returned"} THEN {call.pair} ELSE {})

\* S holds of every linked pair both applications or none.
Closed(S, links) == \A a, b \in Apps : {a, b} \in links => (a \in S <=> b \in S)

\* The connected component of a: what every closed set with a in it contains.
Component(a, links) == {b \in Apps : \A S \in SUBSET Apps : Closed(S, links) /\ a \in S => b \in S}

\* Two applications end up in one bucket exactly when a chain of links joins them:
\* transitive merges are all made, in whatever order the pairs come and however the
\* trees were flattened meanwhile, and a rejected edge does split a household
\* (components.ts: "the component splits back apart").
BucketsAreComponents ==
    pc = "done" => \A a, b \in Apps : bucket[a] = bucket[b] <=> b \in Component(a, Links)

\* A root's size counts its tree, also after compression has rehung parts of it.
SizesCount ==
    \A r \in Apps : parent[r] = r => size[r] = Cardinality(Component(r, Merged))

\* "Union by size keeps trees shallow": every step towards the root at least doubles
\* the size on record, so that no path is longer than the logarithm of the cycle.
TreesShallow == \A a \in Apps : parent[a] # a => 2 * size[a] <= size[parent[a]]

\* A find is under way.
Active == pc \in {"walk", "compress", "returned"}

\* The applications whose own find has not begun.
Ungrouped ==
    {a \in Apps : bucket[a] = None /\ ~(Active /\ call.by = "group" /\ a = start)}

\* The finds still to begin: two for each pair, one for each application.
FindsLeft ==
    2 * Cardinality(todo) + (IF Active /\ call.by = "first" THEN 1 ELSE 0)
    + Cardinality(Ungrouped)

\* The steps that are left before the next find begins, at most.
StepsLeft ==
    CASE pc = "walk"     -> (Cardinality(Apps) - size[root]) + Cardinality(Apps) + 4
      [] pc = "compress" -> (Cardinality(Apps) - size[cursor]) + 3
      [] pc = "returned" -> 2
      [] pc = "next"     -> 1
      [] pc = "done"     -> 0

\* Nothing find does to the trees makes it walk one of them for longer: with every step
\* there are fewer finds to begin, or as many and fewer steps to the next one, since both
\* loops go on to ever larger trees (components.ts, find).
CountsDown ==
    [][\/ FindsLeft' < FindsLeft
       \/ FindsLeft' = FindsLeft /\ StepsLeft' < StepsLeft]_vars

\* find never runs in a circle: the whole function returns.
Returns == <>(pc = "done")
=============================================================================
