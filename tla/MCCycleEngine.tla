--------------------------- MODULE MCCycleEngine ---------------------------
(* Small instances of CycleEngine for TLC. *)
EXTENDS CycleEngine, TLC

CONSTANTS a1, a2, a3

\* Two applications linked by two fields, so that rejecting one edge keeps them
\* together and rejecting both splits them.
PairEdges == {<<{a1, a2}, "guardian_name">>, <<{a1, a2}, "phone">>}

\* A chain of three: the middle one holds the household together, and a rule
\* compares its ends across households.
ChainEdges == PairEdges \cup {<<{a2, a3}, "address">>}
Ends == {{a1, a3}}

\* Requests are interchangeable.
Requests == Permutations(Handlers)

\* The pair alone, with two inputs and a crash; or the whole chain and any one input.
PairOrChain == {[apps |-> {a1, a2}, changes |-> 2, faults |-> 1],
                [apps |-> {a1, a2, a3}, changes |-> 1, faults |-> 0]}

\* One input and a crash.
Pair == {[apps |-> {a1, a2}, changes |-> 1, faults |-> 1]}
=============================================================================
