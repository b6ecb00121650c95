----------------------------- MODULE MCCasework -----------------------------
(* Small instances of Casework for TLC. *)
EXTENDS Casework, TLC

CONSTANTS p1, p2, p3, e1, e2

\* Two siblings apply under one address, a third person under another.
SomeEmail == [p \in Persons |-> IF p = p3 THEN e2 ELSE e1]

\* Two spreadsheets whose rows need the same two applicants in opposite orders.
SomeFiles == {<<p1, p3>>, <<p3, p2>>}

Interchangeable == Permutations(Handlers)

Limit(f) == [op \in Ops |-> IF op \in DOMAIN f THEN f[op] ELSE 0]

\* Each behaviour is about one of these: submissions, imports and links at the same
\* time; a link followed more than once; the verification stage and reviewers;
\* decisions, the stages that read the certificate and its purge.
Behaviours == {
    Limit([submit |-> 2, import |-> 2, follow |-> 2]),
    Limit([submit |-> 2, ask |-> 1, follow |-> 3]),
    Limit([submit |-> 1, check |-> 3, record |-> 3]),
    Limit([submit |-> 1, review |-> 3, stage |-> 2, retention |-> 2]),
    Limit([submit |-> 2, review |-> 2, retention |-> 1])}
=============================================================================
