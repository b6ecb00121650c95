--------------------------- MODULE MCStaffAccess ---------------------------
(* Small instances of StaffAccess for TLC. *)
EXTENDS StaffAccess, TLC

CONSTANTS u1, u2

\* Browsers are interchangeable.
Interchangeable == Permutations(Browsers)

Limit(f) == [op \in Ops |-> IF op \in DOMAIN f THEN f[op] ELSE 0]

\* Each behaviour is about one of these: invitations and deactivations, sessions
\* being revoked, or one account's second factor in two browsers.
Behaviours == {
    Limit([login |-> 1, invite |-> 2, accept |-> 2, deactivate |-> 2, reactivate |-> 1, withdraw |-> 1]),
    Limit([login |-> 3, invite |-> 1, accept |-> 1, deactivate |-> 1, reactivate |-> 1, revoke |-> 2]),
    Limit([login |-> 3, status |-> 3, enrol |-> 2, confirm |-> 2, disable |-> 1])}
=============================================================================
