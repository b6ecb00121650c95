-------------------------- MODULE MCConnectionPool --------------------------
(* A small instance of ConnectionPool for TLC. *)
EXTENDS ConnectionPool

\* Three requests of the API and one job of the worker.
HomeOf == [t \in Tasks |-> IF t = "job" THEN "worker" ELSE "api"]
=============================================================================
