--------------------------- MODULE ConnectionPool ---------------------------
(***************************************************************************)
(* The API and the pipeline's worker each draw their connections from a    *)
(* pool of their own (apps/api/src/db.ts).  A statement or a transaction   *)
(* holds one connection.  A run of the engine holds one for its cycle's    *)
(* lock, which belongs to that connection's session, and asks for a second *)
(* one for each of its statements (withCycleLock, household/service.ts).   *)
(*                                                                         *)
(* What a statement does, and what it waits for in the database, is left   *)
(* out: whatever it waits for is held by a transaction that has its one    *)
(* connection and ends without another.                                    *)
(***************************************************************************)
EXTENDS Integers, Sequences, FiniteSets

CONSTANTS
    Processes,
    Tasks,       \* requests and jobs in progress at the same time
    Home,        \* Home[t]: the process t runs in
    Max,         \* the connections of each pool (max, db.ts:20)
    Cycles,
    None,
    Statements   \* bound: the statements a run of the engine makes at most

Conns == Processes \X (1..Max)
Pool(pr) == {pr} \X (1..Max)

ASSUME PoolAssumption ==
    /\ Home \in [Tasks -> Processes]
    /\ None \notin Tasks \cup Conns \cup Cycles
    /\ Statements \in Nat

\* A process has more connections than there are cycles being scored.
ASSUME FewCycles == IsFiniteSet(Cycles) /\ Max \in Nat /\ Cardinality(Cycles) < Max

VARIABLES
    owner,   \* owner[k]: the task that has checked k out
    queue,   \* queue[pr]: the tasks whose pool.connect() is pending
    task,    \* task[t]: where it is, its cycle if it is a run, its statements left
    lock     \* lock[c]: the connection whose session holds c's advisory lock

vars == <<owner, queue, task, lock>>

Idle == [pc |-> "idle", cycle |-> None, todo |-> 0]

Init ==
    /\ owner = [k \in Conns |-> None]
    /\ queue = [pr \in Processes |-> <<>>]
    /\ task = [t \in Tasks |-> Idle]
    /\ lock = [c \in Cycles |-> None]

\* pool.connect(): behind everyone who asked before.
Asks(t) == queue' = [queue EXCEPT ![Home[t]] = Append(@, t)]

Released(t) == [k \in Conns |-> IF owner[k] = t THEN None ELSE owner[k]]

-----------------------------------------------------------------------------
\* A statement of its own, or a transaction.
Query(t) ==
    /\ task[t].pc = "idle"
    /\ task' = [task EXCEPT ![t] = [pc |-> "asks", cycle |-> None, todo |-> Statements]]
    /\ Asks(t)
    /\ UNCHANGED <<owner, lock>>

Engine(t, c) ==
    /\ task[t].pc = "idle"
    /\ task' = [task EXCEPT ![t] = [pc |-> "asks", cycle |-> c, todo |-> Statements]]
    /\ Asks(t)
    /\ UNCHANGED <<owner, lock>>

Served(s) == CASE s.pc = "more"    -> "nested"
               [] s.cycle = None   -> "has"
               [] OTHER            -> "tries"

\* The pool gives a connection to whoever has waited longest.  Which of the idle ones is
\* told apart by nothing; here it is the first.
Connect(pr) ==
    /\ queue[pr] # <<>>
    /\ LET t == Head(queue[pr]) IN
       \E k \in Pool(pr) :
           /\ owner[k] = None
           /\ \A n \in 1..(k[2] - 1) : owner[<<pr, n>>] # None
           /\ owner' = [owner EXCEPT ![k] = t]
           /\ queue' = [queue EXCEPT ![pr] = Tail(@)]
           /\ task' = [task EXCEPT ![t].pc = Served(task[t])]
           /\ UNCHANGED lock

\* Mutant of Refused: pg_advisory_lock, which waits with the connection in hand.
RefusedWaits(t) == UNCHANGED <<owner, task>>

\* The connection goes back before the pause.
Refused(t) ==
    /\ owner' = Released(t)
    /\ task' = [task EXCEPT ![t].pc = "pauses"]

TryLock(t) == LET c == task[t].cycle IN
    /\ task[t].pc = "tries"
    /\ \E k \in Conns :
           /\ owner[k] = t
           /\ \/ /\ lock[c] \in {None, k}
                 /\ lock' = [lock EXCEPT ![c] = k]
                 /\ task' = [task EXCEPT ![t].pc = "has"]
                 /\ UNCHANGED owner
              \/ /\ lock[c] \notin {None, k}
                 /\ Refused(t)
                 /\ UNCHANGED lock
    /\ UNCHANGED queue

Retry(t) ==
    /\ task[t].pc = "pauses"
    /\ task' = [task EXCEPT ![t].pc = "asks"]
    /\ Asks(t)
    /\ UNCHANGED <<owner, lock>>

\* Mutant of Nests: a statement of a transaction goes to the pool instead of to the
\* transaction's client (recordAudit called without it).
NestsInTransaction(t) == task[t].pc = "has" /\ task[t].todo > 0

\* Only what the engine does under its lock asks for a connection while it has one.
Nests(t) == task[t].pc = "has" /\ task[t].todo > 0 /\ task[t].cycle # None

Nest(t) ==
    /\ Nests(t)
    /\ task' = [task EXCEPT ![t].pc = "more", ![t].todo = @ - 1]
    /\ Asks(t)
    /\ UNCHANGED <<owner, lock>>

\* The statement or transaction under the lock succeeds or throws.
Unnest(t) ==
    /\ task[t].pc = "nested"
    /\ \E k \in Conns :
           /\ owner[k] = t
           /\ \A c \in Cycles : lock[c] # k
           /\ owner' = [owner EXCEPT ![k] = None]
    /\ task' = [task EXCEPT ![t].pc = "has"]
    /\ UNCHANGED <<queue, lock>>

\* Mutant of Unlocked: the connection is released with the session's lock.
UnlockedNever(c) == lock

Unlocked(c) == [d \in Cycles |-> IF d = c THEN None ELSE lock[d]]

\* The run has finished or one of its statements threw: the lock goes, then the
\* connection.  A transaction ends with its commit or its rollback.
End(t) ==
    /\ task[t].pc = "has"
    /\ lock' = Unlocked(task[t].cycle)
    /\ owner' = Released(t)
    /\ task' = [task EXCEPT ![t] = Idle]
    /\ UNCHANGED queue

\* The process dies; the database ends its sessions and with them their locks.
Die(pr) ==
    /\ owner' = [k \in Conns |-> IF k \in Pool(pr) THEN None ELSE owner[k]]
    /\ queue' = [queue EXCEPT ![pr] = <<>>]
    /\ task' = [t \in Tasks |-> IF Home[t] = pr THEN Idle ELSE task[t]]
    /\ lock' = [c \in Cycles |-> IF lock[c] \in Pool(pr) THEN None ELSE lock[c]]

Proceeds(t) == TryLock(t) \/ Retry(t) \/ Nest(t) \/ Unnest(t) \/ End(t)

Next == \/ \E t \in Tasks : Query(t) \/ Proceeds(t) \/ \E c \in Cycles : Engine(t, c)
        \/ \E pr \in Processes : Connect(pr) \/ Die(pr)

\* A pool serves who waits while it has a connection, and a task goes on once it can;
\* nobody has to ask for anything.
Fairness == /\ \A pr \in Processes : WF_vars(Connect(pr))
            /\ \A t \in Tasks : WF_vars(Proceeds(t))

Spec == Init /\ [][Next]_vars /\ Fairness

-----------------------------------------------------------------------------
(* Properties.                                                              *)

Pcs == {"idle", "asks", "tries", "pauses", "has", "more", "nested"}

\* Every variable stays within its domain, and only tasks that wait are in a queue.
TypeOK ==
    /\ owner \in [Conns -> Tasks \cup {None}]
    /\ queue \in [Processes -> Seq(Tasks)]
    /\ task \in [Tasks -> [pc : Pcs, cycle : Cycles \cup {None}, todo : 0..Statements]]
    /\ lock \in [Cycles -> Conns \cup {None}]
    /\ \A pr \in Processes : \A i \in DOMAIN queue[pr] : task[queue[pr][i]].pc \in {"asks", "more"}

\* In every process some connection is free or in the hands of a task that does not wait
\* for another one, however many runs and transactions are under way: the pool is never
\* held entirely by its own waiters (withCycleLock's comment).
PoolMoves ==
    \A pr \in Processes : \E k \in Pool(pr) :
        owner[k] = None \/ task[owner[k]].pc # "more"

\* A cycle's lock is held by a session only while the run that took it has that session's
\* connection: no throw and no crash leaves a lock in the pool.
LockHasSession ==
    \A c \in Cycles : lock[c] # None =>
        /\ owner[lock[c]] # None
        /\ task[owner[lock[c]]].cycle = c
        /\ task[owner[lock[c]]].pc \in {"has", "more", "nested"}

\* A task that is neither idle nor pausing has what it waits for ahead of it: it stands in
\* its process's queue, or it has the connection its next statement goes to, which for a
\* statement under a cycle's lock is not the lock's (pool.connect, withCycleLock).
NobodyForgotten ==
    \A t \in Tasks :
        /\ task[t].pc \in {"asks", "more"} =>
               \E i \in DOMAIN queue[Home[t]] : queue[Home[t]][i] = t
        /\ task[t].pc \in {"tries", "has"} => \E k \in Conns : owner[k] = t
        /\ task[t].pc = "nested" =>
               \E k \in Conns : owner[k] = t /\ \A c \in Cycles : lock[c] # k

\* What the run of t has left to do under its lock, in steps of its own and of its pool.
RunLeft(t) ==
    3 * task[t].todo + (IF task[t].pc = "more" THEN 3 ELSE
                        IF task[t].pc = "nested" THEN 2 ELSE 1)

\* As long as a cycle's lock stays where it is, nothing anyone does gives its holder more
\* to do: a step leaves the holder as it was or brings it nearer to the unlock
\* (withCycleLock: the connection goes back before a pause, never while the lock is held).
HoldersCountDown ==
    [][\A c \in Cycles, t \in Tasks :
           lock[c] # None /\ lock'[c] = lock[c] /\ owner[lock[c]] = t =>
               /\ owner'[lock[c]] = t
               /\ task'[t] = task[t] \/ RunLeft(t)' < RunLeft(t)]_vars

\* Whoever holds a cycle's lock gets the connections it needs and gives the lock back.
LocksComeBack == \A c \in Cycles : lock[c] # None ~> lock[c] = None
=============================================================================
