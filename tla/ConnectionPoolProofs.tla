------------------------ MODULE ConnectionPoolProofs ------------------------
(***************************************************************************)
(* What holds of ConnectionPool for any processes, tasks, statements and   *)
(* pools with more connections than there are cycles.  The invariant says  *)
(* of every task which connections it has at each point of its work: one   *)
(* that waits for another has one only, that of its cycle's lock.          *)
(***************************************************************************)
EXTENDS ConnectionPool, FiniteSetTheorems, TLAPS

Rows == [pc : Pcs, cycle : Cycles \cup {None}, todo : 0..Statements]

Typed ==
    /\ owner \in [Conns -> Tasks \cup {None}]
    /\ queue \in [Processes -> Seq(Tasks)]
    /\ task \in [Tasks -> Rows]
    /\ lock \in [Cycles -> Conns \cup {None}]

\* Who waits in a queue waits once, in the process it runs in.
QueueOK(pr) ==
    \A i \in DOMAIN queue[pr] :
        /\ task[queue[pr][i]].pc \in {"asks", "more"}
        /\ Home[queue[pr][i]] = pr
        /\ \A j \in DOMAIN queue[pr] : queue[pr][i] = queue[pr][j] => i = j

\* t is where it holds its cycle's lock.
Locks(t) == task[t].cycle # None /\ task[t].pc \in {"has", "more", "nested"}

\* The session of t's lock is t's.
Session(t) == lock[task[t].cycle] \in Conns /\ owner[lock[task[t].cycle]] = t

TaskOK(t) ==
    /\ \A k \in Conns : owner[k] = t => k[1] = Home[t]
    /\ task[t].pc \in {"idle", "asks", "pauses"} => \A k \in Conns : owner[k] # t
    /\ task[t].pc \in {"tries", "more", "nested"} => task[t].cycle # None
    /\ task[t].pc = "tries" => \A k, j \in Conns : owner[k] = t /\ owner[j] = t => k = j
    /\ Locks(t) => Session(t)
    /\ Locks(t) /\ task[t].pc # "nested" =>
           \A k \in Conns : owner[k] = t => k = lock[task[t].cycle]
    /\ task[t].pc = "nested" =>
           \A k, j \in Conns :
               owner[k] = t /\ owner[j] = t /\ lock[task[t].cycle] \notin {k, j} => k = j

LockOK(c) ==
    lock[c] # None => /\ owner[lock[c]] \in Tasks
                      /\ task[owner[lock[c]]].cycle = c /\ Locks(owner[lock[c]])

Inv ==
    /\ Typed
    /\ \A pr \in Processes : QueueOK(pr)
    /\ \A t \in Tasks : TaskOK(t)
    /\ \A c \in Cycles : LockOK(c)

-----------------------------------------------------------------------------
(* The queue: a task is appended, or the first leaves.                      *)

LEMMA AskedQueue ==
    ASSUME Inv, PoolAssumption, NEW t \in Tasks, Asks(t), task[t].pc \notin {"asks", "more"},
           task'[t].pc \in {"asks", "more"},
           \A u \in Tasks : u # t => task'[u] = task[u]
    PROVE  queue' \in [Processes -> Seq(Tasks)] /\ \A pr \in Processes : QueueOK(pr)'
<1> DEFINE q == queue[Home[t]]
<1>1. /\ Home[t] \in Processes /\ queue \in [Processes -> Seq(Tasks)] /\ q \in Seq(Tasks)
      /\ queue' = [queue EXCEPT ![Home[t]] = Append(q, t)]
  BY DEF PoolAssumption, Inv, Typed, Asks
<1>2. queue' \in [Processes -> Seq(Tasks)]
  BY <1>1
<1>3. ASSUME NEW pr \in Processes, pr # Home[t]
      PROVE  QueueOK(pr)'
  <2>1. queue'[pr] = queue[pr] /\ queue[pr] \in Seq(Tasks)
    BY <1>1, <1>3
  <2>2. \A i \in DOMAIN queue[pr] : queue[pr][i] \in Tasks /\ queue[pr][i] # t
    BY <1>3, <2>1 DEF Inv, QueueOK
  <2>3. QED
    BY <2>1, <2>2 DEF Inv, QueueOK
<1>4. QueueOK(Home[t])'
  <2>1. /\ queue'[Home[t]] = Append(q, t) /\ Len(q) \in Nat /\ DOMAIN q = 1..Len(q)
        /\ DOMAIN Append(q, t) = 1..(Len(q) + 1)
        /\ \A i \in 1..Len(q) : Append(q, t)[i] = q[i] /\ q[i] \in Tasks
        /\ Append(q, t)[Len(q) + 1] = t
    BY <1>1
  <2>2. \A i \in 1..Len(q) : /\ q[i] # t /\ task[q[i]].pc \in {"asks", "more"}
                             /\ Home[q[i]] = Home[t]
                             /\ \A j \in 1..Len(q) : q[i] = q[j] => i = j
    <3>1. QueueOK(Home[t])
      BY <1>1 DEF Inv
    <3>2. QED
      BY <2>1, <3>1 DEF QueueOK
  <2> HIDE DEF q
  <2>3. QED
    BY <2>1, <2>2 DEF QueueOK
<1>5. QED
  BY <1>2, <1>3, <1>4

LEMMA ServedQueue ==
    ASSUME Inv, NEW pr \in Processes, queue[pr] # <<>>,
           queue' = [queue EXCEPT ![pr] = Tail(queue[pr])],
           \A u \in Tasks : u # Head(queue[pr]) => task'[u] = task[u]
    PROVE  /\ Head(queue[pr]) \in Tasks /\ Home[Head(queue[pr])] = pr
           /\ task[Head(queue[pr])].pc \in {"asks", "more"}
           /\ queue' \in [Processes -> Seq(Tasks)] /\ \A p \in Processes : QueueOK(p)'
<1> DEFINE q == queue[pr]
<1>1. queue \in [Processes -> Seq(Tasks)] /\ q \in Seq(Tasks) /\ q # <<>>
  BY DEF Inv, Typed
<1>2. /\ Len(q) \in Nat /\ Len(q) > 0 /\ DOMAIN q = 1..Len(q) /\ Head(q) = q[1]
      /\ Tail(q) \in Seq(Tasks) /\ DOMAIN Tail(q) = 1..(Len(q) - 1)
      /\ \A i \in 1..(Len(q) - 1) : Tail(q)[i] = q[i + 1]
      /\ \A i \in 1..Len(q) : q[i] \in Tasks
  BY <1>1
<1>3. \A i \in 1..Len(q) : /\ task[q[i]].pc \in {"asks", "more"} /\ Home[q[i]] = pr
                           /\ \A j \in 1..Len(q) : q[i] = q[j] => i = j
  BY <1>2 DEF Inv, QueueOK
<1>4. queue' \in [Processes -> Seq(Tasks)] /\ queue'[pr] = Tail(q)
  BY <1>1, <1>2
<1>5. ASSUME NEW p \in Processes, p # pr
      PROVE  QueueOK(p)'
  <2>1. queue'[p] = queue[p] /\ queue[p] \in Seq(Tasks)
    BY <1>1, <1>5
  <2>2. \A i \in DOMAIN queue[p] : queue[p][i] \in Tasks /\ queue[p][i] # Head(q)
    BY <1>2, <1>3, <1>5, <2>1 DEF Inv, QueueOK
  <2>3. QED
    BY <2>1, <2>2 DEF Inv, QueueOK
<1>6. QueueOK(pr)'
  <2>1. \A i \in 1..(Len(q) - 1) : q[i + 1] # Head(q) /\ i + 1 \in 1..Len(q)
    BY <1>2, <1>3
  <2> HIDE DEF q
  <2>2. \A i \in 1..(Len(q) - 1) :
            /\ task'[Tail(q)[i]].pc \in {"asks", "more"} /\ Home[Tail(q)[i]] = pr
            /\ \A j \in 1..(Len(q) - 1) : Tail(q)[i] = Tail(q)[j] => i = j
    BY <1>2, <1>3, <2>1 DEF q
  <2> DEFINE r == Tail(q)
  <2>3. DOMAIN r = 1..(Len(q) - 1) /\ queue'[pr] = r
    BY <1>2, <1>4
  <2>4. \A i \in DOMAIN r : /\ task'[r[i]].pc \in {"asks", "more"} /\ Home[r[i]] = pr
                            /\ \A j \in DOMAIN r : r[i] = r[j] => i = j
    BY <2>2, <2>3
  <2> HIDE DEF r
  <2>5. QED
    BY <2>3, <2>4 DEF QueueOK
<1>7. QED
  BY <1>2, <1>3, <1>4, <1>5, <1>6

LEMMA QueueStays ==
    ASSUME Inv, NEW t \in Tasks, queue' = queue, task[t].pc \notin {"asks", "more"},
           \A u \in Tasks : u # t => task'[u] = task[u]
    PROVE  queue' \in [Processes -> Seq(Tasks)] /\ \A pr \in Processes : QueueOK(pr)'
<1>1. \A pr \in Processes : \A i \in DOMAIN queue[pr] :
          queue[pr][i] \in Tasks /\ queue[pr][i] # t
  BY DEF Inv, Typed, QueueOK
<1>2. QED
  BY <1>1 DEF Inv, Typed, QueueOK

-----------------------------------------------------------------------------
(* What a task's step leaves to the others.                                 *)

LEMMA OthersKeep ==
    ASSUME Inv, NEW t \in Tasks, NEW u \in Tasks, u # t, task'[u] = task[u],
           \A k \in Conns : owner'[k] = u <=> owner[k] = u,
           Locks(u) => lock'[task[u].cycle] = lock[task[u].cycle]
    PROVE  TaskOK(u)'
<1>1. TaskOK(u)
  BY DEF Inv
<1>2. Locks(u)' <=> Locks(u)
  BY DEF Locks
<1>3. QED
  BY <1>1, <1>2 DEF TaskOK, Session, Locks

LEMMA LockKeeps ==
    ASSUME Inv, NEW t \in Tasks, NEW c \in Cycles, lock'[c] = lock[c],
           \A u \in Tasks : u # t => task'[u] = task[u],
           lock[c] # None => owner'[lock[c]] = owner[lock[c]],
           lock[c] # None /\ owner[lock[c]] = t =>
               task'[t].cycle = task[t].cycle /\ task'[t].pc \in {"has", "more", "nested"}
    PROVE  LockOK(c)'
<1>1. LockOK(c)
  BY DEF Inv
<1>2. QED
  BY <1>1 DEF LockOK, Locks

\* A connection is its process's.
LEMMA PoolOf ==
    ASSUME NEW k \in Conns, NEW pr \in Processes
    PROVE  k \in Pool(pr) <=> k[1] = pr
BY DEF Conns, Pool

-----------------------------------------------------------------------------
(* One lemma per step.                                                      *)

\* What Query and Engine have in common.
Enters(t, c) ==
    /\ task[t].pc = "idle"
    /\ task' = [task EXCEPT ![t] = [pc |-> "asks", cycle |-> c, todo |-> Statements]]
    /\ Asks(t)
    /\ UNCHANGED <<owner, lock>>

LEMMA EntersKeeps ==
    ASSUME Inv, PoolAssumption, NEW t \in Tasks, NEW c \in Cycles \cup {None}, Enters(t, c)
    PROVE  Inv'
<1>1. /\ task' \in [Tasks -> Rows] /\ task'[t].pc = "asks" /\ task[t].pc = "idle"
      /\ \A u \in Tasks : u # t => task'[u] = task[u]
  BY DEF Inv, Typed, Rows, Pcs, Enters, PoolAssumption
<1>2. queue' \in [Processes -> Seq(Tasks)] /\ \A pr \in Processes : QueueOK(pr)'
  BY <1>1, AskedQueue DEF Enters
<1>3. Typed'
  BY <1>1, <1>2 DEF Inv, Typed, Enters
<1>4. TaskOK(t)'
  BY <1>1 DEF Inv, TaskOK, Locks, Session, Enters
<1>5. ASSUME NEW u \in Tasks, u # t
      PROVE  TaskOK(u)'
  BY <1>1, <1>5, OthersKeep DEF Enters
<1>6. ASSUME NEW d \in Cycles
      PROVE  LockOK(d)'
  BY <1>1, LockKeeps DEF Inv, LockOK, Locks, Enters
<1>7. QED
  BY <1>2, <1>3, <1>4, <1>5, <1>6 DEF Inv

LEMMA RetryKeeps ==
    ASSUME Inv, PoolAssumption, NEW t \in Tasks, Retry(t)
    PROVE  Inv'
<1>1. /\ task' \in [Tasks -> Rows] /\ task'[t].pc = "asks" /\ task[t].pc = "pauses"
      /\ task'[t].cycle = task[t].cycle
      /\ \A u \in Tasks : u # t => task'[u] = task[u]
  BY DEF Inv, Typed, Rows, Pcs, Retry
<1>2. queue' \in [Processes -> Seq(Tasks)] /\ \A pr \in Processes : QueueOK(pr)'
  BY <1>1, AskedQueue DEF Retry
<1>3. Typed'
  BY <1>1, <1>2 DEF Inv, Typed, Retry
<1>4. TaskOK(t)'
  BY <1>1 DEF Inv, TaskOK, Locks, Session, Retry
<1>5. ASSUME NEW u \in Tasks, u # t
      PROVE  TaskOK(u)'
  BY <1>1, <1>5, OthersKeep DEF Retry
<1>6. ASSUME NEW d \in Cycles
      PROVE  LockOK(d)'
  BY <1>1, LockKeeps DEF Inv, LockOK, Locks, Retry
<1>7. QED
  BY <1>2, <1>3, <1>4, <1>5, <1>6 DEF Inv

LEMMA NestKeeps ==
    ASSUME Inv, PoolAssumption, NEW t \in Tasks, Nest(t)
    PROVE  Inv'
<1>1. /\ task[t].pc = "has" /\ task[t].todo \in 0..Statements /\ task[t].todo > 0
      /\ task[t].cycle # None /\ Statements \in Nat
  BY DEF Inv, Typed, Rows, Nest, Nests, PoolAssumption
<1>2. /\ task' \in [Tasks -> Rows] /\ task'[t].pc = "more"
      /\ task'[t].cycle = task[t].cycle
      /\ \A u \in Tasks : u # t => task'[u] = task[u]
  BY <1>1 DEF Inv, Typed, Rows, Pcs, Nest
<1>3. queue' \in [Processes -> Seq(Tasks)] /\ \A pr \in Processes : QueueOK(pr)'
  BY <1>1, <1>2, AskedQueue DEF Nest
<1>4. Typed'
  BY <1>2, <1>3 DEF Inv, Typed, Nest
<1>5. TaskOK(t)'
  BY <1>1, <1>2 DEF Inv, TaskOK, Locks, Session, Nest
<1>6. ASSUME NEW u \in Tasks, u # t
      PROVE  TaskOK(u)'
  BY <1>2, <1>6, OthersKeep DEF Nest
<1>7. ASSUME NEW d \in Cycles
      PROVE  LockOK(d)'
  BY <1>1, <1>2, LockKeeps DEF Nest
<1>8. QED
  BY <1>3, <1>4, <1>5, <1>6, <1>7 DEF Inv

LEMMA UnnestKeeps ==
    ASSUME Inv, PoolAssumption, NEW t \in Tasks, Unnest(t)
    PROVE  Inv'
<1>1. PICK k \in Conns : /\ owner[k] = t /\ \A c \in Cycles : lock[c] # k
                         /\ owner' = [owner EXCEPT ![k] = None]
  BY DEF Unnest
<1>2. /\ task' \in [Tasks -> Rows] /\ task[t].pc = "nested" /\ task'[t].pc = "has"
      /\ task'[t].cycle = task[t].cycle /\ task[t].cycle \in Cycles
      /\ \A u \in Tasks : u # t => task'[u] = task[u]
      /\ queue' = queue /\ lock' = lock
  <2>1. task[t].pc = "nested" /\ task[t] \in Rows /\ task[t].cycle # None
    BY DEF Inv, Typed, TaskOK, Unnest
  <2>2. task[t].cycle \in Cycles
    BY <2>1 DEF Rows
  <2>3. /\ task \in [Tasks -> Rows] /\ task' = [task EXCEPT ![t].pc = "has"]
        /\ queue' = queue /\ lock' = lock
    BY DEF Inv, Typed, Unnest
  <2>4. QED
    BY <2>1, <2>2, <2>3 DEF Rows, Pcs
<1>3. /\ owner' \in [Conns -> Tasks \cup {None}] /\ owner'[k] = None
      /\ \A j \in Conns : j # k => owner'[j] = owner[j]
      /\ t # None /\ \A u \in Tasks : u # None
  BY <1>1 DEF Inv, Typed, PoolAssumption
<1>4. queue' \in [Processes -> Seq(Tasks)] /\ \A pr \in Processes : QueueOK(pr)'
  BY <1>2, QueueStays
<1>5. Typed'
  BY <1>2, <1>3, <1>4 DEF Inv, Typed
<1>6. TaskOK(t)'
  <2>1. /\ TaskOK(t) /\ Locks(t) /\ lock[task[t].cycle] # k
        /\ lock[task[t].cycle] \in Conns /\ owner[lock[task[t].cycle]] = t
    BY <1>1, <1>2 DEF Inv, TaskOK, Locks, Session
  <2>2. \A j \in Conns : owner'[j] = t => j = lock[task[t].cycle]
    BY <1>1, <1>2, <1>3, <2>1 DEF TaskOK
  <2>3. QED
    BY <1>2, <1>3, <2>1, <2>2 DEF TaskOK, Locks, Session
<1>7. ASSUME NEW u \in Tasks, u # t
      PROVE  TaskOK(u)'
  BY <1>1, <1>2, <1>3, <1>7, OthersKeep
<1>8. ASSUME NEW d \in Cycles
      PROVE  LockOK(d)'
  <2>1. lock[d] # None => lock[d] \in Conns /\ lock[d] # k
    BY <1>1 DEF Inv, Typed
  <2>2. QED
    BY <1>2, <1>3, <2>1, LockKeeps
<1>9. QED
  BY <1>4, <1>5, <1>6, <1>7, <1>8 DEF Inv

LEMMA EndKeeps ==
    ASSUME Inv, PoolAssumption, NEW t \in Tasks, End(t)
    PROVE  Inv'
<1>1. /\ task' \in [Tasks -> Rows] /\ task[t].pc = "has" /\ task'[t].pc = "idle"
      /\ \A u \in Tasks : u # t => task'[u] = task[u]
      /\ queue' = queue /\ None \notin Tasks /\ None \notin Conns /\ None \notin Cycles
  BY DEF Inv, Typed, Rows, Pcs, End, Idle, PoolAssumption
<1>2. /\ owner' \in [Conns -> Tasks \cup {None}]
      /\ \A k \in Conns : owner'[k] = IF owner[k] = t THEN None ELSE owner[k]
  BY DEF Inv, Typed, End, Released
<1>3. /\ lock' \in [Cycles -> Conns \cup {None}]
      /\ \A d \in Cycles : lock'[d] = IF d = task[t].cycle THEN None ELSE lock[d]
  BY DEF Inv, Typed, End, Unlocked
<1>4. queue' \in [Processes -> Seq(Tasks)] /\ \A pr \in Processes : QueueOK(pr)'
  BY <1>1, QueueStays
<1>5. Typed'
  BY <1>1, <1>2, <1>3, <1>4 DEF Typed
<1>6. TaskOK(t)'
  BY <1>1, <1>2 DEF TaskOK, Locks, Session
<1>7. ASSUME NEW u \in Tasks, u # t
      PROVE  TaskOK(u)'
  <2>1. Locks(u) => task[u].cycle \in Cycles /\ owner[lock[task[u].cycle]] = u
    BY DEF Inv, Typed, Rows, TaskOK, Locks, Session
  <2>2. Locks(t) => owner[lock[task[t].cycle]] = t
    BY DEF Inv, TaskOK, Session
  <2>3. Locks(u) => task[u].cycle # task[t].cycle
    BY <1>1, <1>7, <2>1, <2>2 DEF Locks
  <2>4. \A k \in Conns : owner'[k] = u <=> owner[k] = u
    BY <1>1, <1>2, <1>7
  <2>5. Locks(u) => lock'[task[u].cycle] = lock[task[u].cycle]
    BY <1>3, <2>1, <2>3
  <2>6. QED
    BY <1>1, <1>7, <2>4, <2>5, OthersKeep
<1>8. ASSUME NEW d \in Cycles
      PROVE  LockOK(d)'
  <2>1. CASE d = task[t].cycle
    BY <1>3, <2>1 DEF LockOK
  <2>2. CASE d # task[t].cycle
    <3>1. lock'[d] = lock[d]
      BY <1>3, <2>2
    <3>2. lock[d] # None => lock[d] \in Conns /\ owner[lock[d]] # t
      BY <2>2 DEF Inv, Typed, LockOK
    <3>3. lock[d] # None => owner'[lock[d]] = owner[lock[d]]
      BY <1>2, <3>2
    <3>4. QED
      BY <1>1, <3>1, <3>2, <3>3, LockKeeps
  <2>3. QED
    BY <2>1, <2>2
<1>9. QED
  BY <1>4, <1>5, <1>6, <1>7, <1>8 DEF Inv

LEMMA TryLockKeeps ==
    ASSUME Inv, PoolAssumption, NEW t \in Tasks, TryLock(t)
    PROVE  Inv'
<1> DEFINE c == task[t].cycle
<1>1. /\ task[t].pc = "tries" /\ task[t] \in Rows /\ c # None /\ queue' = queue
      /\ TaskOK(t) /\ None \notin Tasks /\ None \notin Conns /\ task \in [Tasks -> Rows]
  BY DEF Inv, Typed, TaskOK, TryLock, PoolAssumption
<1>2. c \in Cycles
  BY <1>1 DEF Rows
<1>3. PICK k \in Conns :
          /\ owner[k] = t
          /\ \/ /\ lock[c] \in {None, k} /\ lock' = [lock EXCEPT ![c] = k]
                /\ task' = [task EXCEPT ![t].pc = "has"] /\ owner' = owner
             \/ lock[c] \notin {None, k} /\ Refused(t) /\ lock' = lock
  BY DEF TryLock
<1>4. \A j \in Conns : owner[j] = t => j = k
  BY <1>1, <1>3 DEF TaskOK
<1>5. \A d \in Cycles : lock[d] # None => lock[d] \in Conns /\ owner[lock[d]] # t
  BY <1>1 DEF Inv, Typed, LockOK, Locks
<1>6. CASE lock[c] \in {None, k} /\ lock' = [lock EXCEPT ![c] = k]
           /\ task' = [task EXCEPT ![t].pc = "has"] /\ owner' = owner
  <2>1. /\ task' \in [Tasks -> Rows] /\ task'[t].pc = "has" /\ task'[t].cycle = c
        /\ \A u \in Tasks : u # t => task'[u] = task[u]
    BY <1>1, <1>6 DEF Rows, Pcs
  <2>2. /\ lock' \in [Cycles -> Conns \cup {None}] /\ lock'[c] = k
        /\ \A d \in Cycles : d # c => lock'[d] = lock[d]
    BY <1>2, <1>6 DEF Inv, Typed
  <2>3. lock[c] = None
    BY <1>2, <1>3, <1>5, <1>6
  <2> HIDE DEF c
  <2>4. queue' \in [Processes -> Seq(Tasks)] /\ \A pr \in Processes : QueueOK(pr)'
    BY <1>1, <2>1, QueueStays
  <2>5. Typed'
    BY <1>6, <2>1, <2>2, <2>4 DEF Inv, Typed
  <2>6. TaskOK(t)'
    BY <1>1, <1>3, <1>4, <1>6, <2>1, <2>2 DEF TaskOK, Locks, Session
  <2>7. ASSUME NEW u \in Tasks, u # t
        PROVE  TaskOK(u)'
    <3>1. Locks(u) => /\ task[u].cycle \in Cycles
                      /\ lock[task[u].cycle] \in Conns
      BY DEF Inv, Typed, Rows, TaskOK, Locks, Session
    <3>2. Locks(u) => lock'[task[u].cycle] = lock[task[u].cycle]
      BY <1>1, <2>2, <2>3, <3>1
    <3>3. QED
      BY <1>6, <2>1, <2>7, <3>2, OthersKeep
  <2>8. ASSUME NEW d \in Cycles
        PROVE  LockOK(d)'
    <3>1. CASE d = c
      BY <1>1, <1>3, <1>6, <2>1, <2>2, <3>1 DEF LockOK, Locks
    <3>2. CASE d # c
      BY <1>5, <1>6, <2>1, <2>2, <3>2, LockKeeps
    <3>3. QED
      BY <3>1, <3>2
  <2>9. QED
    BY <2>4, <2>5, <2>6, <2>7, <2>8 DEF Inv
<1>7. CASE lock[c] \notin {None, k} /\ Refused(t) /\ lock' = lock
  <2>1. /\ task' \in [Tasks -> Rows] /\ task'[t].pc = "pauses"
        /\ \A u \in Tasks : u # t => task'[u] = task[u]
    BY <1>1, <1>7 DEF Rows, Pcs, Refused
  <2>2. /\ owner' \in [Conns -> Tasks \cup {None}]
        /\ \A j \in Conns : owner'[j] = IF owner[j] = t THEN None ELSE owner[j]
    BY <1>7 DEF Inv, Typed, Refused, Released
  <2> HIDE DEF c
  <2>3. queue' \in [Processes -> Seq(Tasks)] /\ \A pr \in Processes : QueueOK(pr)'
    BY <1>1, <2>1, QueueStays
  <2>4. Typed'
    BY <1>7, <2>1, <2>2, <2>3 DEF Inv, Typed
  <2>5. TaskOK(t)'
    BY <1>1, <2>1, <2>2 DEF TaskOK, Locks, Session
  <2>6. ASSUME NEW u \in Tasks, u # t
        PROVE  TaskOK(u)'
    <3>1. \A j \in Conns : owner'[j] = u <=> owner[j] = u
      BY <1>1, <2>2, <2>6
    <3>2. QED
      BY <1>7, <2>1, <2>6, <3>1, OthersKeep
  <2>7. ASSUME NEW d \in Cycles
        PROVE  LockOK(d)'
    <3>1. lock[d] # None => owner'[lock[d]] = owner[lock[d]] /\ owner[lock[d]] # t
      BY <1>5, <2>2
    <3>2. QED
      BY <1>7, <2>1, <3>1, LockKeeps
  <2>8. QED
    BY <2>3, <2>4, <2>5, <2>6, <2>7 DEF Inv
<1>8. QED
  BY <1>3, <1>6, <1>7

LEMMA ConnectKeeps ==
    ASSUME Inv, PoolAssumption, NEW pr \in Processes, Connect(pr)
    PROVE  Inv'
<1>1. /\ queue[pr] # <<>> /\ queue' = [queue EXCEPT ![pr] = Tail(queue[pr])] /\ lock' = lock
      /\ \A u \in Tasks : u # Head(queue[pr]) => task'[u] = task[u]
  BY DEF Inv, Typed, Connect
<1>2. /\ Head(queue[pr]) \in Tasks /\ Home[Head(queue[pr])] = pr
      /\ task[Head(queue[pr])].pc \in {"asks", "more"}
      /\ queue' \in [Processes -> Seq(Tasks)] /\ \A p \in Processes : QueueOK(p)'
  BY <1>1, ServedQueue
<1>3. PICK t \in Tasks : t = Head(queue[pr])
  BY <1>2
<1>4. PICK k \in Pool(pr) :
          /\ owner[k] = None /\ owner' = [owner EXCEPT ![k] = t]
          /\ task' = [task EXCEPT ![t].pc = Served(task[t])]
  BY <1>3 DEF Connect
<1>5. /\ Home[t] = pr /\ task[t].pc \in {"asks", "more"}
      /\ \A u \in Tasks : u # t => task'[u] = task[u]
  BY <1>1, <1>2, <1>3
<1>6. k \in Conns /\ k[1] = Home[t] /\ None \notin Tasks /\ None \notin Conns
  <2>1. k \in Conns
    BY DEF Conns, Pool
  <2>2. QED
    BY <1>5, <2>1, PoolOf DEF PoolAssumption
<1>7. /\ owner' \in [Conns -> Tasks \cup {None}] /\ owner'[k] = t
      /\ \A j \in Conns : j # k => owner'[j] = owner[j]
  BY <1>4, <1>6 DEF Inv, Typed
<1>8. /\ TaskOK(t) /\ task[t] \in Rows /\ task \in [Tasks -> Rows]
      /\ Served(task[t]) \in {"nested", "has", "tries"}
  BY DEF Inv, Typed, Served
<1>9. /\ task' \in [Tasks -> Rows] /\ task'[t].pc = Served(task[t])
      /\ task'[t].cycle = task[t].cycle
  BY <1>4, <1>8 DEF Rows, Pcs
<1>10. Typed'
  BY <1>1, <1>2, <1>7, <1>9 DEF Inv, Typed
<1>11. TaskOK(t)'
  <2>1. CASE task[t].pc = "more"
    <3>1. Served(task[t]) = "nested" /\ task[t].cycle # None
      BY <1>8, <2>1 DEF Served, TaskOK
    <3>2. /\ Session(t) /\ lock[task[t].cycle] # k
          /\ \A j \in Conns : owner[j] = t => j = lock[task[t].cycle]
      BY <1>4, <1>6, <1>8, <2>1, <3>1 DEF TaskOK, Locks, Session
    <3>3. QED
      BY <1>1, <1>6, <1>7, <1>8, <1>9, <2>1, <3>1, <3>2 DEF TaskOK, Locks, Session
  <2>2. CASE task[t].pc = "asks"
    <3>1. \A j \in Conns : owner'[j] = t <=> j = k
      BY <1>6, <1>7, <1>8, <2>2 DEF TaskOK
    <3>2. \/ Served(task[t]) = "has" /\ task[t].cycle = None
          \/ Served(task[t]) = "tries" /\ task[t].cycle # None
      BY <2>2 DEF Served
    <3>3. QED
      BY <1>6, <1>9, <3>1, <3>2 DEF TaskOK, Locks, Session
  <2>3. QED
    BY <1>5, <2>1, <2>2
<1>12. ASSUME NEW u \in Tasks, u # t
       PROVE  TaskOK(u)'
  BY <1>1, <1>4, <1>5, <1>6, <1>7, <1>12, OthersKeep
<1>13. ASSUME NEW d \in Cycles
       PROVE  LockOK(d)'
  <2>1. lock[d] # None => /\ lock[d] \in Conns /\ lock[d] # k /\ Locks(owner[lock[d]])
    BY <1>4, <1>6 DEF Inv, Typed, LockOK
  <2>2. lock[d] # None /\ owner[lock[d]] = t => task'[t].pc \in {"has", "more", "nested"}
    BY <1>5, <1>9, <2>1 DEF Locks, Served
  <2>3. lock[d] # None => owner'[lock[d]] = owner[lock[d]]
    BY <1>7, <2>1
  <2>4. QED
    BY <1>1, <1>5, <1>9, <2>2, <2>3, LockKeeps
<1>14. QED
  BY <1>2, <1>10, <1>11, <1>12, <1>13 DEF Inv

LEMMA DieKeeps ==
    ASSUME Inv, PoolAssumption, NEW pr \in Processes, Die(pr)
    PROVE  Inv'
<1>1. /\ None \notin Tasks /\ None \notin Conns /\ None \notin Cycles /\ Statements \in Nat
      /\ Home \in [Tasks -> Processes]
  BY DEF PoolAssumption
<1>2. /\ owner' \in [Conns -> Tasks \cup {None}]
      /\ \A k \in Conns : owner'[k] = IF k[1] = pr THEN None ELSE owner[k]
  BY PoolOf DEF Inv, Typed, Die
<1>3. /\ task' \in [Tasks -> Rows]
      /\ \A u \in Tasks : task'[u] = IF Home[u] = pr THEN Idle ELSE task[u]
  <2>1. Idle \in Rows
    BY <1>1 DEF Idle, Rows, Pcs
  <2>2. QED
    BY <2>1 DEF Inv, Typed, Die
<1>4. /\ lock' \in [Cycles -> Conns \cup {None}]
      /\ \A d \in Cycles : lock[d] = None => lock'[d] = None
      /\ \A d \in Cycles : lock[d] # None =>
             lock'[d] = IF lock[d][1] = pr THEN None ELSE lock[d]
  BY <1>1, PoolOf DEF Inv, Typed, Die, Conns, Pool
<1>5. queue' \in [Processes -> Seq(Tasks)] /\ \A p \in Processes : QueueOK(p)'
  <2>1. /\ queue' \in [Processes -> Seq(Tasks)] /\ queue'[pr] = <<>>
        /\ \A p \in Processes : p # pr => queue'[p] = queue[p]
    BY DEF Inv, Typed, Die
  <2>2. QueueOK(pr)'
    BY <2>1 DEF QueueOK
  <2>3. ASSUME NEW p \in Processes, p # pr
        PROVE  QueueOK(p)'
    <3>1. \A i \in DOMAIN queue[p] : /\ queue[p][i] \in Tasks
                                     /\ task'[queue[p][i]] = task[queue[p][i]]
      BY <1>3, <2>3 DEF Inv, Typed, QueueOK
    <3>2. QueueOK(p) /\ queue'[p] = queue[p]
      BY <2>1, <2>3 DEF Inv
    <3>3. QED
      BY <3>1, <3>2 DEF QueueOK
  <2>4. QED
    BY <2>1, <2>2, <2>3
<1>6. Typed'
  BY <1>2, <1>3, <1>4, <1>5 DEF Typed
<1>7. ASSUME NEW u \in Tasks
      PROVE  TaskOK(u)'
  <2>1. TaskOK(u)
    BY DEF Inv
  <2>2. CASE Home[u] = pr
    <3>1. \A k \in Conns : owner'[k] # u
      BY <1>1, <1>2, <2>1, <2>2 DEF TaskOK
    <3>2. task'[u].pc = "idle"
      BY <1>3, <2>2 DEF Idle
    <3>3. QED
      BY <3>1, <3>2 DEF TaskOK, Locks, Session
  <2>3. CASE Home[u] # pr
    <3>1. task'[u] = task[u] /\ \A k \in Conns : owner'[k] = u <=> owner[k] = u
      BY <1>1, <1>2, <1>3, <2>1, <2>3 DEF TaskOK
    <3>2. Locks(u) => lock'[task[u].cycle] = lock[task[u].cycle]
      <4>1. Locks(u) => /\ task[u].cycle \in Cycles /\ lock[task[u].cycle] # None
                        /\ lock[task[u].cycle][1] = Home[u]
        BY <1>1, <2>1 DEF Inv, Typed, Rows, TaskOK, Locks, Session
      <4>2. QED
        BY <1>4, <2>3, <4>1
    <3>3. Locks(u)' <=> Locks(u)
      BY <3>1 DEF Locks
    <3>4. QED
      BY <2>1, <3>1, <3>2, <3>3 DEF TaskOK, Session, Locks
  <2>4. QED
    BY <2>2, <2>3
<1>8. ASSUME NEW d \in Cycles
      PROVE  LockOK(d)'
  <2>1. CASE lock[d] = None \/ lock[d][1] = pr
    BY <1>4, <2>1 DEF LockOK
  <2>2. CASE lock[d] # None /\ lock[d][1] # pr
    <3>1. lock'[d] = lock[d] /\ lock[d] \in Conns /\ owner'[lock[d]] = owner[lock[d]]
      BY <1>2, <1>4, <2>2 DEF Inv, Typed
    <3>2. owner[lock[d]] \in Tasks /\ Home[owner[lock[d]]] = lock[d][1] /\ LockOK(d)
      BY <2>2, <3>1 DEF Inv, LockOK, TaskOK
    <3>3. task'[owner[lock[d]]] = task[owner[lock[d]]]
      BY <1>3, <2>2, <3>2
    <3>4. QED
      BY <2>2, <3>1, <3>2, <3>3 DEF LockOK, Locks
  <2>3. QED
    BY <2>1, <2>2
<1>9. QED
  BY <1>5, <1>6, <1>7, <1>8 DEF Inv

-----------------------------------------------------------------------------
LEMMA InvStarts ==
    ASSUME PoolAssumption, Init
    PROVE  Inv
<1>1. None \notin Tasks /\ Statements \in Nat
  BY DEF PoolAssumption
<1>2. \A pr \in Processes : QueueOK(pr)
  BY DEF Init, QueueOK
<1>3. Typed
  BY <1>1 DEF Init, Typed, Rows, Pcs, Idle
<1>4. \A t \in Tasks : TaskOK(t)
  BY <1>1 DEF Init, TaskOK, Locks, Session, Idle
<1>5. QED
  BY <1>2, <1>3, <1>4 DEF Init, Inv, LockOK

LEMMA InvKept ==
    ASSUME PoolAssumption, Inv, [Next]_vars
    PROVE  Inv'
<1>1. ASSUME NEW t \in Tasks, Query(t)
      PROVE  Inv'
  <2>1. Enters(t, None)
    BY <1>1 DEF Query, Enters
  <2>2. QED
    BY <2>1, EntersKeeps
<1>2. ASSUME NEW t \in Tasks, NEW c \in Cycles, Engine(t, c)
      PROVE  Inv'
  <2>1. Enters(t, c)
    BY <1>2 DEF Engine, Enters
  <2>2. QED
    BY <2>1, EntersKeeps
<1>3. ASSUME NEW t \in Tasks, Proceeds(t)
      PROVE  Inv'
  BY <1>3, TryLockKeeps, RetryKeeps, NestKeeps, UnnestKeeps, EndKeeps DEF Proceeds
<1>4. ASSUME NEW pr \in Processes, Connect(pr) \/ Die(pr)
      PROVE  Inv'
  BY <1>4, ConnectKeeps, DieKeeps
<1>5. CASE UNCHANGED vars
  BY <1>5 DEF vars, Inv, Typed, QueueOK, TaskOK, Locks, Session, LockOK
<1>6. QED
  BY <1>1, <1>2, <1>3, <1>4, <1>5 DEF Next

THEOREM PoolInv == Spec => []Inv
<1>1. PoolAssumption
  BY PoolAssumption
<1>2. Init => Inv
  BY <1>1, InvStarts
<1>3. Inv /\ [Next]_vars => Inv'
  BY <1>1, InvKept
<1>4. QED
  BY <1>2, <1>3, PTL DEF Spec

\* Connections and locks have holders of their kind, and who is in a queue waits.
THEOREM TypeCorrect == Spec => []TypeOK
<1>1. Inv => TypeOK
  BY DEF Inv, Typed, Rows, QueueOK, TypeOK
<1>2. QED
  BY <1>1, PoolInv, PTL

\* No throw and no crash leaves a cycle's lock in a pool (withCycleLock's finally).
THEOREM LocksHaveSessions == Spec => []LockHasSession
<1>1. PoolAssumption
  BY PoolAssumption
<1>2. Inv => LockHasSession
  BY <1>1 DEF Inv, LockOK, Locks, LockHasSession, PoolAssumption
<1>3. QED
  BY <1>2, PoolInv, PTL

\* With more connections than cycles a pool is never held by its own waiters alone: each
\* of those has one connection, its cycle's lock, and two of them have two cycles.
THEOREM PoolNeverStuck == Spec => []PoolMoves
<1>1. PoolAssumption /\ FewCycles
  BY PoolAssumption, FewCycles
<1>2. ASSUME Inv, NEW pr \in Processes,
             \A k \in Pool(pr) : owner[k] # None /\ task[owner[k]].pc = "more"
      PROVE  FALSE
  <2> DEFINE cycleOf == [n \in 1..Max |-> task[owner[<<pr, n>>]].cycle]
  <2>1. ASSUME NEW n \in 1..Max
        PROVE  /\ cycleOf[n] \in Cycles
               /\ lock[cycleOf[n]] = <<pr, n>>
    <3>1. <<pr, n>> \in Conns /\ <<pr, n>> \in Pool(pr)
      BY <2>1 DEF Conns, Pool
    <3>2. /\ owner[<<pr, n>>] \in Tasks /\ task[owner[<<pr, n>>]] \in Rows
          /\ task[owner[<<pr, n>>]].pc = "more" /\ TaskOK(owner[<<pr, n>>])
      BY <1>2, <3>1 DEF Inv, Typed
    <3>3. task[owner[<<pr, n>>]].cycle \in Cycles
      BY <3>2 DEF Rows, TaskOK
    <3>4. lock[task[owner[<<pr, n>>]].cycle] = <<pr, n>>
      BY <3>1, <3>2 DEF TaskOK, Locks
    <3>5. QED
      BY <3>3, <3>4
  <2> HIDE DEF cycleOf
  <2>2. IsFiniteSet(1..Max) /\ Cardinality(1..Max) = Max
    BY <1>1, FS_Interval DEF FewCycles
  <2>3. cycleOf \in [1..Max -> Cycles]
    BY <2>1 DEF cycleOf
  <2>4. \E m, n \in 1..Max : m # n /\ cycleOf[m] = cycleOf[n]
    BY <1>1, <2>2, <2>3, FS_PigeonHole DEF FewCycles
  <2>5. QED
    BY <2>1, <2>4
<1>3. Inv => PoolMoves
  BY <1>2 DEF PoolMoves
<1>4. QED
  BY <1>3, PoolInv, PTL

-----------------------------------------------------------------------------
(* Nobody is forgotten: neither by a queue nor without a connection.        *)

Stands(t) == \E i \in DOMAIN queue[Home[t]] : queue[Home[t]][i] = t

Supplied(t) ==
    /\ task[t].pc \in {"asks", "more"} => Stands(t)
    /\ task[t].pc \in {"tries", "has"} => \E k \in Conns : owner[k] = t
    /\ task[t].pc = "nested" => \E k \in Conns : owner[k] = t /\ k # lock[task[t].cycle]

AllSupplied == \A t \in Tasks : Supplied(t)

LEMMA AskedStands ==
    ASSUME Inv, PoolAssumption, NEW t \in Tasks, Asks(t)
    PROVE  Stands(t)' /\ \A u \in Tasks : Stands(u) => Stands(u)'
<1> DEFINE q == queue[Home[t]]
<1>1. /\ Home \in [Tasks -> Processes] /\ queue \in [Processes -> Seq(Tasks)]
      /\ q \in Seq(Tasks) /\ queue' = [queue EXCEPT ![Home[t]] = Append(q, t)]
  BY DEF PoolAssumption, Inv, Typed, Asks
<1>2. /\ queue'[Home[t]] = Append(q, t) /\ Len(q) \in Nat /\ DOMAIN q = 1..Len(q)
      /\ DOMAIN Append(q, t) = 1..(Len(q) + 1) /\ Append(q, t)[Len(q) + 1] = t
      /\ \A i \in 1..Len(q) : Append(q, t)[i] = q[i]
  BY <1>1
<1>3. \A pr \in Processes : pr # Home[t] => queue'[pr] = queue[pr]
  BY <1>1
<1> HIDE DEF q
<1>4. Stands(t)'
  BY <1>2 DEF Stands
<1>5. ASSUME NEW u \in Tasks, Stands(u)
      PROVE  Stands(u)'
  <2>1. CASE Home[u] = Home[t]
    <3>1. PICK i \in DOMAIN q : q[i] = u
      BY <1>5, <2>1 DEF Stands, q
    <3>2. i \in DOMAIN queue'[Home[t]] /\ queue'[Home[t]][i] = u
      BY <1>2, <3>1
    <3>3. QED
      BY <2>1, <3>2 DEF Stands
  <2>2. CASE Home[u] # Home[t]
    BY <1>1, <1>3, <1>5, <2>2 DEF Stands
  <2>3. QED
    BY <2>1, <2>2
<1>6. QED
  BY <1>4, <1>5

LEMMA ServedStands ==
    ASSUME Inv, PoolAssumption, NEW pr \in Processes, queue[pr] # <<>>,
           queue' = [queue EXCEPT ![pr] = Tail(queue[pr])],
           NEW u \in Tasks, u # Head(queue[pr]), Stands(u)
    PROVE  Stands(u)'
<1> DEFINE q == queue[pr]
<1>1. /\ queue \in [Processes -> Seq(Tasks)] /\ q \in Seq(Tasks) /\ q # <<>>
      /\ Home \in [Tasks -> Processes]
  BY DEF PoolAssumption, Inv, Typed
<1>2. /\ Len(q) \in Nat /\ Len(q) > 0 /\ DOMAIN q = 1..Len(q) /\ Head(q) = q[1]
      /\ DOMAIN Tail(q) = 1..(Len(q) - 1)
      /\ \A i \in 1..(Len(q) - 1) : Tail(q)[i] = q[i + 1]
      /\ queue'[pr] = Tail(q)
  BY <1>1
<1>3. CASE Home[u] = pr
  <2> HIDE DEF q
  <2>1. PICK i \in 1..Len(q) : q[i] = u
    BY <1>2, <1>3 DEF Stands, q
  <2>2. i - 1 \in 1..(Len(q) - 1) /\ u # q[1]
    BY <1>2, <2>1 DEF q
  <2>3. Tail(q)[i - 1] = u
    BY <1>2, <2>1, <2>2
  <2>4. QED
    BY <1>2, <1>3, <2>2, <2>3 DEF Stands
<1>4. CASE Home[u] # pr
  BY <1>1, <1>4 DEF Stands
<1>5. QED
  BY <1>3, <1>4

\* What a step leaves alone stays supplied.
LEMMA OthersSupplied ==
    ASSUME NEW u \in Tasks, Supplied(u), task'[u] = task[u],
           \A k \in Conns : owner[k] = u => owner'[k] = u,
           task[u].pc = "nested" => lock'[task[u].cycle] = lock[task[u].cycle],
           Stands(u) => Stands(u)'
    PROVE  Supplied(u)'
<1>1. /\ task'[u].pc \in {"asks", "more"} => Stands(u)'
      /\ task'[u].pc \in {"tries", "has"} => \E k \in Conns : owner'[k] = u
      /\ task'[u].pc = "nested" => \E k \in Conns : owner'[k] = u /\ k # lock'[task'[u].cycle]
  BY DEF Supplied
<1>2. QED
  BY <1>1 DEF Supplied

LEMMA AsksSupplied ==
    ASSUME Inv, PoolAssumption, AllSupplied, NEW t \in Tasks, Asks(t),
           task'[t].pc \in {"asks", "more"}, UNCHANGED <<owner, lock>>,
           \A u \in Tasks : u # t => task'[u] = task[u]
    PROVE  AllSupplied'
<1>1. Stands(t)' /\ \A u \in Tasks : Stands(u) => Stands(u)'
  BY AskedStands
<1>2. Supplied(t)'
  BY <1>1 DEF Supplied
<1>3. ASSUME NEW u \in Tasks, u # t
      PROVE  Supplied(u)'
  BY <1>1, <1>3, OthersSupplied DEF AllSupplied
<1>4. QED
  BY <1>2, <1>3 DEF AllSupplied

LEMMA TryLockSupplied ==
    ASSUME Inv, PoolAssumption, AllSupplied, NEW t \in Tasks, TryLock(t)
    PROVE  AllSupplied'
<1> DEFINE c == task[t].cycle
<1>1. /\ task[t].pc = "tries" /\ queue' = queue /\ task \in [Tasks -> Rows]
      /\ None \notin Tasks
  BY DEF Inv, Typed, TryLock, PoolAssumption
<1>2. PICK k \in Conns :
          /\ owner[k] = t
          /\ \/ /\ lock[c] \in {None, k} /\ lock' = [lock EXCEPT ![c] = k]
                /\ task' = [task EXCEPT ![t].pc = "has"] /\ owner' = owner
             \/ lock[c] \notin {None, k} /\ Refused(t) /\ lock' = lock
  BY DEF TryLock
<1>3. \A u \in Tasks : u # t => task'[u] = task[u]
  BY <1>1, <1>2 DEF Refused
<1>4. ASSUME NEW u \in Tasks, u # t, NEW j \in Conns, owner[j] = u
      PROVE  owner'[j] = u
  BY <1>2, <1>4 DEF Inv, Typed, Refused, Released
<1>5. ASSUME NEW u \in Tasks, u # t, task[u].pc = "nested"
      PROVE  lock'[task[u].cycle] = lock[task[u].cycle]
  <2>1. /\ task[u].cycle \in Cycles /\ lock[task[u].cycle] # None
        /\ owner[lock[task[u].cycle]] = u /\ lock \in [Cycles -> Conns \cup {None}]
    <3>1. TaskOK(u) /\ task[u] \in Rows /\ None \notin Conns
      BY DEF Inv, Typed, PoolAssumption
    <3>2. task[u].cycle \in Cycles
      BY <1>5, <3>1 DEF TaskOK, Rows
    <3>3. Session(u)
      BY <1>5, <3>1, <3>2 DEF TaskOK, Locks
    <3>4. QED
      BY <3>1, <3>2, <3>3 DEF Session, Inv, Typed
  <2>2. CASE task[u].cycle = c
    BY <1>2, <1>5, <2>1, <2>2
  <2>3. CASE task[u].cycle # c
    BY <1>2, <2>1, <2>3
  <2>4. QED
    BY <2>2, <2>3
<1>6. ASSUME NEW u \in Tasks, u # t
      PROVE  Supplied(u)'
  <2>1. Stands(u) => Stands(u)'
    BY <1>1 DEF Stands
  <2>2. QED
    BY <1>3, <1>4, <1>5, <1>6, <2>1, OthersSupplied DEF AllSupplied
<1>7. Supplied(t)'
  <2>1. \/ task'[t].pc = "has" /\ owner'[k] = t
        \/ task'[t].pc = "pauses"
    BY <1>1, <1>2 DEF Refused, Rows
  <2>2. QED
    BY <2>1 DEF Supplied
<1>8. QED
  BY <1>6, <1>7 DEF AllSupplied

LEMMA UnnestSupplied ==
    ASSUME Inv, PoolAssumption, AllSupplied, NEW t \in Tasks, Unnest(t)
    PROVE  AllSupplied'
<1>1. /\ task[t].pc = "nested" /\ queue' = queue /\ lock' = lock
      /\ task' = [task EXCEPT ![t].pc = "has"] /\ task \in [Tasks -> Rows]
      /\ owner \in [Conns -> Tasks \cup {None}] /\ TaskOK(t) /\ task[t].cycle \in Cycles
  <2>1. TaskOK(t) /\ task[t] \in Rows /\ task[t].pc = "nested"
    BY DEF Inv, Typed, Unnest
  <2>2. task[t].cycle \in Cycles
    BY <2>1 DEF TaskOK, Rows
  <2>3. QED
    BY <2>1, <2>2 DEF Inv, Typed, Unnest
<1>2. PICK k \in Conns : /\ owner[k] = t /\ \A c \in Cycles : lock[c] # k
                         /\ owner' = [owner EXCEPT ![k] = None]
  BY DEF Unnest
<1>3. Supplied(t)'
  <2>1. lock[task[t].cycle] \in Conns /\ owner[lock[task[t].cycle]] = t
    BY <1>1 DEF TaskOK, Locks, Session, Inv, PoolAssumption
  <2>2. lock[task[t].cycle] # k
    BY <1>1, <1>2
  <2>3. owner'[lock[task[t].cycle]] = t
    BY <1>1, <1>2, <2>1, <2>2
  <2>4. task'[t].pc = "has"
    BY <1>1
  <2>5. QED
    BY <2>1, <2>3, <2>4 DEF Supplied
<1>4. ASSUME NEW u \in Tasks, u # t
      PROVE  Supplied(u)'
  <2>1. task'[u] = task[u]
    BY <1>1, <1>4
  <2>2. \A j \in Conns : owner[j] = u => owner'[j] = u
    BY <1>1, <1>2, <1>4
  <2>3. Stands(u) => Stands(u)'
    BY <1>1 DEF Stands
  <2>4. QED
    BY <1>1, <2>1, <2>2, <2>3, OthersSupplied DEF AllSupplied
<1>5. QED
  BY <1>3, <1>4 DEF AllSupplied

LEMMA EndSupplied ==
    ASSUME Inv, PoolAssumption, AllSupplied, NEW t \in Tasks, End(t)
    PROVE  AllSupplied'
<1>1. /\ task[t].pc = "has" /\ queue' = queue /\ task \in [Tasks -> Rows]
      /\ task' = [task EXCEPT ![t] = Idle] /\ None \notin Conns /\ None \notin Cycles
  BY DEF Inv, Typed, End, PoolAssumption
<1>2. Supplied(t)'
  BY <1>1 DEF Supplied, Idle
<1>3. ASSUME NEW u \in Tasks, u # t
      PROVE  Supplied(u)'
  <2>1. task'[u] = task[u] /\ (Stands(u) => Stands(u)')
    BY <1>1, <1>3 DEF Stands
  <2>2. \A j \in Conns : owner[j] = u => owner'[j] = u
    BY <1>3 DEF End, Released
  <2>3. ASSUME task[u].pc = "nested"
        PROVE  lock'[task[u].cycle] = lock[task[u].cycle]
    <3>1. TaskOK(u) /\ TaskOK(t) /\ task[u] \in Rows
      BY DEF Inv, Typed
    <3>2. task[u].cycle \in Cycles /\ Session(u)
      BY <2>3, <3>1 DEF TaskOK, Locks, Rows
    <3>3. task[t].cycle # task[u].cycle
      BY <1>1, <1>3, <3>1, <3>2 DEF TaskOK, Locks, Session
    <3>4. QED
      BY <3>2, <3>3 DEF End, Unlocked
  <2>4. QED
    BY <2>1, <2>2, <2>3, OthersSupplied DEF AllSupplied
<1>4. QED
  BY <1>2, <1>3 DEF AllSupplied

LEMMA ConnectSupplied ==
    ASSUME Inv, PoolAssumption, AllSupplied, NEW pr \in Processes, Connect(pr)
    PROVE  AllSupplied'
<1>1. /\ queue[pr] # <<>> /\ queue' = [queue EXCEPT ![pr] = Tail(queue[pr])] /\ lock' = lock
      /\ \A u \in Tasks : u # Head(queue[pr]) => task'[u] = task[u]
  BY DEF Inv, Typed, Connect
<1>2. Head(queue[pr]) \in Tasks /\ task[Head(queue[pr])].pc \in {"asks", "more"}
  BY <1>1, ServedQueue
<1>3. PICK t \in Tasks : t = Head(queue[pr])
  BY <1>2
<1>4. PICK k \in Pool(pr) :
          /\ owner[k] = None /\ owner' = [owner EXCEPT ![k] = t]
          /\ task' = [task EXCEPT ![t].pc = Served(task[t])]
  BY <1>3 DEF Connect
<1>5. /\ k \in Conns /\ None \notin Tasks /\ None \notin Conns
      /\ owner \in [Conns -> Tasks \cup {None}] /\ task \in [Tasks -> Rows]
      /\ TaskOK(t) /\ task[t] \in Rows
  BY DEF Conns, Pool, Inv, Typed, PoolAssumption
<1>6. owner'[k] = t /\ task'[t].pc = Served(task[t]) /\ task'[t].cycle = task[t].cycle
  BY <1>4, <1>5 DEF Rows
<1>7. Supplied(t)'
  <2>1. CASE task[t].pc = "more"
    <3>1. Served(task[t]) = "nested" /\ task[t].cycle # None
      BY <1>5, <2>1 DEF Served, TaskOK
    <3>2. lock[task[t].cycle] # k
      BY <1>4, <1>5, <2>1, <3>1 DEF TaskOK, Locks, Session
    <3>3. QED
      BY <1>1, <1>5, <1>6, <3>1, <3>2 DEF Supplied
  <2>2. CASE task[t].pc = "asks"
    <3>1. Served(task[t]) \in {"has", "tries"}
      BY <2>2 DEF Served
    <3>2. QED
      BY <1>5, <1>6, <3>1 DEF Supplied
  <2>3. QED
    BY <1>2, <1>3, <2>1, <2>2
<1>8. ASSUME NEW u \in Tasks, u # t
      PROVE  Supplied(u)'
  <2>1. task'[u] = task[u] /\ \A j \in Conns : owner[j] = u => owner'[j] = u
    BY <1>1, <1>3, <1>4, <1>5, <1>8
  <2>2. Stands(u) => Stands(u)'
    BY <1>1, <1>3, <1>8, ServedStands
  <2>3. QED
    BY <1>1, <2>1, <2>2, OthersSupplied DEF AllSupplied
<1>9. QED
  BY <1>7, <1>8 DEF AllSupplied

LEMMA DieSupplied ==
    ASSUME Inv, PoolAssumption, AllSupplied, NEW pr \in Processes, Die(pr)
    PROVE  AllSupplied'
<1>1. Home \in [Tasks -> Processes] /\ None \notin Conns
  BY DEF PoolAssumption
<1>2. ASSUME NEW u \in Tasks, Home[u] = pr
      PROVE  Supplied(u)'
  <2>1. task'[u].pc = "idle"
    BY <1>2 DEF Die, Idle
  <2>2. QED
    BY <2>1 DEF Supplied
<1>3. ASSUME NEW u \in Tasks, Home[u] # pr
      PROVE  Supplied(u)'
  <2>1. task'[u] = task[u] /\ TaskOK(u) /\ task[u] \in Rows
    BY <1>3 DEF Die, Inv, Typed
  <2>2. ASSUME NEW j \in Conns, owner[j] = u
        PROVE  owner'[j] = u
    BY <1>3, <2>1, <2>2, PoolOf DEF TaskOK, Die
  <2>3. ASSUME task[u].pc = "nested"
        PROVE  lock'[task[u].cycle] = lock[task[u].cycle]
    <3>1. task[u].cycle \in Cycles /\ Session(u)
      BY <2>1, <2>3 DEF TaskOK, Locks, Rows
    <3>2. lock[task[u].cycle] \notin Pool(pr)
      BY <1>3, <2>1, <3>1, PoolOf DEF TaskOK, Session
    <3>3. QED
      BY <3>1, <3>2 DEF Die
  <2>4. Stands(u) => Stands(u)'
    <3>1. queue'[Home[u]] = queue[Home[u]]
      BY <1>1, <1>3 DEF Die, Inv, Typed
    <3>2. QED
      BY <3>1 DEF Stands
  <2>5. QED
    BY <2>1, <2>2, <2>3, <2>4, OthersSupplied DEF AllSupplied
<1>4. QED
  BY <1>2, <1>3 DEF AllSupplied

LEMMA AllSuppliedKept ==
    ASSUME PoolAssumption, Inv, AllSupplied, [Next]_vars
    PROVE  AllSupplied'
<1>1. task \in [Tasks -> Rows]
  BY DEF Inv, Typed
<1>2. ASSUME NEW t \in Tasks, NEW c \in Cycles \cup {None}, Enters(t, c)
      PROVE  AllSupplied'
  <2>1. task'[t].pc = "asks" /\ \A u \in Tasks : u # t => task'[u] = task[u]
    BY <1>1, <1>2 DEF Enters
  <2>2. QED
    BY <1>2, <2>1, AsksSupplied DEF Enters
<1>3. ASSUME NEW t \in Tasks, Query(t)
      PROVE  AllSupplied'
  BY <1>2, <1>3 DEF Query, Enters
<1>4. ASSUME NEW t \in Tasks, NEW c \in Cycles, Engine(t, c)
      PROVE  AllSupplied'
  BY <1>2, <1>4 DEF Engine, Enters
<1>5. ASSUME NEW t \in Tasks, Retry(t)
      PROVE  AllSupplied'
  <2>1. task'[t].pc = "asks" /\ \A u \in Tasks : u # t => task'[u] = task[u]
    BY <1>1, <1>5 DEF Retry, Rows
  <2>2. QED
    BY <1>5, <2>1, AsksSupplied DEF Retry
<1>6. ASSUME NEW t \in Tasks, Nest(t)
      PROVE  AllSupplied'
  <2>1. task'[t].pc = "more" /\ \A u \in Tasks : u # t => task'[u] = task[u]
    BY <1>1, <1>6 DEF Nest, Rows
  <2>2. QED
    BY <1>6, <2>1, AsksSupplied DEF Nest
<1>7. ASSUME NEW t \in Tasks, Proceeds(t)
      PROVE  AllSupplied'
  BY <1>5, <1>6, <1>7, TryLockSupplied, UnnestSupplied, EndSupplied DEF Proceeds
<1>8. ASSUME NEW pr \in Processes, Connect(pr) \/ Die(pr)
      PROVE  AllSupplied'
  BY <1>8, ConnectSupplied, DieSupplied
<1>9. CASE UNCHANGED vars
  BY <1>9 DEF vars, AllSupplied, Supplied, Stands
<1>10. QED
  BY <1>3, <1>4, <1>7, <1>8, <1>9 DEF Next

\* Who waits for a connection stands in its process's queue, and who goes on has the
\* connection it goes on with, whatever died, was refused or went back in between.
THEOREM NobodyLost == Spec => []NobodyForgotten
<1>1. PoolAssumption
  BY PoolAssumption
<1>2. Init => AllSupplied
  BY DEF Init, AllSupplied, Supplied, Idle
<1>3. Inv /\ AllSupplied /\ [Next]_vars => AllSupplied'
  BY <1>1, AllSuppliedKept
<1>4. ASSUME Inv, AllSupplied
      PROVE  NobodyForgotten
  <2>1. ASSUME NEW t \in Tasks, task[t].pc = "nested"
        PROVE  \E k \in Conns : owner[k] = t /\ \A c \in Cycles : lock[c] # k
    <3>1. PICK k \in Conns : owner[k] = t /\ k # lock[task[t].cycle]
      BY <1>4, <2>1 DEF AllSupplied, Supplied
    <3>2. ASSUME NEW c \in Cycles, lock[c] = k
          PROVE  FALSE
      BY <1>1, <1>4, <3>1, <3>2 DEF Inv, LockOK, PoolAssumption
    <3>3. QED
      BY <3>1, <3>2
  <2>2. QED
    BY <1>4, <2>1 DEF AllSupplied, Supplied, Stands, NobodyForgotten
<1>5. QED
  BY <1>2, <1>3, <1>4, PoolInv, PTL DEF Spec

-----------------------------------------------------------------------------
(* The holder of a cycle's lock has only so much left to do.                *)

\* t is left alone, or has less to do.
Nearer(t) == task'[t] = task[t] \/ RunLeft(t)' < RunLeft(t)

LEMMA TaskNearer ==
    ASSUME Inv, PoolAssumption, NEW t \in Tasks, Nest(t) \/ Unnest(t)
    PROVE  RunLeft(t)' < RunLeft(t)
<1>1. task \in [Tasks -> Rows] /\ task[t] \in Rows /\ task[t].todo \in Int
  BY DEF Inv, Typed, Rows, PoolAssumption
<1>2. CASE Nest(t)
  <2>1. /\ task[t].pc = "has" /\ task'[t].pc = "more" /\ task'[t].todo = task[t].todo - 1
    BY <1>1, <1>2 DEF Nest, Nests, Rows
  <2>2. QED
    BY <1>1, <2>1 DEF RunLeft
<1>3. CASE Unnest(t)
  <2>1. /\ task[t].pc = "nested" /\ task'[t].pc = "has" /\ task'[t].todo = task[t].todo
    BY <1>1, <1>3 DEF Unnest, Rows
  <2>2. QED
    BY <1>1, <2>1 DEF RunLeft
<1>4. QED
  BY <1>2, <1>3

LEMMA ServedNearer ==
    ASSUME Inv, PoolAssumption, NEW pr \in Processes, Connect(pr), NEW t \in Tasks, Locks(t)
    PROVE  Nearer(t)
<1>1. task \in [Tasks -> Rows] /\ task[t] \in Rows /\ task[t].todo \in Int
  BY DEF Inv, Typed, Rows, PoolAssumption
<1>2. /\ queue[pr] # <<>> /\ queue' = [queue EXCEPT ![pr] = Tail(queue[pr])]
      /\ \A u \in Tasks : u # Head(queue[pr]) => task'[u] = task[u]
      /\ task' = [task EXCEPT ![Head(queue[pr])].pc = Served(task[Head(queue[pr])])]
  BY DEF Inv, Typed, Connect
<1>3. task[Head(queue[pr])].pc \in {"asks", "more"}
  BY <1>2, ServedQueue
<1>4. CASE t = Head(queue[pr])
  <2>1. task[t].pc = "more" /\ Served(task[t]) = "nested"
    BY <1>3, <1>4 DEF Locks, Served
  <2>2. task'[t].pc = "nested" /\ task'[t].todo = task[t].todo
    BY <1>1, <1>2, <1>4, <2>1 DEF Rows
  <2>3. QED
    BY <1>1, <2>1, <2>2 DEF RunLeft, Nearer
<1>5. QED
  BY <1>2, <1>4 DEF Nearer

LEMMA HolderKept ==
    ASSUME Inv, PoolAssumption, [Next]_vars, NEW c \in Cycles, NEW t \in Tasks,
           lock[c] # None, lock'[c] = lock[c], owner[lock[c]] = t
    PROVE  owner'[lock[c]] = t /\ Nearer(t)
<1>1. /\ task[t].cycle = c /\ Locks(t) /\ lock[c] \in Conns /\ TaskOK(t)
      /\ None \notin Tasks /\ None \notin Conns
      /\ owner \in [Conns -> Tasks \cup {None}] /\ task \in [Tasks -> Rows]
      /\ lock[c][1] = Home[t]
  <2>1. lock[c] \in Conns /\ task[t].cycle = c /\ Locks(t) /\ TaskOK(t)
    BY DEF Inv, Typed, LockOK
  <2>2. QED
    BY <2>1 DEF Inv, Typed, TaskOK, PoolAssumption
<1>2. task[t].pc \in {"has", "more", "nested"}
  BY <1>1 DEF Locks
<1>3. ASSUME NEW u \in Tasks, NEW d \in Cycles, Query(u) \/ Engine(u, d) \/ Retry(u)
      PROVE  owner'[lock[c]] = t /\ task'[t] = task[t]
  BY <1>1, <1>2, <1>3 DEF Query, Engine, Retry
<1>4. ASSUME NEW u \in Tasks, TryLock(u)
      PROVE  owner'[lock[c]] = t /\ task'[t] = task[t]
  <2>1. u # t
    BY <1>2, <1>4 DEF TryLock
  <2>2. /\ task' = [task EXCEPT ![u].pc = "has"] \/ task' = [task EXCEPT ![u].pc = "pauses"]
        /\ owner' = owner \/ owner' = Released(u)
    BY <1>4 DEF TryLock, Refused
  <2>3. QED
    BY <1>1, <2>1, <2>2 DEF Released
<1>5. ASSUME NEW u \in Tasks, Nest(u) \/ Unnest(u)
      PROVE  owner'[lock[c]] = t /\ Nearer(t)
  <2>1. owner'[lock[c]] = t
    BY <1>1, <1>5 DEF Nest, Unnest
  <2>2. u # t => task'[t] = task[t]
    BY <1>1, <1>5 DEF Nest, Unnest
  <2>3. u = t => RunLeft(t)' < RunLeft(t)
    BY <1>5, TaskNearer
  <2>4. QED
    BY <2>1, <2>2, <2>3 DEF Nearer
<1>6. ASSUME NEW u \in Tasks, End(u)
      PROVE  owner'[lock[c]] = t /\ task'[t] = task[t]
  <2>1. u # t
    BY <1>1, <1>6 DEF End, Unlocked
  <2>2. QED
    BY <1>1, <1>6, <2>1 DEF End, Released
<1>7. ASSUME NEW pr \in Processes, Connect(pr)
      PROVE  owner'[lock[c]] = t /\ Nearer(t)
  <2>1. owner'[lock[c]] = t
    BY <1>1, <1>7 DEF Connect
  <2>2. QED
    BY <1>1, <1>7, <2>1, ServedNearer
<1>8. ASSUME NEW pr \in Processes, Die(pr)
      PROVE  owner'[lock[c]] = t /\ task'[t] = task[t]
  <2>1. lock[c] \notin Pool(pr)
    BY <1>1, <1>8 DEF Die
  <2>2. Home[t] # pr
    BY <1>1, <1>8, <2>1, PoolOf
  <2>3. QED
    BY <1>1, <1>8, <2>1, <2>2 DEF Die
<1>9. CASE UNCHANGED vars
  BY <1>9 DEF vars, Nearer
<1>10. QED
  BY <1>3, <1>4, <1>5, <1>6, <1>7, <1>8, <1>9 DEF Next, Proceeds, Nearer

\* No step, of whomever, gives the holder of a cycle's lock more to do: by way of at most
\* three steps for each of its statements it comes to the unlock, or its process dies.
THEOREM HoldersOnlyCountDown == Spec => HoldersCountDown
<1>1. PoolAssumption
  BY PoolAssumption
<1>2. Inv /\ [Next]_vars =>
          [\A c \in Cycles, t \in Tasks :
               lock[c] # None /\ lock'[c] = lock[c] /\ owner[lock[c]] = t =>
                   /\ owner'[lock[c]] = t
                   /\ task'[t] = task[t] \/ RunLeft(t)' < RunLeft(t)]_vars
  BY <1>1, HolderKept DEF Nearer
<1>3. QED
  BY <1>2, PoolInv, PTL DEF Spec, HoldersCountDown
=============================================================================
