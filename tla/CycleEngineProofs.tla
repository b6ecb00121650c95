------------------------- MODULE CycleEngineProofs -------------------------
(***************************************************************************)
(* What holds of CycleEngine for every number of applications, handlers,   *)
(* edges, inputs and faults.  The inductive invariant IInv adds to the     *)
(* type and the mutual exclusion of runs that a run which is scoring has   *)
(* read at least what any stored flag was computed from.  On it stands a   *)
(* second one, Follow: whenever what is stored is not that of the cycle as *)
(* it stands, somebody is still to read the cycle, or has read it as it    *)
(* stands and is writing, or a rescore was lost and is owed.               *)
(***************************************************************************)
EXTENDS CycleEngine, FiniteSetTheorems, TLAPS

Scoring == {"evaluate", "write"}

\* A stored flag was computed from evidence that exists, and an application's flags
\* from one reading of it.
FlagsKnown ==
    \A a \in Apps : \A f \in flags[a] :
        /\ f[2] <= evidence[f[1]]
        /\ \A g \in flags[a] : f[1] = g[1] => f[2] = g[2]

\* What a scoring run read is current or older, but no flag is newer than it.
SeenCovers ==
    \A p \in Procs : proc[p].pc \in Scoring =>
        \A b \in Apps : proc[p].seen[b] # Absent =>
            /\ proc[p].seen[b] <= evidence[b]
            /\ \A a \in Apps : \A f \in flags[a] : f[1] = b => f[2] <= proc[p].seen[b]

IInv == TypeOK /\ RunsExclusive /\ FlagsKnown /\ SeenCovers

-----------------------------------------------------------------------------
(* Operators.                                                              *)

LEMMA RestingType ==
    ASSUME NEW pc \in Pcs
    PROVE  Resting(pc) \in Local
BY DEF Resting, Local, Nothing

LEMMA SnapshotType ==
    ASSUME TypeOK
    PROVE  /\ Snapshot \in [Apps -> Nat \cup {Absent}]
           /\ \A b \in Apps : Snapshot[b] # Absent => Snapshot[b] = evidence[b]
BY DEF TypeOK, Snapshot, Absent

\* The flags of an application speak of seen applications, as they were seen.
LEMMA FindingsSpeak ==
    ASSUME NEW seen \in [Apps -> Nat \cup {Absent}], NEW barred, NEW a \in Apps
    PROVE  /\ Findings(a, seen, barred) \in SUBSET (Apps \X Nat \X {"within", "across"})
           /\ \A f \in Findings(a, seen, barred) :
                 f[1] \in Apps /\ seen[f[1]] # Absent /\ f[2] = seen[f[1]]
<1> DEFINE siblings == Component(a, Seen(seen), barred)
           told(b) == <<b, seen[b], IF b \in siblings THEN "within" ELSE "across">>
<1>1. ASSUME NEW f \in Findings(a, seen, barred)
      PROVE  \E b \in Seen(seen) : f = told(b)
  BY <1>1 DEF Findings
<1>2. ASSUME NEW b \in Seen(seen)
      PROVE  /\ told(b) \in Apps \X Nat \X {"within", "across"}
             /\ told(b)[1] \in Apps /\ seen[told(b)[1]] # Absent /\ told(b)[2] = seen[told(b)[1]]
  BY <1>2 DEF Seen
<1>3. QED
  BY <1>1, <1>2

LEMMA MembershipType ==
    ASSUME NEW seen, NEW barred
    PROVE  Membership(seen, barred) \in [Apps -> SUBSET Apps]
BY DEF Membership, Component, Seen

LEMMA RescoreType ==
    ASSUME NEW p \in Procs, NEW seen, NEW barred
    PROVE  RescoreList(p, seen, barred) \in SUBSET Apps
BY DEF RescoreList, Seen, Component, Procs

-----------------------------------------------------------------------------
(* How a step moves the processes.                                         *)

\* Process p goes from where it is to a state of the given kind.
LEMMA Moves ==
    ASSUME TypeOK, NEW p \in Procs, NEW l \in Local,
           proc' = [proc EXCEPT ![p] = l]
    PROVE  /\ proc' \in [Procs -> Local]
           /\ proc'[p] = l
           /\ \A q \in Procs : q # p => proc'[q] = proc[q]
BY DEF TypeOK

-----------------------------------------------------------------------------
(* Type correctness.                                                       *)

LEMMA TypeInit == Init => TypeOK
<1> SUFFICES ASSUME Init PROVE TypeOK
  OBVIOUS
<1>1. proc \in [Procs -> Local]
  BY RestingType DEF Init, Pcs
<1>2. QED
  BY <1>1, EngineAssumption DEF Init, TypeOK

LEMMA HandleType ==
    ASSUME TypeOK, NEW h \in Handlers, Handle(h)
    PROVE  /\ proc' \in [Procs -> Local]
           /\ lock' \in Procs \cup {None} /\ owed' \in BOOLEAN
           /\ left' \in Limits
<1>1. h \in Procs /\ Resting("resolve") \in Local
  BY RestingType DEF Procs, Pcs
<1>2. QED
  BY <1>1, Moves DEF Handle, Change, Limits, TypeOK

LEMMA InputType ==
    ASSUME TypeOK,
           \/ \E a \in Apps : Submit(a) \/ ReadDocument(a) \/ Decide(a)
           \/ \E h \in Handlers :
                 \/ \E a \in Apps : Confirm(h, a) \/ RecordVerification(h, a) \/ Trash(h, a)
                 \/ \E e \in LinkEdges : RejectEdge(h, e) \/ RestoreEdge(h, e)
    PROVE  TypeOK'
<1>1. ASSUME NEW a \in Apps, Submit(a) PROVE TypeOK'
  <2>1. a \in Procs /\ Resting("read") \in Local
    BY RestingType DEF Procs, Pcs
  <2>2. proc' \in [Procs -> Local]
    BY <1>1, <2>1, Moves DEF Submit
  <2>3. QED
    BY <1>1, <2>2 DEF Submit, Limits, TypeOK, stored
<1>2. ASSUME NEW a \in Apps, ReadDocument(a) PROVE TypeOK'
  <2>1. a \in Procs /\ Resting("resolve") \in Local
    BY RestingType DEF Procs, Pcs
  <2>2. proc' \in [Procs -> Local]
    BY <1>2, <2>1, Moves DEF ReadDocument
  <2>3. QED
    BY <1>2, <2>2 DEF ReadDocument, TypeOK, stored, bounds
<1>3. ASSUME NEW a \in Apps, Decide(a) PROVE TypeOK'
  BY <1>3 DEF Decide, Change, Limits, TypeOK, stored
<1>4. ASSUME NEW h \in Handlers, NEW a \in Apps, Confirm(h, a) PROVE TypeOK'
  BY <1>4, HandleType DEF Confirm, TypeOK, stored
<1>5. ASSUME NEW h \in Handlers, NEW a \in Apps, RecordVerification(h, a) PROVE TypeOK'
  BY <1>5, HandleType DEF RecordVerification, TypeOK, stored
<1>6. ASSUME NEW h \in Handlers, NEW a \in Apps, Trash(h, a) PROVE TypeOK'
  BY <1>6, HandleType DEF Trash, TypeOK, stored
<1>7. ASSUME NEW h \in Handlers, NEW e \in LinkEdges, RejectEdge(h, e) PROVE TypeOK'
  BY <1>7, HandleType DEF RejectEdge, TypeOK, inputs
<1>8. ASSUME NEW h \in Handlers, NEW e \in LinkEdges, RestoreEdge(h, e) PROVE TypeOK'
  BY <1>8, HandleType DEF RestoreEdge, TypeOK, inputs
<1>9. QED
  BY <1>1, <1>2, <1>3, <1>4, <1>5, <1>6, <1>7, <1>8

LEMMA RunType ==
    ASSUME TypeOK, NEW p \in Procs, Run(p)
    PROVE  TypeOK'
<1> USE DEF TypeOK
<1>1. CASE ReadToResolve(p)
  <2> DEFINE l == [Resting("upsert") EXCEPT !.seen = Snapshot]
  <2>1. l \in Local
    <3>1. Snapshot \in [Apps -> Nat \cup {Absent}]
      BY SnapshotType
    <3>2. Resting("upsert") \in Local
      BY RestingType DEF Pcs
    <3>3. QED
      BY <3>1, <3>2 DEF Local
  <2>2. proc' = [proc EXCEPT ![p] = l]
    BY <1>1 DEF ReadToResolve
  <2>3. proc' \in [Procs -> Local]
    BY <2>1, <2>2, Moves
  <2>4. QED
    BY <1>1, <2>3 DEF ReadToResolve, Acquire, inputs, stored
<1>2. CASE Upsert(p)
  <2> DEFINE l == [proc[p] EXCEPT !.pc = "persist", !.barred = RejectedEdges]
  <2>8. l \in Local /\ proc' = [proc EXCEPT ![p] = l]
    BY <1>2 DEF Upsert, Local, Pcs, RejectedEdges
  <2>1. proc' \in [Procs -> Local]
    BY <2>8, Moves
  <2>2. edge' \in [LinkEdges -> {"absent", "active", "rejected"}]
    BY <1>2 DEF Upsert
  <2>3. QED
    BY <1>2, <2>1, <2>2 DEF Upsert, inputs, bounds
<1>3. CASE Persist(p)
  <2> DEFINE seen == proc[p].seen
             barred == proc[p].barred
             l == [Resting("score") EXCEPT !.list = RescoreList(p, seen, barred)]
  <2>1. l \in Local
    BY RestingType, RescoreType DEF Local, Resting, Pcs
  <2>2. proc' = [proc EXCEPT ![p] = l] /\ household' = Membership(seen, barred)
    BY <1>3 DEF Persist, Rewritten
  <2>3. proc' \in [Procs -> Local] /\ household' \in [Apps -> SUBSET Apps]
    BY <2>1, <2>2, Moves, MembershipType
  <2>4. QED
    BY <1>3, <2>3 DEF Persist, Release, inputs, bounds
<1>4. CASE ReadToScore(p)
  <2> DEFINE l == [proc[p] EXCEPT !.pc = "evaluate", !.seen = Snapshot]
  <2>8. l \in Local /\ proc' = [proc EXCEPT ![p] = l]
    <3>1. Snapshot \in [Apps -> Nat \cup {Absent}]
      BY SnapshotType
    <3>2. QED
      BY <3>1, <1>4 DEF ReadToScore, Local, Pcs
  <2>1. proc' \in [Procs -> Local]
    BY <2>8, Moves
  <2>2. QED
    BY <1>4, <2>1 DEF ReadToScore, Acquire, inputs, stored, bounds
<1>5. CASE Evaluate(p)
  <2>1. Target(proc[p].seen, RejectedEdges, proc[p].list) \in SUBSET Apps
    BY DEF Target, Seen
  <2> DEFINE todo == Target(proc[p].seen, RejectedEdges, proc[p].list)
             l == [proc[p] EXCEPT !.pc = "write", !.barred = RejectedEdges, !.todo = todo]
  <2>8. proc' = [proc EXCEPT ![p] = l]
    BY <1>5 DEF Evaluate
  <2>9. RejectedEdges \in SUBSET LinkEdges
    BY DEF RejectedEdges
  <2> HIDE DEF todo
  <2>11. proc[p] \in Local /\ todo \in SUBSET Apps
    BY <2>1 DEF todo
  <2>10. l \in Local
    <3> HIDE DEF TypeOK
    <3>1. QED
      BY <2>9, <2>11 DEF Local, Pcs
  <2>2. proc' \in [Procs -> Local]
    BY <2>8, <2>10, Moves
  <2>3. QED
    BY <1>5, <2>2 DEF Evaluate, inputs, stored, bounds
<1>6. ASSUME NEW a \in Apps, Write(p, a) PROVE TypeOK'
  <2>1. proc[p].seen \in [Apps -> Nat \cup {Absent}]
    BY DEF Local
  <2>2. flags' \in [Apps -> SUBSET (Apps \X Nat \X {"within", "across"})]
    BY <1>6, <2>1, FindingsSpeak DEF Write
  <2> DEFINE l == [proc[p] EXCEPT !.todo = proc[p].todo \ {a}]
  <2>6. l \in Local /\ proc' = [proc EXCEPT ![p] = l]
    BY <1>6 DEF Write, Local
  <2>3. proc' \in [Procs -> Local]
    BY <2>6, Moves
  <2>4. status' \in [Apps -> {"none", "waiting", "queue", "decided", "trashed"}]
    BY <1>6 DEF Write
  <2>5. QED
    BY <1>6, <2>2, <2>3, <2>4 DEF Write, bounds
<1>7. CASE Finish(p)
  <2>1. Resting(IF p \in Handlers THEN "idle" ELSE "done") \in Local
    BY RestingType DEF Pcs
  <2>2. proc' \in [Procs -> Local]
    BY <1>7, <2>1, Moves DEF Finish
  <2>3. QED
    BY <1>7, <2>2 DEF Finish, Release, inputs, stored, bounds
<1>8. QED
  BY <1>1, <1>2, <1>3, <1>4, <1>5, <1>6, <1>7 DEF Run

LEMMA FailureType ==
    ASSUME TypeOK,
           (\E h \in Handlers : HandlerFails(h)) \/ (\E a \in Apps : PipelineFails(a))
    PROVE  TypeOK'
<1>1. ASSUME NEW h \in Handlers, HandlerFails(h) PROVE TypeOK'
  <2>1. h \in Procs /\ Resting("idle") \in Local
    BY RestingType DEF Procs, Pcs
  <2>2. proc' \in [Procs -> Local]
    BY <1>1, <2>1, Moves DEF HandlerFails
  <2>3. QED
    BY <1>1, <2>2 DEF HandlerFails, Disconnect, Fault, Limits, TypeOK, inputs, stored
<1>2. ASSUME NEW a \in Apps, PipelineFails(a) PROVE TypeOK'
  <2> DEFINE again == [Resting("score") EXCEPT !.list = proc[a].list]
  <2>1. a \in Procs /\ Resting("resolve") \in Local /\ again \in Local
    BY RestingType DEF Procs, Pcs, TypeOK, Local, Resting
  <2>2. proc' = [proc EXCEPT ![a] = Resting("resolve")] \/ proc' = [proc EXCEPT ![a] = again]
    BY <1>2 DEF PipelineFails
  <2>3. proc' \in [Procs -> Local]
    BY <2>1, <2>2, Moves
  <2>4. QED
    BY <1>2, <2>3 DEF PipelineFails, Disconnect, Fault, Limits, TypeOK, inputs, stored
<1>3. QED
  BY <1>1, <1>2

LEMMA TypeStep == TypeOK /\ [Next]_vars => TypeOK'
<1> SUFFICES ASSUME TypeOK, [Next]_vars PROVE TypeOK'
  OBVIOUS
<1>1. CASE Next
  BY <1>1, InputType, RunType, FailureType DEF Next
<1>2. CASE UNCHANGED vars
  BY <1>2 DEF vars, inputs, stored, bounds, TypeOK
<1>3. QED
  BY <1>1, <1>2

\* Every reachable state is typed, for any applications, handlers and bounds.
THEOREM TypeCorrect == Spec => []TypeOK
BY TypeInit, TypeStep, PTL DEF Spec

-----------------------------------------------------------------------------
(* Runs exclude each other, and flags are never older.                     *)

LEMMA IInvInit == Init => IInv
<1> SUFFICES ASSUME Init PROVE IInv
  OBVIOUS
<1>1. \A p \in Procs : proc[p].pc = "idle"
  BY DEF Init, Resting
<1>2. RunsExclusive /\ SeenCovers
  BY <1>1 DEF RunsExclusive, SeenCovers, Locked, Scoring
<1>3. FlagsKnown
  BY DEF Init, FlagsKnown
<1>4. QED
  BY <1>2, <1>3, TypeInit DEF IInv

\* A process that rests, or waits for the lock, obliges nobody; the others keep what
\* they have read as long as flags stay and evidence only grows.
LEMMA Quiet ==
    ASSUME IInv, TypeOK', NEW p \in Procs,
           \A q \in Procs : q # p => proc'[q] = proc[q],
           proc'[p].pc \notin Locked,
           lock' = lock \/ (lock = p /\ lock' = None),
           flags' = flags,
           \A b \in Apps : evidence'[b] >= evidence[b]
    PROVE  IInv'
<1>1. RunsExclusive'
  BY DEF IInv, RunsExclusive
<1>2. FlagsKnown'
  <2> SUFFICES ASSUME NEW a \in Apps, NEW f \in flags[a]
               PROVE  /\ f[2] <= evidence'[f[1]]
                      /\ \A g \in flags[a] : f[1] = g[1] => f[2] = g[2]
    BY DEF FlagsKnown
  <2>1. f[1] \in Apps /\ f[2] \in Nat /\ f[2] <= evidence[f[1]]
    BY DEF IInv, TypeOK, FlagsKnown
  <2>2. evidence[f[1]] \in Nat /\ evidence'[f[1]] \in Nat
    BY <2>1 DEF IInv, TypeOK
  <2>3. QED
    BY <2>1, <2>2 DEF IInv, FlagsKnown
<1>3. SeenCovers'
  <2> SUFFICES ASSUME NEW q \in Procs, proc'[q].pc \in Scoring,
                      NEW b \in Apps, proc'[q].seen[b] # Absent
               PROVE  /\ proc'[q].seen[b] <= evidence'[b]
                      /\ \A a \in Apps : \A f \in flags'[a] :
                            f[1] = b => f[2] <= proc'[q].seen[b]
    BY DEF SeenCovers
  <2>1. proc'[q] = proc[q]
    BY DEF Scoring, Locked
  <2>2. /\ proc[q].seen[b] <= evidence[b]
        /\ \A a \in Apps : \A f \in flags[a] : f[1] = b => f[2] <= proc[q].seen[b]
    BY <2>1 DEF IInv, SeenCovers
  <2>3. evidence[b] \in Nat /\ evidence'[b] \in Nat /\ proc[q].seen[b] \in Nat
    BY <2>1 DEF IInv, TypeOK, Local
  <2>4. QED
    BY <2>1, <2>2, <2>3
<1>4. QED
  BY <1>1, <1>2, <1>3 DEF IInv

LEMMA InputKeeps ==
    ASSUME IInv, TypeOK',
           \/ \E a \in Apps : Submit(a) \/ ReadDocument(a) \/ Decide(a)
           \/ \E h \in Handlers :
                 \/ \E a \in Apps : Confirm(h, a) \/ RecordVerification(h, a) \/ Trash(h, a)
                 \/ \E e \in LinkEdges : RejectEdge(h, e) \/ RestoreEdge(h, e)
    PROVE  IInv'
<1> USE DEF IInv
<1>t. TypeOK
  OBVIOUS
<1>1. ASSUME NEW a \in Apps, Submit(a) PROVE IInv'
  <2>1. a \in Procs /\ Resting("read") \in Local
    BY RestingType DEF Procs, Pcs
  <2>2. proc'[a] = Resting("read") /\ \A q \in Procs : q # a => proc'[q] = proc[q]
    BY <1>1, <2>1, Moves DEF Submit
  <2>3. proc'[a].pc \notin Locked
    BY <2>2 DEF Resting, Locked
  <2>4. \A b \in Apps : evidence'[b] >= evidence[b]
    BY <1>1 DEF Submit, TypeOK
  <2>5. QED
    BY <1>1, <2>1, <2>2, <2>3, <2>4, Quiet DEF Submit, stored
<1>2. ASSUME NEW a \in Apps, ReadDocument(a) PROVE IInv'
  <2>1. a \in Procs /\ Resting("resolve") \in Local
    BY RestingType DEF Procs, Pcs
  <2>2. proc'[a] = Resting("resolve") /\ \A q \in Procs : q # a => proc'[q] = proc[q]
    BY <1>2, <2>1, Moves DEF ReadDocument
  <2>3. proc'[a].pc \notin Locked
    BY <2>2 DEF Resting, Locked
  <2>4. \A b \in Apps : evidence'[b] >= evidence[b]
    BY <1>2 DEF ReadDocument, TypeOK
  <2>5. QED
    BY <1>2, <2>1, <2>2, <2>3, <2>4, Quiet DEF ReadDocument, stored
<1>3. ASSUME NEW a \in Apps, Decide(a) PROVE IInv'
  BY <1>3 DEF Decide, stored, RunsExclusive, FlagsKnown, SeenCovers
<1>4. ASSUME NEW h \in Handlers, Handle(h), flags' = flags,
             \A b \in Apps : evidence'[b] >= evidence[b]
      PROVE  IInv'
  <2>1. h \in Procs /\ Resting("resolve") \in Local
    BY RestingType DEF Procs, Pcs
  <2>2. proc'[h] = Resting("resolve") /\ \A q \in Procs : q # h => proc'[q] = proc[q]
    BY <1>4, <2>1, Moves DEF Handle
  <2>3. proc'[h].pc \notin Locked
    BY <2>2 DEF Resting, Locked
  <2>4. QED
    BY <1>4, <2>1, <2>2, <2>3, Quiet DEF Handle
<1>5. ASSUME evidence' = evidence
      PROVE  \A b \in Apps : evidence'[b] >= evidence[b]
  BY <1>5 DEF TypeOK
<1>6. ASSUME NEW h \in Handlers, NEW a \in Apps,
             Confirm(h, a) \/ RecordVerification(h, a) \/ Trash(h, a)
      PROVE  IInv'
  <2>1. \A b \in Apps : evidence'[b] >= evidence[b]
    BY <1>6 DEF Confirm, RecordVerification, Trash, TypeOK
  <2>2. QED
    BY <1>4, <1>6, <2>1 DEF Confirm, RecordVerification, Trash, stored
<1>7. ASSUME NEW h \in Handlers, NEW e \in LinkEdges, RejectEdge(h, e) \/ RestoreEdge(h, e)
      PROVE  IInv'
  BY <1>4, <1>5, <1>7 DEF RejectEdge, RestoreEdge, inputs
<1>8. QED
  BY <1>1, <1>2, <1>3, <1>6, <1>7

LEMMA FailureKeeps ==
    ASSUME IInv, TypeOK',
           (\E h \in Handlers : HandlerFails(h)) \/ (\E a \in Apps : PipelineFails(a))
    PROVE  IInv'
<1> USE DEF IInv
<1>1. \A b \in Apps : evidence[b] >= evidence[b]
  BY DEF TypeOK
<1>2. ASSUME NEW h \in Handlers, HandlerFails(h) PROVE IInv'
  <2>1. h \in Procs /\ Resting("idle") \in Local
    BY RestingType DEF Procs, Pcs
  <2>2. proc'[h] = Resting("idle") /\ \A q \in Procs : q # h => proc'[q] = proc[q]
    BY <1>2, <2>1, Moves DEF HandlerFails
  <2>3. proc'[h].pc \notin Locked
    BY <2>2 DEF Resting, Locked
  <2>4. flags' = flags /\ evidence' = evidence /\ (lock' = lock \/ (lock = h /\ lock' = None))
    BY <1>2 DEF HandlerFails, Disconnect, inputs, stored
  <2>5. QED
    BY <1>1, <2>1, <2>2, <2>3, <2>4, Quiet
<1>3. ASSUME NEW a \in Apps, PipelineFails(a) PROVE IInv'
  <2> DEFINE again == [Resting("score") EXCEPT !.list = proc[a].list]
  <2>1. a \in Procs /\ Resting("resolve") \in Local /\ again \in Local
    BY RestingType DEF Procs, Pcs, TypeOK, Local, Resting
  <2>2. proc' = [proc EXCEPT ![a] = Resting("resolve")] \/ proc' = [proc EXCEPT ![a] = again]
    BY <1>3 DEF PipelineFails
  <2>3. /\ proc'[a] = Resting("resolve") \/ proc'[a] = again
        /\ \A q \in Procs : q # a => proc'[q] = proc[q]
    BY <2>1, <2>2, Moves
  <2>4. proc'[a].pc \notin Locked
    BY <2>3 DEF Resting, Locked
  <2>5. flags' = flags /\ evidence' = evidence /\ (lock' = lock \/ (lock = a /\ lock' = None))
    BY <1>3 DEF PipelineFails, Disconnect, inputs, stored
  <2>6. QED
    BY <1>1, <2>1, <2>3, <2>4, <2>5, Quiet
<1>4. QED
  BY <1>2, <1>3

\* The step of a run that has, or takes, the lock: nobody else is inside.
LEMMA Inside ==
    ASSUME IInv, NEW p \in Procs,
           \A q \in Procs : q # p => proc'[q] = proc[q],
           lock \in {None, p}, lock' = p
    PROVE  /\ RunsExclusive'
           /\ \A q \in Procs : proc'[q].pc \in Locked => q = p
<1>1. \A q \in Procs : q # p => proc'[q].pc \notin Locked
  BY EngineAssumption DEF IInv, RunsExclusive, Procs
<1>2. QED
  BY <1>1 DEF RunsExclusive

LEMMA RunKeeps ==
    ASSUME IInv, TypeOK', NEW p \in Procs, Run(p)
    PROVE  IInv'
<1>1. TypeOK /\ RunsExclusive /\ FlagsKnown /\ SeenCovers
  BY DEF IInv
<1>2. \A b \in Apps : evidence[b] \in Nat /\ evidence[b] >= evidence[b]
  BY <1>1 DEF TypeOK
<1>3. CASE ReadToResolve(p)
  <2> DEFINE l == [Resting("upsert") EXCEPT !.seen = Snapshot]
  <2>1. proc'[p] = l /\ \A q \in Procs : q # p => proc'[q] = proc[q]
    BY <1>1, <1>3 DEF ReadToResolve, TypeOK
  <2>2. proc'[p].pc = "upsert"
    BY <2>1 DEF Resting
  <2>3. RunsExclusive' /\ \A q \in Procs : proc'[q].pc \in Locked => q = p
    BY <1>3, <2>1, Inside DEF ReadToResolve, Acquire
  <2>4. SeenCovers'
    BY <2>2, <2>3 DEF SeenCovers, Scoring, Locked
  <2>5. FlagsKnown'
    BY <1>1, <1>3 DEF ReadToResolve, FlagsKnown, inputs, stored
  <2>6. QED
    BY <2>3, <2>4, <2>5 DEF IInv
<1>4. CASE Upsert(p)
  <2>1. proc'[p].pc = "persist" /\ \A q \in Procs : q # p => proc'[q] = proc[q]
    BY <1>1, <1>4 DEF Upsert, TypeOK, Local
  <2>2. lock = p /\ lock' = p
    BY <1>1, <1>4 DEF Upsert, RunsExclusive, Locked
  <2>3. RunsExclusive' /\ \A q \in Procs : proc'[q].pc \in Locked => q = p
    BY <2>1, <2>2, Inside
  <2>4. SeenCovers'
    BY <2>1, <2>3 DEF SeenCovers, Scoring, Locked
  <2>5. FlagsKnown'
    BY <1>1, <1>4 DEF Upsert, FlagsKnown, inputs
  <2>6. QED
    BY <2>3, <2>4, <2>5 DEF IInv
<1>5. CASE Persist(p)
  <2> DEFINE l == [Resting("score") EXCEPT
                     !.list = RescoreList(p, proc[p].seen, proc[p].barred)]
  <2>1. proc'[p] = l /\ \A q \in Procs : q # p => proc'[q] = proc[q]
    BY <1>1, <1>5 DEF Persist, TypeOK
  <2>2. proc'[p].pc \notin Locked
    BY <2>1 DEF Resting, Locked
  <2>3. lock = p /\ lock' = None
    BY <1>1, <1>5 DEF Persist, Release, RunsExclusive, Locked
  <2>4. flags' = flags /\ evidence' = evidence
    BY <1>5 DEF Persist, inputs
  <2>5. QED
    BY <1>2, <2>1, <2>2, <2>3, <2>4, Quiet
<1>6. CASE ReadToScore(p)
  <2>1. /\ proc'[p].pc = "evaluate" /\ proc'[p].seen = Snapshot
        /\ \A q \in Procs : q # p => proc'[q] = proc[q]
    BY <1>1, <1>6 DEF ReadToScore, TypeOK, Local
  <2>2. RunsExclusive' /\ \A q \in Procs : proc'[q].pc \in Locked => q = p
    BY <1>6, <2>1, Inside DEF ReadToScore, Acquire
  <2>3. flags' = flags /\ evidence' = evidence
    BY <1>6 DEF ReadToScore, inputs, stored
  <2>4. SeenCovers'
    <3>1. ASSUME NEW b \in Apps, Snapshot[b] # Absent
          PROVE  Snapshot[b] = evidence[b]
      BY <1>1, <3>1, SnapshotType
    <3>2. ASSUME NEW b \in Apps, Snapshot[b] # Absent
          PROVE  /\ Snapshot[b] <= evidence[b]
                 /\ \A a \in Apps : \A f \in flags[a] : f[1] = b => f[2] <= Snapshot[b]
      BY <1>1, <1>2, <3>1, <3>2 DEF FlagsKnown
    <3>3. \A q \in Procs : proc'[q].pc \in Scoring => proc'[q].seen = Snapshot
      BY <2>1, <2>2 DEF Scoring, Locked
    <3>4. QED
      BY <2>3, <3>2, <3>3 DEF SeenCovers
  <2>5. FlagsKnown'
    BY <1>1, <2>3 DEF FlagsKnown
  <2>6. QED
    BY <2>2, <2>4, <2>5 DEF IInv
<1>7. CASE Evaluate(p)
  <2>1. /\ proc'[p].pc = "write" /\ proc'[p].seen = proc[p].seen
        /\ \A q \in Procs : q # p => proc'[q] = proc[q]
    BY <1>1, <1>7 DEF Evaluate, TypeOK, Local
  <2>2. lock = p /\ lock' = p /\ proc[p].pc \in Scoring
    BY <1>1, <1>7 DEF Evaluate, RunsExclusive, Locked, Scoring
  <2>3. RunsExclusive' /\ \A q \in Procs : proc'[q].pc \in Locked => q = p
    BY <2>1, <2>2, Inside
  <2>4. flags' = flags /\ evidence' = evidence
    BY <1>7 DEF Evaluate, inputs, stored
  <2>5. \A q \in Procs : proc'[q].pc \in Scoring => q = p
    BY <2>3 DEF Scoring, Locked
  <2>6. SeenCovers'
    BY <1>1, <2>1, <2>2, <2>4, <2>5 DEF SeenCovers
  <2>7. FlagsKnown'
    BY <1>1, <2>4 DEF FlagsKnown
  <2>8. QED
    BY <2>3, <2>6, <2>7 DEF IInv
<1>8. ASSUME NEW a \in Apps, Write(p, a) PROVE IInv'
  <2> DEFINE seen == proc[p].seen
  <2>1. /\ proc'[p].pc = "write" /\ proc'[p].seen = seen
        /\ \A q \in Procs : q # p => proc'[q] = proc[q]
    BY <1>1, <1>8 DEF Write, TypeOK, Local
  <2>2. lock = p /\ lock' = p /\ proc[p].pc \in Scoring
    BY <1>1, <1>8 DEF Write, RunsExclusive, Locked, Scoring, bounds
  <2>3. RunsExclusive' /\ \A q \in Procs : proc'[q].pc \in Locked => q = p
    BY <2>1, <2>2, Inside
  <2>4. seen \in [Apps -> Nat \cup {Absent}] /\ evidence' = evidence
    BY <1>1, <1>8 DEF Write, TypeOK, Local
  <2>5. \A b \in Apps : seen[b] # Absent =>
           /\ seen[b] <= evidence[b]
           /\ \A c \in Apps : \A f \in flags[c] : f[1] = b => f[2] <= seen[b]
    BY <1>1, <2>2 DEF SeenCovers
  <2>6. ASSUME NEW c \in Apps, NEW f \in flags'[c]
        PROVE  \/ f \in flags[c]
               \/ f[1] \in Apps /\ seen[f[1]] # Absent /\ f[2] = seen[f[1]]
    <3>1. CASE c = a
      BY <1>1, <1>8, <2>4, <3>1, FindingsSpeak DEF Write, TypeOK
    <3>2. CASE c # a
      BY <1>1, <1>8, <3>2 DEF Write, TypeOK
    <3>3. QED
      BY <3>1, <3>2
  <2>7. FlagsKnown'
    <3>1. ASSUME NEW c \in Apps, NEW f \in flags'[c] PROVE f[2] <= evidence'[f[1]]
      BY <1>1, <2>4, <2>5, <2>6 DEF FlagsKnown
    <3>2. ASSUME NEW c \in Apps, NEW f \in flags'[c], NEW g \in flags'[c], f[1] = g[1]
          PROVE  f[2] = g[2]
      <4>1. CASE c = a
        BY <1>1, <1>8, <2>4, <3>2, <4>1, FindingsSpeak DEF Write, TypeOK
      <4>2. CASE c # a
        BY <1>1, <1>8, <3>2, <4>2 DEF Write, TypeOK, FlagsKnown
      <4>3. QED
        BY <4>1, <4>2
    <3>3. QED
      BY <3>1, <3>2 DEF FlagsKnown
  <2>8. SeenCovers'
    <3>1. ASSUME NEW b \in Apps, seen[b] # Absent, NEW c \in Apps, NEW f \in flags'[c], f[1] = b
          PROVE  f[2] <= seen[b]
      <4>1. seen[b] \in Nat
        BY <2>4, <3>1
      <4>2. QED
        BY <2>5, <2>6, <3>1, <4>1
    <3>2. \A q \in Procs : proc'[q].pc \in Scoring => proc'[q].seen = seen
      BY <2>1, <2>3 DEF Scoring, Locked
    <3>3. QED
      BY <2>4, <2>5, <3>1, <3>2 DEF SeenCovers
  <2>9. QED
    BY <2>3, <2>7, <2>8 DEF IInv
<1>9. CASE Finish(p)
  <2> DEFINE l == Resting(IF p \in Handlers THEN "idle" ELSE "done")
  <2>1. proc'[p] = l /\ \A q \in Procs : q # p => proc'[q] = proc[q]
    BY <1>1, <1>9 DEF Finish, TypeOK
  <2>2. proc'[p].pc \notin Locked
    BY <2>1 DEF Resting, Locked
  <2>3. lock = p /\ lock' = None
    BY <1>1, <1>9 DEF Finish, Release, RunsExclusive, Locked
  <2>4. flags' = flags /\ evidence' = evidence
    BY <1>9 DEF Finish, inputs, stored
  <2>5. QED
    BY <1>2, <2>1, <2>2, <2>3, <2>4, Quiet
<1>10. QED
  BY <1>3, <1>4, <1>5, <1>6, <1>7, <1>8, <1>9 DEF Run

LEMMA IInvStep == IInv /\ [Next]_vars => IInv'
<1> SUFFICES ASSUME IInv, [Next]_vars PROVE IInv'
  OBVIOUS
<1>1. TypeOK'
  BY TypeStep DEF IInv
<1>2. CASE Next
  BY <1>1, <1>2, InputKeeps, RunKeeps, FailureKeeps DEF Next
<1>3. CASE UNCHANGED vars
  BY <1>1, <1>3 DEF vars, inputs, stored, IInv, RunsExclusive, FlagsKnown, SeenCovers
<1>4. QED
  BY <1>2, <1>3

LEMMA Invariance == Spec => []IInv
BY IInvInit, IInvStep, PTL DEF Spec

\* Two runs of the engine on one cycle never overlap, whoever crashes.
THEOREM EngineRunsExclude == Spec => []RunsExclusive
<1>1. IInv => RunsExclusive
  BY DEF IInv
<1>2. QED
  BY <1>1, Invariance, PTL

\* Only the run that scores writes flags, and it has read no less than any of them.
LEMMA NeverOlderStep ==
    ASSUME IInv, [Next]_vars, NEW a \in Apps, NEW old \in flags[a], NEW new \in flags'[a],
           old[1] = new[1]
    PROVE  old[2] <= new[2]
<1>1. TypeOK
  BY DEF IInv
<1>2. old[1] \in Apps /\ old[2] \in Nat
  BY <1>1 DEF TypeOK
<1>3. ASSUME new \in flags[a] PROVE old[2] <= new[2]
  <2>1. old[2] = new[2]
    BY <1>3 DEF IInv, FlagsKnown
  <2>2. QED
    BY <1>2, <2>1
<1>4. ASSUME NEW p \in Procs, NEW b \in Apps, Write(p, b) PROVE old[2] <= new[2]
  <2>1. CASE b = a
    <3>1. proc[p].seen \in [Apps -> Nat \cup {Absent}] /\ proc[p].pc \in Scoring
      BY <1>1, <1>4 DEF Write, TypeOK, Local, Scoring
    <3>2. new \in Findings(a, proc[p].seen, proc[p].barred)
      BY <1>1, <1>4, <2>1 DEF Write, TypeOK
    <3>3. new[1] \in Apps /\ proc[p].seen[new[1]] # Absent /\ new[2] = proc[p].seen[new[1]]
      BY <3>1, <3>2, FindingsSpeak
    <3>4. QED
      BY <3>1, <3>3 DEF IInv, SeenCovers
  <2>2. CASE b # a
    BY <1>1, <1>3, <1>4, <2>2 DEF Write, TypeOK
  <2>3. QED
    BY <2>1, <2>2
<1>5. CASE flags' = flags
  BY <1>3, <1>5
<1>6. CASE Next
  <2>1. (\E p \in Procs : \E b \in Apps : Write(p, b)) \/ flags' = flags
    BY <1>6 DEF Next, Run, Submit, ReadDocument, Decide, PipelineFails, HandlerFails, Confirm,
       RecordVerification, Trash, RejectEdge, RestoreEdge, ReadToResolve, Upsert, Persist,
       ReadToScore, Evaluate, Finish, stored
  <2>2. QED
    BY <1>4, <1>5, <2>1
<1>7. QED
  BY <1>5, <1>6 DEF vars, stored

\* A rescore never replaces what a stored flag says of an application's evidence by an
\* older reading of it, whatever interleaving of runs, inputs and crashes.
THEOREM FlagsNeverOlder == Spec => NeverOlder
<1>1. IInv /\ [Next]_vars =>
        \A a \in Apps : \A old \in flags[a] : \A new \in flags'[a] :
            old[1] = new[1] => old[2] <= new[2]
  BY NeverOlderStep
<1>2. QED
  BY <1>1, Invariance, PTL DEF Spec, NeverOlder

-----------------------------------------------------------------------------
(* What is stored follows what was put in.                                 *)

\* Where a process will read the population before it resolves it, or before it
\* scores it, and where it has read it and not yet stored what it computed.
ToResolve == {"read", "resolve"}
Resolving == {"upsert", "persist"}
ToScore == ToResolve \cup Resolving \cup {"score"}

At(pcs) == \E p \in Procs : proc[p].pc \in pcs

\* Unless somebody is still to read the cycle, whoever resolves it has read it as it
\* stands, and when nobody does the households are those of the cycle as it stands.
HouseholdsFollow ==
    \/ owed \/ At(ToResolve)
    \/ /\ \A p \in Procs : proc[p].pc \in Resolving =>
            /\ proc[p].seen = Snapshot
            /\ proc[p].pc = "persist" => proc[p].barred = RejectedEdges
       /\ At(Resolving) \/ household = Membership(Snapshot, RejectedEdges)

\* Of what a scoring run has seen, what it has not to write is as it evaluated it.
WrittenSoFar ==
    \A p \in Procs : proc[p].pc = "write" =>
        \A a \in Seen(proc[p].seen) \ proc[p].todo :
            flags[a] = Findings(a, proc[p].seen, proc[p].barred)

FlagsCurrent == \A a \in Population : flags[a] = Findings(a, Snapshot, RejectedEdges)

\* The same of the flags: a run that will score the cycle repairs every flag there is.
FlagsFollow ==
    \/ owed \/ At(ToScore)
    \/ /\ \A p \in Procs : proc[p].pc \in Scoring =>
            /\ proc[p].seen = Snapshot
            /\ proc[p].pc = "write" => proc[p].barred = RejectedEdges
       /\ At(Scoring) \/ FlagsCurrent

Follow == HouseholdsFollow /\ WrittenSoFar /\ FlagsFollow

LEMMA FollowInit == Init => Follow
<1> SUFFICES ASSUME Init PROVE Follow
  OBVIOUS
<1>1. \A p \in Procs : proc[p].pc = "idle"
  BY DEF Init, Resting
<1>2. Population = {}
  BY DEF Init, Population
<1>3. household = Membership(Snapshot, RejectedEdges)
  BY <1>2 DEF Init, Membership, Snapshot, Seen
<1>4. HouseholdsFollow
  BY <1>1, <1>3 DEF HouseholdsFollow, Resolving
<1>5. WrittenSoFar /\ FlagsFollow
  BY <1>1, <1>2 DEF WrittenSoFar, FlagsFollow, FlagsCurrent, Scoring
<1>6. QED
  BY <1>4, <1>5 DEF Follow

\* The population of a snapshot of the cycle is the cycle's.
LEMMA SeenAll ==
    ASSUME TypeOK
    PROVE  Seen(Snapshot) = Population
BY DEF TypeOK, Seen, Snapshot, Population, Absent

\* No run of the engine changes what the next one will read: promotion keeps an
\* application in the population, and an upsert rejects no edge.
LEMMA ReadsStay ==
    ASSUME TypeOK,
           \/ \E p \in Procs : Run(p)
           \/ \E a \in Apps : Decide(a) \/ PipelineFails(a)
           \/ \E h \in Handlers : HandlerFails(h)
    PROVE  Population' = Population /\ Snapshot' = Snapshot /\ RejectedEdges' = RejectedEdges
<1>1. ASSUME UNCHANGED <<inputs, edge>>
      PROVE  Population' = Population /\ Snapshot' = Snapshot /\ RejectedEdges' = RejectedEdges
  BY <1>1 DEF inputs, Population, Snapshot, RejectedEdges
<1>2. ASSUME NEW p \in Procs, Upsert(p)
      PROVE  Population' = Population /\ Snapshot' = Snapshot /\ RejectedEdges' = RejectedEdges
  <2>1. Population' = Population /\ Snapshot' = Snapshot
    BY <1>2 DEF Upsert, inputs, Population, Snapshot
  <2>2. RejectedEdges' = RejectedEdges
    BY <1>2 DEF Upsert, RejectedEdges, TypeOK
  <2>3. QED
    BY <2>1, <2>2
<1>3. ASSUME \A b \in Apps : \/ status'[b] = status[b]
                            \/ {status[b], status'[b]} \cap {"none", "trashed"} = {},
             UNCHANGED <<confirmed, evidence, edge>>
      PROVE  Population' = Population /\ Snapshot' = Snapshot /\ RejectedEdges' = RejectedEdges
  BY <1>3 DEF Population, Snapshot, RejectedEdges
<1>4. ASSUME NEW p \in Procs, NEW a \in Apps, Write(p, a)
      PROVE  Population' = Population /\ Snapshot' = Snapshot /\ RejectedEdges' = RejectedEdges
  <2>1. \A b \in Apps : \/ status'[b] = status[b]
                         \/ {status[b], status'[b]} \cap {"none", "trashed"} = {}
    BY <1>4 DEF Write, Promoted, TypeOK
  <2>2. UNCHANGED <<confirmed, evidence, edge>>
    BY <1>4 DEF Write
  <2>3. QED
    BY <1>3, <2>1, <2>2
<1>5. ASSUME NEW a \in Apps, Decide(a)
      PROVE  Population' = Population /\ Snapshot' = Snapshot /\ RejectedEdges' = RejectedEdges
  <2>1. \A b \in Apps : \/ status'[b] = status[b]
                         \/ {status[b], status'[b]} \cap {"none", "trashed"} = {}
    BY <1>5 DEF Decide, TypeOK
  <2>2. UNCHANGED <<confirmed, evidence, edge>>
    BY <1>5 DEF Decide, stored
  <2>3. QED
    BY <1>3, <2>1, <2>2
<1>6. ASSUME NEW p \in Procs,
             ReadToResolve(p) \/ Persist(p) \/ ReadToScore(p) \/ Evaluate(p) \/ Finish(p)
      PROVE  UNCHANGED <<inputs, edge>>
  BY <1>6 DEF ReadToResolve, Persist, ReadToScore, Evaluate, Finish, stored
<1>7. ASSUME \/ \E a \in Apps : PipelineFails(a)
             \/ \E h \in Handlers : HandlerFails(h)
      PROVE  UNCHANGED <<inputs, edge>>
  BY <1>7 DEF PipelineFails, HandlerFails, stored
<1>8. QED
  BY <1>1, <1>2, <1>4, <1>5, <1>6, <1>7 DEF Run

\* Whoever goes on to read the cycle, or leaves a rescore owed, restores it all.
LEMMA Resumes ==
    ASSUME Follow, NEW p \in Procs,
           \A q \in Procs : q # p => proc'[q] = proc[q],
           proc'[p].pc \in ToResolve \/ (owed' /\ proc'[p].pc = "idle"),
           flags' = flags
    PROVE  Follow'
<1>1. HouseholdsFollow' /\ FlagsFollow'
  BY DEF HouseholdsFollow, FlagsFollow, At, ToScore
<1>2. \A q \in Procs : proc'[q].pc = "write" => proc'[q] = proc[q]
  BY DEF ToResolve
<1>3. WrittenSoFar'
  BY <1>2 DEF Follow, WrittenSoFar
<1>4. QED
  BY <1>1, <1>3 DEF Follow

LEMMA FollowInput ==
    ASSUME IInv, Follow,
           \/ \E a \in Apps : Submit(a) \/ ReadDocument(a)
           \/ \E h \in Handlers :
                 \/ HandlerFails(h)
                 \/ \E a \in Apps : Confirm(h, a) \/ RecordVerification(h, a) \/ Trash(h, a)
                 \/ \E e \in LinkEdges : RejectEdge(h, e) \/ RestoreEdge(h, e)
    PROVE  Follow'
<1>0. TypeOK
  BY DEF IInv
<1>1. ASSUME NEW a \in Apps, Submit(a) PROVE Follow'
  <2>1. a \in Procs /\ Resting("read") \in Local
    BY RestingType DEF Procs, Pcs
  <2>2. proc'[a] = Resting("read") /\ \A q \in Procs : q # a => proc'[q] = proc[q]
    BY <1>0, <1>1, <2>1, Moves DEF Submit
  <2>3. QED
    BY <1>1, <2>1, <2>2, Resumes DEF Submit, stored, Resting, ToResolve
<1>2. ASSUME NEW a \in Apps, ReadDocument(a) PROVE Follow'
  <2>1. a \in Procs /\ Resting("resolve") \in Local
    BY RestingType DEF Procs, Pcs
  <2>2. proc'[a] = Resting("resolve") /\ \A q \in Procs : q # a => proc'[q] = proc[q]
    BY <1>0, <1>2, <2>1, Moves DEF ReadDocument
  <2>3. QED
    BY <1>2, <2>1, <2>2, Resumes DEF ReadDocument, stored, Resting, ToResolve
<1>3. ASSUME NEW h \in Handlers, HandlerFails(h) PROVE Follow'
  <2>1. h \in Procs /\ Resting("idle") \in Local
    BY RestingType DEF Procs, Pcs
  <2>2. proc'[h] = Resting("idle") /\ \A q \in Procs : q # h => proc'[q] = proc[q]
    BY <1>0, <1>3, <2>1, Moves DEF HandlerFails
  <2>3. QED
    BY <1>3, <2>1, <2>2, Resumes DEF HandlerFails, stored, Resting
<1>4. ASSUME NEW h \in Handlers, Handle(h), flags' = flags PROVE Follow'
  <2>1. h \in Procs /\ Resting("resolve") \in Local
    BY RestingType DEF Procs, Pcs
  <2>2. proc'[h] = Resting("resolve") /\ \A q \in Procs : q # h => proc'[q] = proc[q]
    BY <1>0, <1>4, <2>1, Moves DEF Handle
  <2>3. QED
    BY <1>4, <2>1, <2>2, Resumes DEF Resting, ToResolve
<1>5. ASSUME NEW h \in Handlers, NEW a \in Apps,
             Confirm(h, a) \/ RecordVerification(h, a) \/ Trash(h, a)
      PROVE  Follow'
  BY <1>4, <1>5 DEF Confirm, RecordVerification, Trash, stored
<1>6. ASSUME NEW h \in Handlers, NEW e \in LinkEdges, RejectEdge(h, e) \/ RestoreEdge(h, e)
      PROVE  Follow'
  BY <1>4, <1>6 DEF RejectEdge, RestoreEdge
<1>7. QED
  BY <1>1, <1>2, <1>3, <1>5, <1>6

\* A step of a process that is past its reconciliation leaves the households alone.
LEMMA HouseholdsApart ==
    ASSUME HouseholdsFollow, NEW p \in Procs,
           \A q \in Procs : q # p => proc'[q] = proc[q],
           proc[p].pc \notin ToResolve \cup Resolving,
           proc'[p].pc \notin ToResolve \cup Resolving,
           Snapshot' = Snapshot, RejectedEdges' = RejectedEdges,
           household' = household, owed' = owed
    PROVE  HouseholdsFollow'
<1>1. \A q \in Procs : \/ proc'[q] = proc[q]
                       \/ {proc[q].pc, proc'[q].pc} \cap (ToResolve \cup Resolving) = {}
  OBVIOUS
<1>2. At(ToResolve)' = At(ToResolve) /\ At(Resolving)' = At(Resolving)
  BY <1>1 DEF At
<1>3. \A q \in Procs : proc'[q].pc \in Resolving => proc'[q] = proc[q]
  BY <1>1
<1>4. Membership(Snapshot, RejectedEdges)' = Membership(Snapshot, RejectedEdges)
  BY DEF Membership, Seen, Component, Closed, Joined
<1>5. QED
  BY <1>2, <1>3, <1>4 DEF HouseholdsFollow

LEMMA HouseholdsStep ==
    ASSUME IInv, IInv', HouseholdsFollow, NEW p \in Procs, Run(p)
    PROVE  HouseholdsFollow'
<1>1. TypeOK /\ RunsExclusive
  BY DEF IInv
<1>2. Snapshot' = Snapshot /\ RejectedEdges' = RejectedEdges
  BY <1>1, ReadsStay
<1>3. proc[p].pc \in Resolving => \A q \in Procs : proc[q].pc \in Resolving => q = p
  BY <1>1 DEF RunsExclusive, Resolving, Locked
<1>4. CASE ReadToResolve(p)
  <2> DEFINE l == [Resting("upsert") EXCEPT !.seen = Snapshot]
  <2>1. proc'[p] = l /\ \A q \in Procs : q # p => proc'[q] = proc[q]
    BY <1>1, <1>4 DEF ReadToResolve, TypeOK
  <2>2. proc'[p].pc = "upsert" /\ proc'[p].seen = Snapshot
    BY <2>1 DEF Resting
  <2>3. \A q \in Procs : proc'[q].pc \in Resolving => q = p
    BY <1>4, <2>1, Inside DEF ReadToResolve, Acquire, Resolving, Locked
  <2>4. QED
    BY <1>2, <2>2, <2>3 DEF HouseholdsFollow, At, Resolving
<1>5. CASE Upsert(p)
  <2>1. /\ proc'[p].pc = "persist" /\ proc'[p].barred = RejectedEdges
        /\ proc'[p].seen = proc[p].seen
        /\ \A q \in Procs : q # p => proc'[q] = proc[q]
    BY <1>1, <1>5 DEF Upsert, TypeOK, Local
  <2>2. proc[p].pc = "upsert" /\ owed' = owed
    BY <1>5 DEF Upsert, bounds
  <2>3. At(ToResolve) => At(ToResolve)'
    BY <2>1, <2>2 DEF At, ToResolve
  <2>4. At(Resolving)'
    BY <2>1 DEF At, Resolving
  <2>5. CASE owed \/ At(ToResolve)
    BY <2>2, <2>3, <2>5 DEF HouseholdsFollow
  <2>6. CASE ~(owed \/ At(ToResolve))
    <3>1. proc[p].seen = Snapshot
      BY <2>2, <2>6 DEF HouseholdsFollow, Resolving
    <3>2. \A q \in Procs : proc'[q].pc \in Resolving => q = p
      BY <1>3, <2>1, <2>2 DEF Resolving
    <3>3. QED
      BY <1>2, <2>1, <2>4, <3>1, <3>2 DEF HouseholdsFollow
  <2>7. QED
    BY <2>5, <2>6
<1>6. CASE Persist(p)
  <2> DEFINE l == [Resting("score") EXCEPT
                     !.list = RescoreList(p, proc[p].seen, proc[p].barred)]
  <2>1. proc'[p] = l /\ \A q \in Procs : q # p => proc'[q] = proc[q]
    BY <1>1, <1>6 DEF Persist, TypeOK
  <2>2. proc'[p].pc = "score" /\ proc[p].pc = "persist" /\ owed' = owed
    BY <1>6, <2>1 DEF Persist, Resting, bounds
  <2>3. At(ToResolve) => At(ToResolve)'
    BY <2>1, <2>2 DEF At, ToResolve
  <2>4. household' = Membership(proc[p].seen, proc[p].barred)
    BY <1>6 DEF Persist, Rewritten
  <2>5. CASE owed \/ At(ToResolve)
    BY <2>2, <2>3, <2>5 DEF HouseholdsFollow
  <2>6. CASE ~(owed \/ At(ToResolve))
    <3>1. proc[p].seen = Snapshot /\ proc[p].barred = RejectedEdges
      BY <2>2, <2>6 DEF HouseholdsFollow, Resolving
    <3>2. \A q \in Procs : proc'[q].pc \notin Resolving
      BY <1>3, <2>1, <2>2 DEF Resolving
    <3>3. household' = Membership(Snapshot', RejectedEdges')
      BY <1>2, <2>4, <3>1
    <3>4. QED
      BY <3>2, <3>3 DEF HouseholdsFollow
  <2>7. QED
    BY <2>5, <2>6
<1>7. CASE ReadToScore(p) \/ Evaluate(p) \/ Finish(p) \/ \E a \in Apps : Write(p, a)
  <2>1. \A q \in Procs : q # p => proc'[q] = proc[q]
    BY <1>1, <1>7 DEF ReadToScore, Evaluate, Finish, Write, TypeOK
  <2>2. proc[p].pc \in {"score", "evaluate", "write"}
    BY <1>7 DEF ReadToScore, Evaluate, Finish, Write
  <2>3. proc'[p].pc \in {"evaluate", "write", "idle", "done"}
    BY <1>1, <1>7 DEF ReadToScore, Evaluate, Finish, Write, TypeOK, Local, Resting
  <2>4. household' = household /\ owed' = owed
    BY <1>7 DEF ReadToScore, Evaluate, Finish, Write, stored, bounds
  <2>5. QED
    BY <1>2, <2>1, <2>2, <2>3, <2>4, HouseholdsApart DEF ToResolve, Resolving
<1>8. QED
  BY <1>4, <1>5, <1>6, <1>7 DEF Run

LEMMA FlagsStep ==
    ASSUME IInv, Follow, NEW p \in Procs, Run(p)
    PROVE  WrittenSoFar' /\ FlagsFollow'
<1>1. TypeOK /\ RunsExclusive /\ WrittenSoFar /\ FlagsFollow
  BY DEF IInv, Follow
<1>2. Population' = Population /\ Snapshot' = Snapshot /\ RejectedEdges' = RejectedEdges
  BY <1>1, ReadsStay
<1>3. ASSUME proc'[p].pc \in ToScore, flags' = flags,
             \A q \in Procs : q # p => proc'[q] = proc[q]
      PROVE  WrittenSoFar' /\ FlagsFollow'
  <2>1. FlagsFollow'
    BY <1>3 DEF FlagsFollow, At
  <2>2. \A q \in Procs : proc'[q].pc = "write" => proc'[q] = proc[q]
    BY <1>3 DEF ToScore, ToResolve, Resolving
  <2>3. WrittenSoFar'
    BY <1>1, <1>3, <2>2 DEF WrittenSoFar
  <2>4. QED
    BY <2>1, <2>3
<1>4. CASE ReadToResolve(p) \/ Upsert(p) \/ Persist(p)
  <2>1. \A q \in Procs : q # p => proc'[q] = proc[q]
    BY <1>1, <1>4 DEF ReadToResolve, Upsert, Persist, TypeOK
  <2>2. proc'[p].pc \in {"upsert", "persist", "score"}
    BY <1>1, <1>4 DEF ReadToResolve, Upsert, Persist, TypeOK, Local, Resting
  <2>3. flags' = flags
    BY <1>4 DEF ReadToResolve, Upsert, Persist, stored
  <2>4. QED
    BY <1>3, <2>1, <2>2, <2>3 DEF ToScore, Resolving
<1>5. CASE ReadToScore(p)
  <2>1. /\ proc'[p].pc = "evaluate" /\ proc'[p].seen = Snapshot
        /\ \A q \in Procs : q # p => proc'[q] = proc[q]
    BY <1>1, <1>5 DEF ReadToScore, TypeOK, Local
  <2>2. \A q \in Procs : proc'[q].pc \in Locked => q = p
    BY <1>5, <2>1, Inside DEF ReadToScore, Acquire
  <2>3. WrittenSoFar'
    BY <2>1, <2>2 DEF WrittenSoFar, Locked
  <2>4. FlagsFollow'
    BY <1>2, <2>1, <2>2 DEF FlagsFollow, At, Scoring, Locked
  <2>5. QED
    BY <2>3, <2>4
<1>6. ASSUME proc[p].pc \in Scoring
      PROVE  \A q \in Procs : proc[q].pc \in Locked => q = p
  BY <1>1, <1>6 DEF RunsExclusive, Scoring, Locked
<1>7. ASSUME proc[p].pc \in Scoring, owed' = owed,
             \A q \in Procs : q # p => proc'[q] = proc[q],
             owed \/ At(ToScore)
      PROVE  FlagsFollow'
  <2>1. At(ToScore) => At(ToScore)'
    BY <1>7 DEF At, ToScore, ToResolve, Resolving, Scoring
  <2>2. QED
    BY <1>7, <2>1 DEF FlagsFollow
<1>8. CASE Evaluate(p)
  <2> DEFINE seen == proc[p].seen
             todo == Target(seen, RejectedEdges, proc[p].list)
  <2>1. /\ proc[p].pc = "evaluate" /\ proc'[p].pc = "write" /\ proc'[p].seen = seen
        /\ proc'[p].barred = RejectedEdges /\ proc'[p].todo = todo
        /\ \A q \in Procs : q # p => proc'[q] = proc[q]
    BY <1>1, <1>8 DEF Evaluate, TypeOK, Local
  <2>2. \A q \in Procs : proc'[q].pc \in Locked => q = p
    BY <1>6, <2>1 DEF Scoring
  <2>3. flags' = flags /\ owed' = owed
    BY <1>8 DEF Evaluate, stored, bounds
  <2>4. \A a \in Seen(seen) \ todo : flags[a] = Findings(a, seen, RejectedEdges)
    BY DEF Target
  <2>5. WrittenSoFar'
    BY <2>1, <2>2, <2>3, <2>4 DEF WrittenSoFar, Locked
  <2>6. CASE ~(owed \/ At(ToScore))
    <3>1. seen = Snapshot
      BY <1>1, <2>1, <2>6 DEF FlagsFollow, Scoring
    <3>2. At(Scoring)'
      BY <2>1 DEF At, Scoring
    <3>3. \A q \in Procs : proc'[q].pc \in Scoring => q = p
      BY <2>2 DEF Scoring, Locked
    <3>4. QED
      BY <1>2, <2>1, <2>5, <3>1, <3>2, <3>3 DEF FlagsFollow
  <2>7. QED
    BY <1>7, <2>1, <2>3, <2>5, <2>6 DEF Scoring
<1>9. ASSUME NEW b \in Apps, Write(p, b) PROVE WrittenSoFar' /\ FlagsFollow'
  <2> DEFINE seen == proc[p].seen
             barred == proc[p].barred
  <2>1. /\ proc[p].pc = "write" /\ proc'[p].pc = "write" /\ proc'[p].seen = seen
        /\ proc'[p].barred = barred /\ proc'[p].todo = proc[p].todo \ {b}
        /\ \A q \in Procs : q # p => proc'[q] = proc[q]
    BY <1>1, <1>9 DEF Write, TypeOK, Local
  <2>2. \A q \in Procs : proc'[q].pc \in Locked => q = p
    BY <1>6, <2>1 DEF Scoring
  <2>3. flags' = [flags EXCEPT ![b] = Findings(b, seen, barred)] /\ owed' = owed
    BY <1>9 DEF Write, bounds
  <2>4. ASSUME NEW a \in Seen(seen) \ (proc[p].todo \ {b})
        PROVE  flags'[a] = Findings(a, seen, barred)
    <3>1. a \in Apps /\ flags \in [Apps -> SUBSET (Apps \X Nat \X {"within", "across"})]
      BY <1>1 DEF Seen, TypeOK
    <3>2. CASE a = b
      BY <2>3, <3>1, <3>2
    <3>3. CASE a # b
      <4>1. flags[a] = Findings(a, seen, barred)
        BY <1>1, <2>1, <3>3 DEF WrittenSoFar
      <4>2. QED
        BY <2>3, <3>1, <3>3, <4>1
    <3>4. QED
      BY <3>2, <3>3
  <2>5. WrittenSoFar'
    BY <2>1, <2>2, <2>4 DEF WrittenSoFar, Locked
  <2>6. CASE ~(owed \/ At(ToScore))
    <3>1. seen = Snapshot /\ barred = RejectedEdges
      BY <1>1, <2>1, <2>6 DEF FlagsFollow, Scoring
    <3>2. At(Scoring)'
      BY <2>1 DEF At, Scoring
    <3>3. \A q \in Procs : proc'[q].pc \in Scoring => q = p
      BY <2>2 DEF Scoring, Locked
    <3>4. QED
      BY <1>2, <2>1, <2>5, <3>1, <3>2, <3>3 DEF FlagsFollow
  <2>7. QED
    BY <1>7, <2>1, <2>3, <2>5, <2>6 DEF Scoring
<1>10. CASE Finish(p)
  <2> DEFINE seen == proc[p].seen
             barred == proc[p].barred
  <2>1. /\ proc[p].pc = "write" /\ proc[p].todo = {} /\ proc'[p].pc \in {"idle", "done"}
        /\ \A q \in Procs : q # p => proc'[q] = proc[q]
    BY <1>1, <1>10 DEF Finish, TypeOK, Resting
  <2>2. \A q \in Procs : proc'[q].pc \notin Locked
    BY <1>6, <2>1 DEF Scoring, Locked
  <2>3. flags' = flags /\ owed' = owed
    BY <1>10 DEF Finish, stored, bounds
  <2>4. \A a \in Seen(seen) : flags[a] = Findings(a, seen, barred)
    BY <1>1, <2>1 DEF WrittenSoFar
  <2>5. WrittenSoFar'
    BY <2>2 DEF WrittenSoFar, Locked
  <2>6. CASE ~(owed \/ At(ToScore))
    <3>1. seen = Snapshot /\ barred = RejectedEdges
      BY <1>1, <2>1, <2>6 DEF FlagsFollow, Scoring
    <3>2. Seen(seen) = Population
      BY <1>1, <3>1, SeenAll
    <3>3. FlagsCurrent
      BY <2>4, <3>1, <3>2 DEF FlagsCurrent
    <3>5. FlagsCurrent'
      BY <1>2, <2>3, <3>3 DEF FlagsCurrent
    <3>4. \A q \in Procs : proc'[q].pc \notin Scoring
      BY <2>2 DEF Scoring, Locked
    <3>6. QED
      BY <2>5, <3>4, <3>5 DEF FlagsFollow
  <2>7. QED
    BY <1>7, <2>1, <2>3, <2>5, <2>6 DEF Scoring
<1>11. QED
  BY <1>4, <1>5, <1>8, <1>9, <1>10 DEF Run

\* A pipeline that fails resolves the cycle again, or scores it again.
LEMMA FollowFailure ==
    ASSUME IInv, Follow, NEW a \in Apps, PipelineFails(a)
    PROVE  Follow'
<1>1. TypeOK /\ HouseholdsFollow /\ WrittenSoFar /\ a \in Procs
  BY DEF IInv, Follow, Procs
<1>2. Snapshot' = Snapshot /\ RejectedEdges' = RejectedEdges
  BY <1>1, ReadsStay
<1>3. flags' = flags /\ household' = household /\ owed' = owed
  BY DEF PipelineFails, stored
<1>4. CASE proc' = [proc EXCEPT ![a] = Resting("resolve")]
  <2>1. proc'[a] = Resting("resolve") /\ \A q \in Procs : q # a => proc'[q] = proc[q]
    BY <1>1, <1>4 DEF TypeOK
  <2>2. QED
    BY <1>1, <1>3, <2>1, Resumes DEF Resting, ToResolve
<1>5. CASE /\ proc[a].pc \in {"score", "evaluate", "write"}
           /\ proc' = [proc EXCEPT ![a] = [Resting("score") EXCEPT !.list = proc[a].list]]
  <2>1. proc'[a].pc = "score" /\ \A q \in Procs : q # a => proc'[q] = proc[q]
    BY <1>1, <1>5 DEF TypeOK, Resting
  <2>2. HouseholdsFollow'
    BY <1>1, <1>2, <1>3, <1>5, <2>1, HouseholdsApart DEF ToResolve, Resolving
  <2>3. FlagsFollow'
    BY <1>1, <2>1 DEF FlagsFollow, At, ToScore
  <2>4. \A q \in Procs : proc'[q].pc = "write" => proc'[q] = proc[q]
    BY <2>1
  <2>5. WrittenSoFar'
    BY <1>1, <1>3, <2>4 DEF WrittenSoFar
  <2>6. QED
    BY <2>2, <2>3, <2>5 DEF Follow
<1>6. QED
  BY <1>4, <1>5 DEF PipelineFails

LEMMA FollowStep == IInv /\ IInv' /\ Follow /\ [Next]_vars => Follow'
<1> SUFFICES ASSUME IInv, IInv', Follow, [Next]_vars PROVE Follow'
  OBVIOUS
<1>1. TypeOK
  BY DEF IInv
<1>2. ASSUME Population' = Population, Snapshot' = Snapshot, RejectedEdges' = RejectedEdges,
             UNCHANGED <<household, flags, proc, owed>>
      PROVE  Follow'
  BY <1>2 DEF Follow, HouseholdsFollow, WrittenSoFar, FlagsFollow, FlagsCurrent, At
<1>3. ASSUME NEW a \in Apps, Decide(a) PROVE Follow'
  <2>1. Population' = Population /\ Snapshot' = Snapshot /\ RejectedEdges' = RejectedEdges
    BY <1>1, <1>3, ReadsStay
  <2>2. QED
    BY <1>2, <1>3, <2>1 DEF Decide, stored
<1>4. CASE UNCHANGED vars
  <2>1. Population' = Population /\ Snapshot' = Snapshot /\ RejectedEdges' = RejectedEdges
    BY <1>4 DEF vars, inputs, stored, Population, Snapshot, RejectedEdges
  <2>2. QED
    BY <1>2, <1>4, <2>1 DEF vars, stored, bounds
<1>5. ASSUME NEW p \in Procs, Run(p) PROVE Follow'
  <2>1. HouseholdsFollow'
    BY <1>5, HouseholdsStep DEF Follow
  <2>2. WrittenSoFar' /\ FlagsFollow'
    BY <1>5, FlagsStep
  <2>3. QED
    BY <2>1, <2>2 DEF Follow
<1>6. CASE Next
  BY <1>3, <1>5, <1>6, FollowInput, FollowFailure DEF Next
<1>7. QED
  BY <1>4, <1>6

LEMMA FollowInvariance == Spec => []Follow
BY Invariance, FollowInit, FollowStep, PTL DEF Spec

LEMMA SettledAt ==
    ASSUME Settled
    PROVE  ~owed /\ ~At(ToScore) /\ ~At(ToResolve) /\ ~At(Resolving) /\ ~At(Scoring)
BY DEF Settled, At, ToScore, ToResolve, Resolving, Scoring

\* However uploads, verifications, trashings, confirmations, reviewed edges, runs and
\* crashes interleave, and however many there are: once nothing runs and no rescore was
\* lost, the stored households are the components of the cycle as it stands.
THEOREM HouseholdsSettle == Spec => []SettledHouseholds
<1>1. Follow => SettledHouseholds
  BY SettledAt DEF Follow, HouseholdsFollow, SettledHouseholds
<1>2. QED
  BY <1>1, FollowInvariance, PTL

\* Likewise every stored flag of the population is one the cycle as it stands has, and
\* none of those is missing.
THEOREM FlagsSettle == Spec => []SettledFlags
<1>1. Follow => SettledFlags
  BY SettledAt DEF Follow, FlagsFollow, FlagsCurrent, SettledFlags
<1>2. QED
  BY <1>1, FollowInvariance, PTL

\* Two applications that are joined and both there are in one component.
LEMMA JoinedTogether ==
    ASSUME NEW among, NEW barred, NEW a \in among, NEW b \in among, Joined(a, b, barred)
    PROVE  {a, b} \subseteq Component(a, among, barred)
<1>1. ASSUME NEW S \in SUBSET among, a \in S, Closed(S, among, barred)
      PROVE  b \in S
  BY <1>1 DEF Closed
<1>2. QED
  BY <1>1 DEF Component

\* Two members make a household.
LEMMA JoinedMembership ==
    ASSUME NEW seen, NEW barred, NEW a \in Seen(seen), NEW b \in Seen(seen), a # b,
           Joined(a, b, barred)
    PROVE  {a, b} \subseteq Membership(seen, barred)[a]
<1> DEFINE c == Component(a, Seen(seen), barred)
<1>1. {a, b} \subseteq c
  BY JoinedTogether
<1>2. c \in SUBSET Apps /\ IsFiniteSet(Apps) /\ a \in Apps
  BY EngineAssumption DEF Component, Seen
<1>3. IsFiniteSet(c) /\ Cardinality(c) \in Nat
  BY <1>2, FS_Subset, FS_CardinalityType
<1>4. Cardinality({a, b}) = 2
  <2>1. IsFiniteSet({a}) /\ Cardinality({a}) = 1
    BY FS_Singleton
  <2>2. {a, b} = {a} \cup {b} /\ b \notin {a}
    OBVIOUS
  <2>3. Cardinality({a} \cup {b}) = Cardinality({a}) + 1
    BY <2>1, <2>2, FS_AddElement
  <2>4. QED
    BY <2>1, <2>2, <2>3
<1>5. ~(Cardinality(c) < 2)
  <2>1. Cardinality({a, b}) <= Cardinality(c)
    BY <1>1, <1>3, FS_Subset
  <2>2. QED
    BY <1>3, <1>4, <2>1
<1>6. Membership(seen, barred)[a] = c
  BY <1>2, <1>5 DEF Membership
<1>7. QED
  BY <1>1, <1>6

\* And an edge that is on record and not rejected keeps the two it joins in one
\* household, however many edges, members and reviews there are.
THEOREM EdgesKeepTogether == Spec => []EdgesHold
<1>1. ASSUME TypeOK, SettledHouseholds PROVE EdgesHold
  <2> SUFFICES ASSUME Settled, NEW e \in LinkEdges, edge[e] = "active",
                      e[1] \subseteq Population, NEW a \in e[1]
               PROVE  household[a] # {} /\ e[1] \subseteq household[a]
    BY DEF EdgesHold
  <2>1. PICK b \in e[1] : a # b /\ e[1] = {a, b}
    BY EngineAssumption
  <2>2. household = Membership(Snapshot, RejectedEdges)
    BY <1>1 DEF SettledHouseholds
  <2>3. a \in Seen(Snapshot) /\ b \in Seen(Snapshot)
    BY <1>1, SeenAll
  <2>4. Joined(a, b, RejectedEdges)
    BY <2>1 DEF Joined, RejectedEdges
  <2>5. {a, b} \subseteq Membership(Snapshot, RejectedEdges)[a]
    BY <2>1, <2>3, <2>4, JoinedMembership
  <2>6. QED
    BY <2>1, <2>2, <2>5
<1>2. QED
  BY <1>1, TypeCorrect, HouseholdsSettle, PTL
-----------------------------------------------------------------------------
(* Components are households: nobody is in two of them.                     *)

LEMMA JoinedBothWays ==
    ASSUME NEW a, NEW b, NEW barred
    PROVE  Joined(a, b, barred) <=> Joined(b, a, barred)
<1>1. {a, b} = {b, a}
  OBVIOUS
<1>2. QED
  BY <1>1 DEF Joined

LEMMA RestIsClosed ==
    ASSUME NEW among, NEW barred, NEW S \in SUBSET among, Closed(S, among, barred)
    PROVE  Closed(among \ S, among, barred)
<1>1. ASSUME NEW c \in among \ S, NEW d \in S
      PROVE  ~Joined(c, d, barred)
  BY <1>1, JoinedBothWays DEF Closed
<1>2. \A d \in among \ (among \ S) : d \in S
  OBVIOUS
<1>3. QED
  BY <1>1, <1>2 DEF Closed

\* Whose component contains an application has the component of that application.
LEMMA OneComponent ==
    ASSUME NEW among, NEW barred, NEW a \in among, NEW b \in Component(a, among, barred)
    PROVE  Component(b, among, barred) = Component(a, among, barred)
<1>1. /\ b \in among
      /\ \A S \in SUBSET among : a \in S /\ Closed(S, among, barred) => b \in S
  BY DEF Component
<1>2. ASSUME NEW S \in SUBSET among, Closed(S, among, barred), b \in S
      PROVE  a \in S
  <2>1. SUFFICES ASSUME a \notin S
                 PROVE  FALSE
    OBVIOUS
  <2>2. Closed(among \ S, among, barred) /\ a \in among \ S
    BY <1>2, <2>1, RestIsClosed
  <2>3. QED
    BY <1>1, <1>2, <2>2
<1>3. \A S \in SUBSET among : Closed(S, among, barred) => (a \in S <=> b \in S)
  BY <1>1, <1>2
<1>4. QED
  BY <1>3 DEF Component

\* A component is what every set that holds both or neither of a joined pair keeps
\* together: the component of which Households shows that detectComponents computes it.
LEMMA ComponentsAgree ==
    ASSUME NEW among, NEW barred, NEW a \in among
    PROVE  Component(a, among, barred) =
               {b \in among : \A S \in SUBSET among :
                   /\ a \in S
                   /\ \A x, y \in among : {x, y} \in {e[1] : e \in LinkEdges \ barred} =>
                          (x \in S <=> y \in S)
                   => b \in S}
<1>1. ASSUME NEW x, NEW y
      PROVE  Joined(x, y, barred) <=> {x, y} \in {e[1] : e \in LinkEdges \ barred}
  BY DEF Joined
<1>2. ASSUME NEW S \in SUBSET among
      PROVE  Closed(S, among, barred) <=>
                 \A x, y \in among : Joined(x, y, barred) => (x \in S <=> y \in S)
  BY <1>2, JoinedBothWays DEF Closed
<1>3. \A S \in SUBSET among : Closed(S, among, barred) <=>
          \A x, y \in among : {x, y} \in {e[1] : e \in LinkEdges \ barred} =>
              (x \in S <=> y \in S)
  BY <1>1, <1>2
<1>4. QED
  BY <1>3 DEF Component

LEMMA MembershipApart ==
    ASSUME NEW seen, NEW barred, NEW a \in Apps, Membership(seen, barred)[a] # {}
    PROVE  /\ a \in Membership(seen, barred)[a]
           /\ \A b \in Membership(seen, barred)[a] :
                  b \in Apps /\ Membership(seen, barred)[b] = Membership(seen, barred)[a]
<1> DEFINE c(b) == Component(b, Seen(seen), barred)
<1>1. a \in Seen(seen) /\ ~(Cardinality(c(a)) < 2) /\ Membership(seen, barred)[a] = c(a)
  BY DEF Membership
<1>2. a \in c(a)
  BY <1>1 DEF Component
<1>3. ASSUME NEW b \in c(a)
      PROVE  b \in Apps /\ Membership(seen, barred)[b] = c(a)
  <2>1. b \in Seen(seen) /\ b \in Apps
    BY <1>3 DEF Component, Seen
  <2>2. c(b) = c(a)
    BY <1>1, <1>3, OneComponent
  <2>3. QED
    BY <1>1, <2>1, <2>2 DEF Membership
<1>4. QED
  BY <1>1, <1>2, <1>3

LEMMA ApartInit == Init => OneHouseholdEach
BY DEF Init, OneHouseholdEach

LEMMA ApartStep == OneHouseholdEach /\ [Next]_vars => OneHouseholdEach'
<1> SUFFICES ASSUME OneHouseholdEach, [Next]_vars
             PROVE  OneHouseholdEach'
  OBVIOUS
<1>1. ASSUME NEW p \in Procs, Persist(p)
      PROVE  OneHouseholdEach'
  <2>1. PICK seen, barred : household' = Membership(seen, barred)
    BY <1>1 DEF Persist, Rewritten
  <2>2. QED
    BY <2>1, MembershipApart DEF OneHouseholdEach
<1>2. household' = household \/ \E p \in Procs : Persist(p)
  BY DEF Next, Run, Submit, ReadDocument, Decide, PipelineFails, HandlerFails, Confirm,
     RecordVerification, Trash, RejectEdge, RestoreEdge, ReadToResolve, Upsert,
     ReadToScore, Evaluate, Write, Finish, vars, stored
<1>3. CASE household' = household
  BY <1>3 DEF OneHouseholdEach
<1>4. QED
  BY <1>1, <1>2, <1>3

\* Whatever runs, rejections and inputs come in between, the stored households never
\* overlap (service.ts, persistComponents).
THEOREM HouseholdsDisjoint == Spec => []OneHouseholdEach
BY ApartInit, ApartStep, PTL DEF Spec

-----------------------------------------------------------------------------
(* The lock is worked with, and every run counts down.                     *)

\* A pipeline begins with its application.
Unfiled == \A a \in Apps : status[a] = "none" => proc[a].pc = "idle"

Worked == TypeOK /\ RunsExclusive /\ LockIsWorked /\ Unfiled

LEMMA WorkedInit == Init => LockIsWorked /\ Unfiled
BY EngineAssumption DEF Init, LockIsWorked, Unfiled, Procs, Resting

\* What the steps of a run do to the lock and to its own place.
LEMMA RunPlaces ==
    ASSUME Worked, NEW p \in Procs, Run(p)
    PROVE  /\ \A q \in Procs : q # p => proc'[q] = proc[q]
           /\ \/ lock = None /\ lock' = p /\ proc'[p].pc \in Locked
              \/ lock = p /\ lock' = p /\ proc'[p].pc \in Locked
              \/ lock' = None
           /\ proc[p].pc \notin {"idle", "done", "read"}
<1>1. proc \in [Procs -> Local] /\ (proc[p].pc \in Locked => lock = p)
  BY DEF Worked, TypeOK, RunsExclusive
<1>2. CASE ReadToResolve(p)
  BY <1>1, <1>2 DEF ReadToResolve, Acquire, Resting, Locked
<1>3. CASE Upsert(p)
  BY <1>1, <1>3 DEF Upsert, Locked, Local
<1>4. CASE Persist(p)
  BY <1>1, <1>4 DEF Persist, Release
<1>5. CASE ReadToScore(p)
  BY <1>1, <1>5 DEF ReadToScore, Acquire, Locked, Local
<1>6. CASE Evaluate(p)
  BY <1>1, <1>6 DEF Evaluate, Locked, Local
<1>7. ASSUME NEW a \in Apps, Write(p, a)
      PROVE  /\ \A q \in Procs : q # p => proc'[q] = proc[q]
             /\ lock = p /\ lock' = p /\ proc'[p].pc \in Locked
             /\ proc[p].pc = "write"
  BY <1>1, <1>7 DEF Write, Locked, Local
<1>8. CASE Finish(p)
  BY <1>1, <1>8 DEF Finish, Release
<1> QED
  BY <1>2, <1>3, <1>4, <1>5, <1>6, <1>7, <1>8 DEF Run

\* The steps that are no run's: an input, or a failure that lets go of the lock.
LEMMA OtherPlaces ==
    ASSUME Worked, NEW p \in Procs,
           \/ p \in Apps /\ (Submit(p) \/ ReadDocument(p) \/ PipelineFails(p))
           \/ p \in Handlers /\ Handle(p)
           \/ p \in Handlers /\ HandlerFails(p)
    PROVE  /\ \A q \in Procs : q # p => proc'[q] = proc[q]
           /\ lock' \in {lock, None} /\ lock' # p
<1>1. proc \in [Procs -> Local] /\ lock \in Procs \cup {None} /\ p # None
      /\ (lock = p => proc[p].pc \in Locked)
      /\ \A a \in Apps : status[a] = "none" => proc[a].pc = "idle"
  BY EngineAssumption DEF Worked, TypeOK, LockIsWorked, Unfiled, Procs
<1>2. CASE p \in Apps /\ (Submit(p) \/ ReadDocument(p))
  BY <1>1, <1>2 DEF Submit, ReadDocument, Locked
<1>3. CASE p \in Apps /\ PipelineFails(p)
  BY <1>1, <1>3 DEF PipelineFails, Disconnect
<1>4. CASE p \in Handlers /\ Handle(p)
  BY <1>1, <1>4 DEF Handle, Locked
<1>5. CASE p \in Handlers /\ HandlerFails(p)
  BY <1>1, <1>5 DEF HandlerFails, Disconnect
<1> QED
  BY <1>2, <1>3, <1>4, <1>5

\* Who can have taken a step.
LEMMA Steppers ==
    ASSUME [Next]_vars
    PROVE  \/ \E p \in Procs : Run(p)
           \/ \E a \in Apps : Submit(a) \/ ReadDocument(a) \/ PipelineFails(a)
           \/ \E h \in Handlers : Handle(h) \/ HandlerFails(h)
           \/ proc' = proc /\ lock' = lock
<1>1. CASE Next
  BY <1>1 DEF Next, Decide, Confirm, RecordVerification, Trash, RejectEdge, RestoreEdge
<1> QED
  BY <1>1 DEF vars

LEMMA LockStep ==
    ASSUME Worked, [Next]_vars
    PROVE  LockIsWorked'
<1>1. ASSUME NEW p \in Procs, Run(p) PROVE LockIsWorked'
  BY <1>1, RunPlaces DEF LockIsWorked
<1>2. ASSUME NEW p \in Procs,
             \/ p \in Apps /\ (Submit(p) \/ ReadDocument(p) \/ PipelineFails(p))
             \/ p \in Handlers /\ Handle(p)
             \/ p \in Handlers /\ HandlerFails(p)
      PROVE  LockIsWorked'
  <2>1. (\A q \in Procs : q # p => proc'[q] = proc[q]) /\ lock' \in {lock, None} /\ lock' # p
    BY <1>2, OtherPlaces
  <2> QED
    BY <2>1 DEF LockIsWorked, Worked, TypeOK
<1> QED
  BY <1>1, <1>2, Steppers DEF Procs, LockIsWorked, Worked

LEMMA UnfiledStep ==
    ASSUME Worked, [Next]_vars
    PROVE  Unfiled'
<1> SUFFICES ASSUME NEW a \in Apps, status'[a] = "none" PROVE proc'[a].pc = "idle"
  BY DEF Unfiled
<1>0. /\ status \in [Apps -> {"none", "waiting", "queue", "decided", "trashed"}]
      /\ proc \in [Procs -> Local] /\ a \in Procs /\ Apps \cap Handlers = {}
  BY EngineAssumption DEF Worked, TypeOK, Procs
<1>1. status[a] = "none"
  <2>1. CASE status' = status
    BY <2>1
  <2>2. ASSUME NEW b \in Apps, Submit(b) \/ Decide(b) PROVE status[a] = "none"
    BY <1>0, <2>2 DEF Submit, Decide
  <2>3. ASSUME NEW b \in Apps, NEW h \in Handlers, Trash(h, b) PROVE status[a] = "none"
    BY <1>0, <2>3 DEF Trash
  <2>4. ASSUME NEW b \in Apps, NEW p \in Procs, Write(p, b) PROVE status[a] = "none"
    BY <1>0, <2>4 DEF Write, Promoted
  <2>5. CASE Next
    <3>1. \/ status' = status
          \/ \E b \in Apps : Submit(b) \/ Decide(b) \/ \E h \in Handlers : Trash(h, b)
          \/ \E p \in Procs : \E b \in Apps : Write(p, b)
      BY <2>5 DEF Next, Run, ReadDocument, PipelineFails, HandlerFails, Confirm,
         RecordVerification, RejectEdge, RestoreEdge, ReadToResolve, Upsert, Persist,
         ReadToScore, Evaluate, Finish, inputs
    <3> QED
      BY <2>1, <2>2, <2>3, <2>4, <3>1
  <2> QED
    BY <2>1, <2>5 DEF vars, inputs
<1>2. proc[a].pc = "idle"
  BY <1>1 DEF Worked, Unfiled
<1>3. ASSUME NEW p \in Procs, Run(p) PROVE proc'[a].pc = "idle"
  BY <1>0, <1>2, <1>3, RunPlaces
<1>4. ASSUME NEW b \in Apps, Submit(b) \/ ReadDocument(b) \/ PipelineFails(b)
      PROVE  proc'[a].pc = "idle"
  <2>1. b # a
    BY <1>0, <1>2, <1>4 DEF Submit, ReadDocument, PipelineFails
  <2>2. b \in Procs /\ \A q \in Procs : q # b => proc'[q] = proc[q]
    BY <1>4, OtherPlaces DEF Procs
  <2> QED
    BY <1>0, <1>2, <2>1, <2>2
<1>5. ASSUME NEW h \in Handlers, Handle(h) \/ HandlerFails(h) PROVE proc'[a].pc = "idle"
  <2>1. h # a /\ h \in Procs
    BY <1>0 DEF Procs
  <2>2. \A q \in Procs : q # h => proc'[q] = proc[q]
    BY <1>5, <2>1, OtherPlaces
  <2> QED
    BY <1>0, <1>2, <2>1, <2>2
<1> QED
  BY <1>2, <1>3, <1>4, <1>5, Steppers

LEMMA WorkedStep == Worked /\ IInv /\ IInv' /\ [Next]_vars => Worked'
BY LockStep, UnfiledStep DEF Worked, IInv

LEMMA WorkedInvariance == Spec => []Worked
<1>1. Init => Worked
  BY WorkedInit, IInvInit DEF Worked, IInv
<1> QED
  BY <1>1, WorkedStep, Invariance, PTL DEF Spec

\* A process that waits for the cycle's lock waits for a run in progress, whoever fails:
\* the lock is never left behind (service.ts, withCycleLock).
THEOREM LockNeverLeft == Spec => []LockIsWorked
<1>1. Worked => LockIsWorked
  BY DEF Worked
<1> QED
  BY <1>1, WorkedInvariance, PTL

LEMMA ToGoNatural ==
    ASSUME TypeOK, NEW p \in Procs
    PROVE  /\ StepsToGo(p) \in Nat /\ Cardinality(Apps) \in Nat
           /\ Cardinality(proc[p].todo) \in Nat /\ IsFiniteSet(proc[p].todo)
           /\ Cardinality(proc[p].todo) <= Cardinality(Apps)
<1>1. IsFiniteSet(Apps) /\ proc[p].todo \subseteq Apps
  BY EngineAssumption DEF TypeOK, Local
<1>2. /\ Cardinality(Apps) \in Nat /\ Cardinality(proc[p].todo) \in Nat
      /\ IsFiniteSet(proc[p].todo) /\ Cardinality(proc[p].todo) <= Cardinality(Apps)
  BY <1>1, FS_Subset, FS_CardinalityType
<1> QED
  BY <1>2 DEF StepsToGo

LEMMA RunToGo ==
    ASSUME TypeOK, TypeOK', NEW p \in Procs, Run(p)
    PROVE  StepsToGo(p)' < StepsToGo(p)
<1> DEFINE n == Cardinality(Apps)
<1>0. /\ proc \in [Procs -> Local] /\ n \in Nat
      /\ Cardinality(proc[p].todo) \in Nat /\ IsFiniteSet(proc[p].todo)
  BY ToGoNatural DEF TypeOK
<1>1. /\ proc[p].pc = "resolve" => StepsToGo(p) = n + 6
      /\ proc[p].pc = "upsert" => StepsToGo(p) = n + 5
      /\ proc[p].pc = "persist" => StepsToGo(p) = n + 4
      /\ proc[p].pc = "score" => StepsToGo(p) = n + 3
      /\ proc[p].pc = "evaluate" => StepsToGo(p) = n + 2
      /\ proc[p].pc = "write" => StepsToGo(p) = Cardinality(proc[p].todo) + 1
  BY DEF StepsToGo
<1>2. /\ proc'[p].pc = "upsert" => StepsToGo(p)' = n + 5
      /\ proc'[p].pc = "persist" => StepsToGo(p)' = n + 4
      /\ proc'[p].pc = "score" => StepsToGo(p)' = n + 3
      /\ proc'[p].pc = "evaluate" => StepsToGo(p)' = n + 2
      /\ proc'[p].pc = "write" => StepsToGo(p)' = Cardinality(proc'[p].todo) + 1
      /\ proc'[p].pc \in {"idle", "done"} => StepsToGo(p)' = 0
  BY DEF StepsToGo
<1> HIDE DEF n
<1>3. CASE ReadToResolve(p)
  BY <1>0, <1>1, <1>2, <1>3 DEF ReadToResolve, Resting
<1>4. CASE Upsert(p)
  BY <1>0, <1>1, <1>2, <1>4 DEF Upsert, Local
<1>5. CASE Persist(p)
  BY <1>0, <1>1, <1>2, <1>5 DEF Persist, Resting
<1>6. CASE ReadToScore(p)
  BY <1>0, <1>1, <1>2, <1>6 DEF ReadToScore, Local
<1>7. CASE Evaluate(p)
  <2>1. proc'[p].pc = "write" /\ proc[p].pc = "evaluate"
    BY <1>0, <1>7 DEF Evaluate, Local
  <2>2. proc'[p].todo \subseteq Apps
    BY DEF TypeOK, Local
  <2>3. Cardinality(proc'[p].todo) \in Nat /\ Cardinality(proc'[p].todo) <= n
    BY <2>2, EngineAssumption, FS_Subset, FS_CardinalityType DEF n
  <2> QED
    BY <1>0, <1>1, <1>2, <2>1, <2>3
<1>8. ASSUME NEW a \in Apps, Write(p, a)
      PROVE  StepsToGo(p)' < StepsToGo(p)
  <2>1. proc[p].pc = "write" /\ proc'[p].pc = "write" /\ a \in proc[p].todo
        /\ proc'[p].todo = proc[p].todo \ {a}
    BY <1>0, <1>8 DEF Write, Local
  <2> DEFINE T == proc[p].todo
  <2>2. Cardinality(T \ {a}) = Cardinality(T) - 1
    <3>1. IsFiniteSet(T) /\ a \in T
      BY <1>0, <2>1
    <3> HIDE DEF T
    <3> QED
      BY <3>1, FS_RemoveElement
  <2> QED
    BY <1>0, <1>1, <1>2, <2>1, <2>2
<1>9. CASE Finish(p)
  <2>1. proc[p].pc = "write" /\ proc'[p].pc \in {"idle", "done"}
    BY <1>0, <1>9 DEF Finish, Resting
  <2> QED
    BY <1>0, <1>1, <1>2, <2>1
<1> QED
  BY <1>3, <1>4, <1>5, <1>6, <1>7, <1>8, <1>9 DEF Run

\* A run of the engine ends after finitely many steps of its own, unless it fails, and it
\* fails only as often as there are faults: the steps a pipeline or a handler has to go
\* are a natural number (ToGoNatural) that each of its steps lowers, whatever others
\* write meanwhile.  With LockNeverLeft it is the safety half of RunsEnd.
THEOREM RunsOnlyCountDown == Spec => RunsCountDown
<1> DEFINE Down == \A p \in Procs :
              proc[p].pc # "idle" /\ proc'[p] # proc[p] /\ left'.faults = left.faults =>
                  StepsToGo(p)' < StepsToGo(p)
<1>1. Worked /\ Worked' /\ [Next]_vars => [Down]_vars
  <2> SUFFICES ASSUME Worked, Worked', [Next]_vars, NEW p \in Procs, proc[p].pc # "idle",
                      proc'[p] # proc[p], left'.faults = left.faults
               PROVE  StepsToGo(p)' < StepsToGo(p)
    OBVIOUS
  <2>0. TypeOK /\ TypeOK' /\ proc \in [Procs -> Local]
    BY DEF Worked, TypeOK
  <2>1. ASSUME NEW q \in Procs, Run(q)
        PROVE  StepsToGo(p)' < StepsToGo(p)
    <3>1. q = p
      BY <2>1, RunPlaces
    <3> QED
      BY <2>0, <2>1, <3>1, RunToGo
  <2>2. ASSUME NEW a \in Apps, Submit(a)
        PROVE  FALSE
    <3>1. a \in Procs /\ proc[a].pc = "idle"
      BY <2>2 DEF Submit, Worked, Unfiled, Procs
    <3> QED
      BY <2>2, <3>1, OtherPlaces
  <2>3. ASSUME NEW a \in Apps, ReadDocument(a)
        PROVE  StepsToGo(p)' < StepsToGo(p)
    <3>1. a = p
      BY <2>3, OtherPlaces DEF Procs
    <3>2. proc[p].pc = "read" /\ proc'[p].pc = "resolve"
      BY <2>0, <2>3, <3>1 DEF ReadDocument, Resting
    <3>3. StepsToGo(p) = Cardinality(Apps) + 7 /\ StepsToGo(p)' = Cardinality(Apps) + 6
      BY <3>2 DEF StepsToGo
    <3> QED
      BY <2>0, <3>3, ToGoNatural
  <2>4. ASSUME (\E a \in Apps : PipelineFails(a)) \/ (\E h \in Handlers : HandlerFails(h))
        PROVE  FALSE
    <3>1. left \in Limits /\ left'.faults = left.faults - 1
      BY <2>0, <2>4 DEF PipelineFails, HandlerFails, Fault, TypeOK, Limits
    <3> QED
      BY <3>1 DEF Limits
  <2>5. ASSUME NEW h \in Handlers, Handle(h)
        PROVE  FALSE
    <3>1. h \in Procs /\ proc[h].pc = "idle"
      BY <2>5 DEF Handle, Procs
    <3> QED
      BY <2>5, <3>1, OtherPlaces
  <2> QED
    BY <2>1, <2>2, <2>3, <2>4, <2>5, Steppers
<1> QED
  BY <1>1, WorkedInvariance, PTL DEF Spec, RunsCountDown
=============================================================================
