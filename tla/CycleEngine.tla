---------------------------- MODULE CycleEngine ----------------------------
(***************************************************************************)
(* The household and scoring engine of one admission cycle                 *)
(* (apps/api/src/household/service.ts) and everything that runs it: the    *)
(* last two stages of each application's pipeline (pipeline/stages.ts) and *)
(* the request handlers that change what the rules read and then call      *)
(* rescoreCycle (routes/applications.ts, routes/households.ts, routes/     *)
(* auth.ts).  Every run reads the population of the cycle, resolves or     *)
(* evaluates it in memory and writes the outcome, under the cycle's lock;  *)
(* inputs, however, commit at any moment.                                  *)
(*                                                                         *)
(* One step is one database statement or transaction.  A pipeline that     *)
(* fails is run again (Pipeline.tla); a handler that fails is not.         *)
(***************************************************************************)
EXTENDS Integers, FiniteSets

CONSTANTS
    Apps,          \* the applications of the cycle; each is also the process of its pipeline
    Handlers,      \* the requests the API can be serving at once
    None,          \* the holder of a free lock
    LinkEdges,     \* the match edges <<{a, b}, field>> of the pairs resolve.ts links
    Unconfirmed,   \* those whose applicant has not confirmed the address at first
    Across,        \* the pairs {a, b} some rule compares whatever their households
    Budgets        \* bounds, one for each scenario: who applies, what staff and
                   \* applicants may do afterwards, crashes and failed statements

Limits == [apps : SUBSET Apps, changes : Nat, faults : Nat]

ASSUME EngineAssumption ==
    /\ IsFiniteSet(Apps) /\ Apps \cap Handlers = {} /\ None \notin Apps \cup Handlers
    \* household_edges_canonical_order: an edge joins two different applications.
    /\ \A e \in LinkEdges : \E a, b \in Apps : a # b /\ e[1] = {a, b}
    /\ Across \in SUBSET SUBSET Apps /\ Unconfirmed \in SUBSET Apps
    /\ Budgets \in SUBSET Limits

VARIABLES
    status,      \* applications.status: "waiting" is submitted or processing
    confirmed,   \* the applications whose applicant's email is confirmed
    evidence,    \* evidence[a]: the version of what the rules read of a
    edge,        \* household_edges: each edge absent, active or rejected
    household,   \* household[a]: the members of a's household, {} for NULL
    flags,       \* flags[a]: what the stored flags and score of a were computed from
    lock,        \* the holder of the cycle's advisory lock
    proc,        \* proc[p]: where each pipeline and handler is, and what it has read
    owed,        \* has a rescore died that no later one has made up for?
    left         \* what the scenario has left

inputs == <<status, confirmed, evidence>>
stored == <<edge, household, flags>>
bounds == <<owed, left>>
vars == <<inputs, stored, lock, proc, bounds>>

Procs == Apps \cup Handlers

\* A process's local state: the evidence it read of the population, the edges it
\* read as rejected, the applications to rescore and those still to be written.
Absent == -1   \* the snapshot entry of an application outside the population
Nothing == [a \in Apps |-> Absent]
Resting(pc) == [pc |-> pc, seen |-> Nothing, barred |-> {}, list |-> {}, todo |-> {}]

-----------------------------------------------------------------------------
(* What the engine computes, as a function of what it read.                *)

\* applicationsInCycle: submitted, not trashed, by a reachable person.
Population == {a \in Apps : status[a] \notin {"none", "trashed"} /\ a \in confirmed}

\* One query.  The normalized columns filled in after it are a function of the form.
Snapshot == [a \in Apps |-> IF a \in Population THEN evidence[a] ELSE Absent]

\* The population of a snapshot.
Seen(seen) == {a \in Apps : seen[a] # Absent}

RejectedEdges == {e \in LinkEdges : edge[e] = "rejected"}

\* A linked pair counts while one of its edges survives.
Joined(a, b, barred) == \E e \in LinkEdges \ barred : e[1] = {a, b}

Closed(S, among, barred) == \A c \in S : \A d \in among \ S : ~Joined(c, d, barred)

\* The connected component of a among the applications `among`.
Component(a, among, barred) ==
    LET closed == {S \in SUBSET among : a \in S /\ Closed(S, among, barred)} IN
    {b \in among : \A S \in closed : b \in S}

\* Mutant of Membership: the bound on a component's size is off by one.
MembershipOfThree(seen, barred) ==
    [a \in Apps |-> IF a \notin Seen(seen) THEN {}
                    ELSE LET c == Component(a, Seen(seen), barred)
                         IN IF Cardinality(c) < 3 THEN {} ELSE c]

\* persistComponents: a component of one is no household.
Membership(seen, barred) ==
    [a \in Apps |-> IF a \notin Seen(seen) THEN {}
                    ELSE LET c == Component(a, Seen(seen), barred)
                         IN IF Cardinality(c) < 2 THEN {} ELSE c]

\* evaluateRules, for one application: all that its findings and its score can
\* depend on.  Rules look into the household, and across households at some pairs.
Findings(a, seen, barred) ==
    LET siblings == Component(a, Seen(seen), barred) IN
    {<<b, seen[b], IF b \in siblings THEN "within" ELSE "across">> :
        b \in {c \in Seen(seen) : c \in siblings \/ {a, c} \in Across}}

-----------------------------------------------------------------------------
(* The inputs.  A handler commits its change and goes on to rescoreCycle.  *)

Init ==
    /\ status = [a \in Apps |-> "none"]
    /\ confirmed = Apps \ Unconfirmed
    /\ evidence = [a \in Apps |-> 0]
    /\ edge = [e \in LinkEdges |-> "absent"]
    /\ household = [a \in Apps |-> {}]
    /\ flags = [a \in Apps |-> {}]
    /\ lock = None
    /\ proc = [p \in Procs |-> Resting("idle")]
    /\ owed = FALSE
    /\ left \in Budgets

\* POST /applications, and the document enters its pipeline.
Submit(a) ==
    /\ status[a] = "none"
    /\ status' = [status EXCEPT ![a] = "waiting"]
    /\ proc' = [proc EXCEPT ![a] = Resting("read")]
    /\ a \in left.apps /\ left' = [left EXCEPT !.apps = @ \ {a}]
    /\ UNCHANGED <<confirmed, evidence, stored, lock, owed>>

\* ocrExtract, forensicsAnalyze and verificationCheck store what they found.
ReadDocument(a) ==
    /\ proc[a].pc = "read"
    /\ evidence' = [evidence EXCEPT ![a] = @ + 1]
    /\ proc' = [proc EXCEPT ![a] = Resting("resolve")]
    /\ UNCHANGED <<status, confirmed, stored, lock, bounds>>

Change == left.changes > 0 /\ left' = [left EXCEPT !.changes = @ - 1]

\* A handler takes an input and will rescore the cycle.
Handle(h) ==
    /\ proc[h].pc = "idle"
    /\ Change
    /\ proc' = [proc EXCEPT ![h] = Resting("resolve")]
    /\ UNCHANGED <<lock, owed>>

\* POST /auth/applicant/consume-link.
Confirm(h, a) ==
    /\ Handle(h)
    /\ a \notin confirmed
    /\ confirmed' = confirmed \cup {a}
    /\ UNCHANGED <<status, evidence, stored>>

\* POST /applications/:id/verification, once the pipeline has made the link.
RecordVerification(h, a) ==
    /\ Handle(h)
    /\ evidence[a] > 0
    /\ evidence' = [evidence EXCEPT ![a] = @ + 1]
    /\ UNCHANGED <<status, confirmed, stored>>

\* POST /applications/:id/review with the decision trash.
Trash(h, a) ==
    /\ Handle(h)
    /\ status[a] \in {"waiting", "queue"}
    /\ status' = [status EXCEPT ![a] = "trashed"]
    /\ UNCHANGED <<confirmed, evidence, stored>>

\* Any other decision; nothing is rescored.
Decide(a) ==
    /\ status[a] \in {"waiting", "queue"}
    /\ status' = [status EXCEPT ![a] = "decided"]
    /\ Change
    /\ UNCHANGED <<confirmed, evidence, stored, lock, proc, owed>>

\* POST /households/edges/:id/reject and .../restore.
RejectEdge(h, e) ==
    /\ Handle(h)
    /\ edge[e] = "active"
    /\ edge' = [edge EXCEPT ![e] = "rejected"]
    /\ UNCHANGED <<inputs, household, flags>>

RestoreEdge(h, e) ==
    /\ Handle(h)
    /\ edge[e] = "rejected"
    /\ edge' = [edge EXCEPT ![e] = "active"]
    /\ UNCHANGED <<inputs, household, flags>>

-----------------------------------------------------------------------------
(* reconcileCycle.                                                         *)

\* Mutant of Acquire: only the reconciliation takes the cycle's lock.
AcquireToResolve(p) ==
    IF proc[p].pc = "resolve" THEN lock = None /\ lock' = p ELSE lock' = lock

\* withCycleLock: a waiter polls until the lock is free.
Acquire(p) == lock = None /\ lock' = p
Release == lock' = None

\* The population is read under the lock.
ReadToResolve(p) ==
    /\ proc[p].pc = "resolve"
    /\ Acquire(p)
    /\ proc' = [proc EXCEPT ![p] = [Resting("upsert") EXCEPT !.seen = Snapshot]]
    /\ owed' = (owed /\ p \notin Handlers)
    /\ UNCHANGED <<inputs, stored, left>>

\* The rejected keys are read and the edges of the linked pairs upserted.  What is
\* on record stays as it is: the conflict branch touches neither status.
Upsert(p) ==
    /\ proc[p].pc = "upsert"
    /\ edge' = [e \in LinkEdges |->
                  IF edge[e] = "absent" /\ e[1] \subseteq Seen(proc[p].seen)
                  THEN "active" ELSE edge[e]]
    /\ proc' = [proc EXCEPT ![p].pc = "persist", ![p].barred = RejectedEdges]
    /\ UNCHANGED <<inputs, household, flags, lock, bounds>>

\* Mutant of Rewritten: the membership of applications outside the population is kept.
RewrittenInPlace(seen, barred) ==
    [a \in Apps |-> IF a \in Seen(seen) THEN Membership(seen, barred)[a] ELSE household[a]]

\* The cycle's membership is cleared and written anew.
Rewritten(seen, barred) == Membership(seen, barred)

\* A pipeline goes on with the household its application landed in (or with that
\* application alone), a handler with the whole population.
RescoreList(p, seen, barred) ==
    IF p \in Handlers THEN Seen(seen)
    ELSE {p} \cup IF p \in Seen(seen) THEN Component(p, Seen(seen), barred) ELSE {}

\* Membership is persisted and the lock released.
Persist(p) ==
    /\ proc[p].pc = "persist"
    /\ LET seen == proc[p].seen  barred == proc[p].barred IN
          /\ household' = Rewritten(seen, barred)
          /\ proc' = [proc EXCEPT ![p] = [Resting("score") EXCEPT
                                            !.list = RescoreList(p, seen, barred)]]
    /\ Release
    /\ UNCHANGED <<inputs, edge, flags, bounds>>

-----------------------------------------------------------------------------
(* scoreApplications.                                                      *)

ReadToScore(p) ==
    /\ proc[p].pc = "score"
    /\ Acquire(p)
    /\ proc' = [proc EXCEPT ![p].pc = "evaluate", ![p].seen = Snapshot]
    /\ UNCHANGED <<inputs, stored, bounds>>

\* Mutant of Target: only the requested household is written.
TargetRequested(seen, barred, list) == list \cap Seen(seen)

\* The requested applications, and those whose stored flags the evaluation changes.
Target(seen, barred, list) ==
    {a \in Seen(seen) : a \in list \/ flags[a] # Findings(a, seen, barred)}

\* The rejected keys are read, the rules evaluated, the stored flags compared.
Evaluate(p) ==
    /\ proc[p].pc = "evaluate"
    /\ proc' = [proc EXCEPT ![p].pc = "write", ![p].barred = RejectedEdges,
                  ![p].todo = Target(proc[p].seen, RejectedEdges, proc[p].list)]
    /\ UNCHANGED <<inputs, stored, lock, bounds>>

\* Mutant of Promoted: an application is promoted by its own pipeline only.
PromotedByOwner(p, a) == p = a

\* Who enters the queue: a requested application that was waiting.
Promoted(p, a) == a \in proc[p].list /\ status[a] = "waiting"

\* One application's flags, score and promotion, in a transaction of its own.
Write(p, a) ==
    /\ proc[p].pc = "write" /\ a \in proc[p].todo
    /\ flags' = [flags EXCEPT ![a] = Findings(a, proc[p].seen, proc[p].barred)]
    /\ status' = IF Promoted(p, a) THEN [status EXCEPT ![a] = "queue"] ELSE status
    /\ proc' = [proc EXCEPT ![p].todo = @ \ {a}]
    /\ UNCHANGED <<confirmed, evidence, edge, household, lock, bounds>>

Finish(p) ==
    /\ proc[p].pc = "write" /\ proc[p].todo = {}
    /\ proc' = [proc EXCEPT ![p] = Resting(IF p \in Handlers THEN "idle" ELSE "done")]
    /\ Release
    /\ UNCHANGED <<inputs, stored, bounds>>

-----------------------------------------------------------------------------
(* Failure.                                                                *)

\* Mutant of Disconnect: a lock that outlives the session that took it.
DisconnectKeeping(p) == lock' = lock

\* The advisory lock goes with its connection; a run that throws unlocks it.
Disconnect(p) == lock' = IF lock = p THEN None ELSE lock

Fault == left.faults > 0 /\ left' = [left EXCEPT !.faults = @ - 1]

\* The handler dies or its rescore throws: the change stays, the rescore is lost.
HandlerFails(h) ==
    /\ proc[h].pc # "idle" /\ Fault
    /\ proc' = [proc EXCEPT ![h] = Resting("idle")]
    /\ Disconnect(h)
    /\ owed' = TRUE
    /\ UNCHANGED <<inputs, stored>>

\* The stage dies or throws and will be claimed again.  The list of applications to
\* rescore survives in the ledger, unless the worker died before recording it.
PipelineFails(a) ==
    /\ proc[a].pc \notin {"idle", "read", "done"} /\ Fault
    /\ \/ /\ proc[a].pc \in {"resolve", "upsert", "persist", "score"}
          /\ proc' = [proc EXCEPT ![a] = Resting("resolve")]
       \/ /\ proc[a].pc \in {"score", "evaluate", "write"}
          /\ proc' = [proc EXCEPT ![a] = [Resting("score") EXCEPT !.list = proc[a].list]]
    /\ Disconnect(a)
    /\ UNCHANGED <<inputs, stored, owed>>

Run(p) ==
    \/ ReadToResolve(p) \/ Upsert(p) \/ Persist(p)
    \/ ReadToScore(p) \/ Evaluate(p) \/ Finish(p)
    \/ \E a \in Apps : Write(p, a)

Next ==
    \/ \E p \in Procs : Run(p)
    \/ \E a \in Apps : Submit(a) \/ ReadDocument(a) \/ Decide(a) \/ PipelineFails(a)
    \/ \E h \in Handlers :
          \/ HandlerFails(h)
          \/ \E a \in Apps : Confirm(h, a) \/ RecordVerification(h, a) \/ Trash(h, a)
          \/ \E e \in LinkEdges : RejectEdge(h, e) \/ RestoreEdge(h, e)

Spec == Init /\ [][Next]_vars

\* Pipelines and handlers that run take their steps; a waiter that finds the lock
\* free for good takes it.  Inputs and faults are never owed a step.
Fairness ==
    /\ \A p \in Procs : WF_vars(Run(p))
    /\ \A a \in Apps : WF_vars(ReadDocument(a))

FairSpec == Spec /\ Fairness

-----------------------------------------------------------------------------
(* Properties.                                                             *)

Pcs == {"idle", "read", "resolve", "upsert", "persist", "score", "evaluate", "write", "done"}
Local == [pc : Pcs, seen : [Apps -> Nat \cup {Absent}],
          barred : SUBSET LinkEdges, list : SUBSET Apps, todo : SUBSET Apps]
Locked == {"upsert", "persist", "evaluate", "write"}

\* Type invariant.
TypeOK ==
    /\ status \in [Apps -> {"none", "waiting", "queue", "decided", "trashed"}]
    /\ confirmed \in SUBSET Apps
    /\ evidence \in [Apps -> Nat]
    /\ edge \in [LinkEdges -> {"absent", "active", "rejected"}]
    /\ household \in [Apps -> SUBSET Apps]
    /\ flags \in [Apps -> SUBSET (Apps \X Nat \X {"within", "across"})]
    /\ lock \in Procs \cup {None}
    /\ proc \in [Procs -> Local]
    /\ owed \in BOOLEAN /\ left \in Limits

\* Two runs of the engine never overlap.
RunsExclusive ==
    \A p \in Procs : proc[p].pc \in Locked => lock = p

\* Nothing is in flight, and no rescore was lost for good.
Settled == (\A p \in Procs : proc[p].pc \in {"idle", "done"}) /\ ~owed

\* Whatever the interleaving of uploads, verifications, trashings, confirmations and
\* reviewed edges, once the last run has ended the stored flags of every application
\* of the population are those of the population as it stands: none is left from
\* an application that was trashed or split off, none is missing because the other
\* side of a contradiction was never rewritten (service.ts: "A flag is a claim about
\* the application as it stands, not a log entry").
SettledFlags ==
    Settled => \A a \in Population : flags[a] = Findings(a, Snapshot, RejectedEdges)

\* Likewise the stored households are the components of the population as it stands:
\* no application is dropped from its household by a run that read the cycle earlier
\* than another one wrote it (service.ts, withCycleLock), and none keeps pointing at
\* a household it left.
SettledHouseholds ==
    Settled => household = Membership(Snapshot, RejectedEdges)

\* What the reviewer sees of a match is what the household is built on: two members
\* of the population with an edge that is on record and not rejected are in one
\* household, until the last of their edges is rejected (components.ts: "A pair
\* whose every supporting edge was rejected is no longer a link").
EdgesHold ==
    Settled => \A e \in LinkEdges :
        edge[e] = "active" /\ e[1] \subseteq Population =>
            \A a \in e[1] : household[a] # {} /\ e[1] \subseteq household[a]

\* At every moment, not only once settled, an application is in one household at most, and
\* whoever is in it is listed as such: what the one column household_id holds
\* (service.ts, persistComponents).
OneHouseholdEach ==
    \A a \in Apps : household[a] # {} =>
        a \in household[a] /\ \A b \in household[a] : household[b] = household[a]

\* While a run of the engine evaluates, what it read of an application's household
\* is what any earlier run wrote: flags are never replaced by older findings.
NeverOlder ==
    [][\A a \in Apps : \A old \in flags[a] : \A new \in flags'[a] :
          old[1] = new[1] => old[2] <= new[2]]_vars

\* Whoever waits for the cycle waits for somebody who works: the lock is never left with a
\* process that is idle, done or about to ask for it itself (withCycleLock releases it in
\* its finally, a dead session gives it up).
LockIsWorked == lock # None => proc[lock].pc \in Locked

\* The own steps process p has left, at most.
StepsToGo(p) ==
    IF proc[p].pc \in {"idle", "done"} THEN 0
    ELSE IF proc[p].pc = "write" THEN Cardinality(proc[p].todo) + 1
    ELSE Cardinality(Apps) + (IF proc[p].pc = "evaluate" THEN 2
                              ELSE IF proc[p].pc = "score" THEN 3
                              ELSE IF proc[p].pc = "persist" THEN 4
                              ELSE IF proc[p].pc = "upsert" THEN 5
                              ELSE IF proc[p].pc = "resolve" THEN 6 ELSE 7)

\* A run is never sent back: with each of its steps that is not a failure it has fewer to
\* go, and what others commit, write or reject meanwhile adds none.
RunsCountDown ==
    [][\A p \in Procs :
          proc[p].pc # "idle" /\ proc'[p] # proc[p] /\ left'.faults = left.faults =>
              StepsToGo(p)' < StepsToGo(p)]_vars

\* Every run of the engine ends, whoever else wants the lock and whoever dies with it.
RunsEnd ==
    \A p \in Procs : (proc[p].pc # "idle") ~> (proc[p].pc \in {"idle", "done"})

\* An application by a confirmed applicant leaves submitted and processing, unless
\* a rescore was lost.
ReachesQueue ==
    \A a \in Apps :
        (a \in Population /\ status[a] = "waiting") ~> (owed \/ status[a] # "waiting")
=============================================================================
