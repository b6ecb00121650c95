------------------------------ MODULE Pipeline ------------------------------
(***************************************************************************)
(* The document pipeline of apps/api/src/pipeline: the BullMQ job of each  *)
(* document (queue.ts), the workers that drive a document through its      *)
(* stages (worker.ts), the per-stage ledger in pipeline_stage_runs that    *)
(* makes redelivery harmless (stageRunner.ts), the sweep that re-enqueues  *)
(* what fell out (sweeper.ts) and the retry of a dead-lettered stage.      *)
(*                                                                         *)
(* One step is one database statement, one Redis call or one piece of      *)
(* stage work, so every interleaving of deliveries, crashes, retries and   *)
(* sweeps at those points is explored.  An application has one document    *)
(* and an applicant of its own, so its status and whether its applicant    *)
(* has confirmed the address are indexed by the document.  Audit rows are  *)
(* not modelled, a failure to write one is.                                *)
(***************************************************************************)
EXTENDS Integers, FiniteSets

CONSTANTS
    Docs, Workers,   \* a worker is one of a process's CONCURRENCY slots
    None,            \* the owner of a job nobody works on, the document of an idle slot
    NStages,         \* STAGE_ORDER.length: 5 in the code
    MaxAttempts,     \* MAX_ATTEMPTS: 4 in the code
    SlowWorkers,     \* may a live worker outlast STALE_RUNNING_MS and its job lock?
    MaxFaults,       \* bound: crashes, database errors, lost Redis calls, jobs and rescores
    MaxResets,       \* bound: retries of dead-lettered stages
    StaffActs        \* do staff decide or rescore while documents are processed?

ASSUME PipelineAssumption ==
    /\ NStages \in Nat \ {0}
    /\ MaxAttempts \in Nat \ {0}
    /\ MaxFaults \in Nat /\ MaxResets \in Nat
    /\ SlowWorkers \in BOOLEAN /\ StaffActs \in BOOLEAN
    /\ None \notin Workers /\ None \notin Docs

VARIABLES
    run,      \* run[d][s]: the row of pipeline_stage_runs; status "none" = no row
    quiet,    \* documents neither created nor touched in a stage for GRACE_MINUTES
    job,      \* job[d]: the BullMQ job whose id is the document's
    enq,      \* enq[d]: the calls of enqueueDocument in flight, by their next step
    worker,   \* worker[w]: where the slot is in processDocument and runStage
    status,   \* status[d]: applications.status
    email,    \* email[d]: the confirmation of the applicant's address
    faults, resets

vars == <<run, quiet, job, enq, worker, status, email, faults, resets>>

Stages   == 1..NStages
ScoreStage == NStages \* 'risk_score'

\* Mutant of JobBudget: one delivery per stage, the budget the code once had.
JobBudgetPerStage == NStages

\* The job's delivery budget: STAGE_COUNT * ATTEMPTS_PER_STAGE.
JobBudget == NStages * MaxAttempts

\* Where a slot can be.  "work".."permanent" hold a claim: doing the stage's work,
\* about to record its success, a retryable error, or an error with retryable: false.
Holding == {"work", "record", "retryable", "permanent"}
Pcs == {"idle", "mark", "claim", "look", "ack", "nack"} \cup Holding

\* The statuses in which an application still waits for its pipeline.
Waiting == {"submitted", "processing"}

\* How an address stands: "rescoring" while the rescore that follows its confirmation is
\* under way, "overlooked" (a history) once that rescore has died too late for the
\* document's own scoring to make up for it.
Emails == {"unconfirmed", "rescoring", "confirmed", "overlooked"}

\* What an applicant is told of a status, and the steps the status page marks as done.
toStage(s) ==
    IF s \in Waiting THEN "submitted" ELSE IF s = "ready_for_review" THEN "under_review" ELSE "decided"
StepsDone(s) == CASE toStage(s) = "submitted" -> 1
                  [] toStage(s) = "under_review" -> 2
                  [] toStage(s) = "decided" -> 3

NoRow  == [status |-> "none", attempts |-> 0, stale |-> FALSE]
NoJob  == [state |-> "none", owner |-> None, deliveries |-> 0]
Idle   == [pc |-> "idle", doc |-> None, stage |-> 1, attempts |-> 0]

Doc(w)   == worker[w].doc
Stage(w) == worker[w].stage
Row(w)   == run[Doc(w)][Stage(w)]
Goto(w, pc) == worker' = [worker EXCEPT ![w].pc = pc]
Fault == faults < MaxFaults /\ faults' = faults + 1

Init ==
    /\ run = [d \in Docs |-> [s \in Stages |-> NoRow]]
    /\ quiet = {}
    /\ job = [d \in Docs |-> NoJob]
    /\ enq = [d \in Docs |-> {}]
    /\ worker = [w \in Workers |-> Idle]
    /\ status = [d \in Docs |-> "none"]
    /\ email \in [Docs -> {"unconfirmed", "confirmed"}]
    /\ faults = 0 /\ resets = 0

-----------------------------------------------------------------------------
(* Enqueueing.                                                             *)

\* POST /applications: the row and the document commit, then the route enqueues.
Submit(d) ==
    /\ status[d] = "none"
    /\ status' = [status EXCEPT ![d] = "submitted"]
    /\ enq' = [enq EXCEPT ![d] = @ \cup {"look"}]
    /\ UNCHANGED <<run, quiet, job, worker, email, faults, resets>>

\* enqueueDocument, first half: a job kept in the completed or failed history
\* is removed so that the document's id is free; any other job is left alone.
EnqueueLook(d) ==
    /\ "look" \in enq[d]
    /\ enq' = [enq EXCEPT ![d] = (@ \ {"look"}) \cup {"add"}]
    /\ job' = IF job[d].state \in {"completed", "failed"}
              THEN [job EXCEPT ![d] = NoJob] ELSE job
    /\ UNCHANGED <<run, quiet, worker, status, email, faults, resets>>

\* enqueueDocument, second half: queue.add, which BullMQ ignores when the id exists.
EnqueueAdd(d) ==
    /\ "add" \in enq[d]
    /\ enq' = [enq EXCEPT ![d] = @ \ {"add"}]
    /\ job' = IF job[d].state = "none"
              THEN [job EXCEPT ![d].state = "waiting"] ELSE job
    /\ UNCHANGED <<run, quiet, worker, status, email, faults, resets>>

\* Redis is down, or the enqueuing process dies: the call is lost and nobody
\* retries it (the submit route and the sweep swallow the error, retry answers 500).
EnqueueLost(d) ==
    /\ enq[d] # {} /\ Fault
    /\ enq' = [enq EXCEPT ![d] = {}]
    /\ UNCHANGED <<run, quiet, job, worker, status, email, resets>>

\* POST /pipeline/retry: resetDeadLetteredStage, then enqueueDocument.
Retry(d, s) ==
    /\ resets < MaxResets
    /\ run[d][s].status = "dead_lettered"
    /\ run' = [run EXCEPT ![d][s].status = "pending", ![d][s].attempts = 0]
    /\ enq' = [enq EXCEPT ![d] = @ \cup {"look"}]
    /\ resets' = resets + 1
    /\ UNCHANGED <<quiet, job, worker, status, email, faults>>

\* Mutant of Sweep: looks for 'processing' only, so a lost first enqueue stays lost.
SweepProcessing(d) ==
    /\ status[d] = "processing"
    /\ \A s \in Stages : run[d][s].status # "dead_lettered"
    /\ d \in quiet /\ "look" \notin enq[d]
    /\ enq' = [enq EXCEPT ![d] = @ \cup {"look"}]
    /\ UNCHANGED <<run, quiet, job, worker, status, email, faults, resets>>

\* One document of sweepStuckDocuments.
Sweep(d) ==
    /\ status[d] \in Waiting
    /\ \A s \in Stages : run[d][s].status # "dead_lettered"
    /\ \E s \in Stages : run[d][s].status # "succeeded"
    /\ d \in quiet
    /\ "look" \notin enq[d]
    /\ enq' = [enq EXCEPT ![d] = @ \cup {"look"}]
    /\ UNCHANGED <<run, quiet, job, worker, status, email, faults, resets>>

-----------------------------------------------------------------------------
(* BullMQ, as far as the source relies on it (external).                   *)

\* An idle slot takes a waiting job; each delivery counts against the budget.
Deliver(w, d) ==
    /\ job[d].state = "waiting"
    /\ worker[w].pc = "idle"
    /\ job' = [job EXCEPT ![d] = [state |-> "active", owner |-> w,
                                  deliveries |-> @.deliveries + 1]]
    /\ worker' = [worker EXCEPT ![w] = [Idle EXCEPT !.pc = "mark", !.doc = d]]
    /\ UNCHANGED <<run, quiet, enq, status, email, faults, resets>>

\* The job's lock expired: it is given to another worker, or failed when it
\* stalled too often.  A live worker keeps its lock unless it is slow.
Stall(d) ==
    /\ job[d].state = "active"
    /\ job[d].owner = None \/ SlowWorkers
    /\ \E next \in {"waiting", "failed"} :
          job' = [job EXCEPT ![d].state = next, ![d].owner = None]
    /\ UNCHANGED <<run, quiet, enq, worker, status, email, faults, resets>>

\* The job is lost with its Redis.
JobLost(d) ==
    /\ job[d].state # "none" /\ Fault
    /\ job' = [job EXCEPT ![d] = NoJob]
    /\ UNCHANGED <<run, quiet, enq, worker, status, email, resets>>

\* processDocument returned: the job completes, if the slot still holds its lock.
Ack(w) ==
    /\ worker[w].pc = "ack"
    /\ job' = IF job[Doc(w)].owner = w
              THEN [job EXCEPT ![Doc(w)].state = "completed", ![Doc(w)].owner = None]
              ELSE job
    /\ worker' = [worker EXCEPT ![w] = Idle]
    /\ UNCHANGED <<run, quiet, enq, status, email, faults, resets>>

\* processDocument threw: the job waits for its next delivery, or fails for good
\* when its budget is spent.
Nack(w) ==
    /\ worker[w].pc = "nack"
    /\ LET j == job[Doc(w)] IN
          job' = IF j.owner # w THEN job
                 ELSE [job EXCEPT ![Doc(w)].owner = None,
                                  ![Doc(w)].state = IF j.deliveries < JobBudget
                                                    THEN "waiting" ELSE "failed"]
    /\ worker' = [worker EXCEPT ![w] = Idle]
    /\ UNCHANGED <<run, quiet, enq, status, email, faults, resets>>

\* The worker process is killed.  Its job stays active until it stalls, and the
\* row of the stage it was in stays 'running'.
Crash(w) ==
    /\ worker[w].pc # "idle" /\ Fault
    /\ job' = [d \in Docs |-> IF job[d].owner = w
                              THEN [job[d] EXCEPT !.owner = None] ELSE job[d]]
    /\ worker' = [worker EXCEPT ![w] = Idle]
    /\ UNCHANGED <<run, quiet, enq, status, email, resets>>

-----------------------------------------------------------------------------
(* processDocument and runStage.                                           *)

\* Mutant of MarkProcessing: whatever the status is.
MarkProcessingAlways(w) ==
    /\ worker[w].pc = "mark"
    /\ status' = [status EXCEPT ![Doc(w)] = "processing"]
    /\ Goto(w, "claim")
    /\ UNCHANGED <<run, quiet, job, enq, email, faults, resets>>

\* The application moves from submitted to processing.
MarkProcessing(w) ==
    /\ worker[w].pc = "mark"
    /\ status' = [status EXCEPT ![Doc(w)] = IF @ = "submitted" THEN "processing" ELSE @]
    /\ Goto(w, "claim")
    /\ UNCHANGED <<run, quiet, job, enq, email, faults, resets>>

\* Mutants of Eligible: a running row may be taken without waiting for the stale
\* timeout; anything that is not running may be taken.
EligibleRunning(r) ==
    \/ r.status \in {"none", "pending", "running"}
    \/ r.status = "failed" /\ r.attempts < MaxAttempts
EligibleUnlessRunning(r) == r.status # "running" \/ r.stale

\* The WHERE clause of claim(): which rows a slot may take.
Eligible(r) ==
    \/ r.status \in {"none", "pending"}
    \/ r.status = "failed" /\ r.attempts < MaxAttempts
    \/ r.status = "running" /\ r.stale

\* claim() wins: the row is ours and the work starts.
Claim(w) ==
    /\ worker[w].pc = "claim"
    /\ Eligible(Row(w))
    /\ run' = [run EXCEPT ![Doc(w)][Stage(w)] =
                 [status |-> "running", attempts |-> @.attempts + 1, stale |-> FALSE]]
    /\ worker' = [worker EXCEPT ![w].pc = "work", ![w].attempts = Row(w).attempts + 1]
    /\ quiet' = quiet \ {Doc(w)}
    /\ UNCHANGED <<job, enq, status, email, faults, resets>>

\* claim() matches no row: the state is read by a second statement.
ClaimRefused(w) ==
    /\ worker[w].pc = "claim"
    /\ ~Eligible(Row(w))
    /\ Goto(w, "look")
    /\ UNCHANGED <<run, quiet, job, enq, status, email, faults, resets>>

\* Where a slot goes once its stage has succeeded: the next stage, or home.
Proceed(w) ==
    worker' = IF Stage(w) < NStages
              THEN [worker EXCEPT ![w].pc = "claim", ![w].stage = @ + 1, ![w].attempts = 0]
              ELSE [worker EXCEPT ![w].pc = "ack", ![w].attempts = 0]

\* Mutant of Look: walks past any stage that is not dead-lettered.
LookPast(w) ==
    /\ worker[w].pc = "look"
    /\ IF Row(w).status # "dead_lettered" THEN Proceed(w) ELSE Goto(w, "ack")
    /\ UNCHANGED <<run, quiet, job, enq, status, email, faults, resets>>

\* currentState() and check() on a stage this slot did not run: past a succeeded
\* stage, otherwise stop without throwing and let its holder finish the chain.
Look(w) ==
    /\ worker[w].pc = "look"
    /\ IF Row(w).status = "succeeded" THEN Proceed(w) ELSE Goto(w, "ack")
    /\ UNCHANGED <<run, quiet, job, enq, status, email, faults, resets>>

\* The applications of reachable people.
Population == {d \in Docs : email[d] # "unconfirmed"}

\* What a run of the engine may have read as the population when it writes: those confirmed
\* meanwhile may be missing, for their own rescore waits until the run lets go of the cycle.
Readings == {seen \in SUBSET Population : \A d \in Docs : email[d] = "confirmed" => d \in seen}

\* Requested applications still waiting for their pipeline enter the queue.
Promote(apps) ==
    status' = [d \in Docs |-> IF d \in apps /\ status[d] \in Waiting
                              THEN "ready_for_review" ELSE status[d]]

\* The stage's work succeeds.  Scoring promotes the household it was asked to score, whose
\* members are any documents of the cycle, but nobody outside the population it read; what
\* the other stages store about the document is not told apart.
Work(w) ==
    /\ worker[w].pc = "work"
    /\ Goto(w, "record")
    /\ IF Stage(w) = ScoreStage
       THEN \E household \in SUBSET Docs : \E seen \in Readings :
               Doc(w) \in household /\ Promote(household \cap seen)
       ELSE UNCHANGED status
    /\ UNCHANGED <<run, quiet, job, enq, email, faults, resets>>

\* The stage's work throws.  Scoring commits application by application, so it
\* may have promoted some of the household first.
WorkThrows(w) ==
    /\ worker[w].pc = "work"
    /\ \E kind \in {"retryable", "permanent"} : Goto(w, kind)
    /\ IF Stage(w) = ScoreStage
       THEN \E written \in SUBSET Population : Promote(written)
       ELSE UNCHANGED status
    /\ UNCHANGED <<run, quiet, job, enq, email, faults, resets>>

\* The row is written by its id alone: whoever holds the stage now is not asked.
RecordSuccess(w) ==
    /\ worker[w].pc = "record"
    /\ run' = [run EXCEPT ![Doc(w)][Stage(w)].status = "succeeded",
                          ![Doc(w)][Stage(w)].stale = FALSE]
    /\ quiet' = quiet \ {Doc(w)}
    /\ Proceed(w)
    /\ UNCHANGED <<job, enq, status, email, faults, resets>>

\* Mutant of Exhausted: off by one.
ExhaustedLate(w) == worker[w].attempts > MaxAttempts \/ worker[w].pc = "permanent"

\* Attempts are counted as they were when this slot claimed the row.
Exhausted(w) == worker[w].attempts >= MaxAttempts \/ worker[w].pc = "permanent"

\* A dead letter ends the job quietly (unless its audit row cannot be written);
\* any other failure makes the job throw.
RecordFailure(w) ==
    /\ worker[w].pc \in {"retryable", "permanent"}
    /\ run' = [run EXCEPT ![Doc(w)][Stage(w)].stale = FALSE,
                          ![Doc(w)][Stage(w)].status =
                             IF Exhausted(w) THEN "dead_lettered" ELSE "failed"]
    /\ quiet' = quiet \ {Doc(w)}
    /\ \/ Goto(w, IF Exhausted(w) THEN "ack" ELSE "nack") /\ UNCHANGED faults
       \/ Exhausted(w) /\ Goto(w, "nack") /\ Fault
    /\ UNCHANGED <<job, enq, status, email, resets>>

\* A statement fails.  In the try block (the success write) the failure is taken
\* for the stage's own; anywhere else the job throws and the row stays as it was.
DatabaseFault(w) ==
    /\ worker[w].pc \in {"mark", "claim", "look", "record", "retryable", "permanent"}
    /\ Fault
    /\ Goto(w, IF worker[w].pc = "record" THEN "retryable" ELSE "nack")
    /\ UNCHANGED <<run, quiet, job, enq, status, email, resets>>

-----------------------------------------------------------------------------
(* Time, and staff acting on the application.                              *)

\* started_at falls behind STALE_RUNNING_MS.  The code takes the holder for dead.
GoStale(d, s) ==
    /\ run[d][s].status = "running" /\ ~run[d][s].stale
    /\ SlowWorkers \/ \A w \in Workers : ~( /\ worker[w].pc \in Holding
                                            /\ Doc(w) = d /\ Stage(w) = s )
    /\ run' = [run EXCEPT ![d][s].stale = TRUE]
    /\ UNCHANGED <<quiet, job, enq, worker, status, email, faults, resets>>

\* Ten minutes without a touch: longer than the stale timeout.
GoQuiet(d) ==
    /\ status[d] # "none" /\ d \notin quiet
    /\ \A s \in Stages : run[d][s].status = "running" => run[d][s].stale
    /\ quiet' = quiet \cup {d}
    /\ UNCHANGED <<run, job, enq, worker, status, email, faults, resets>>

\* POST /applications/:id/review accepts an application in any open status.
Decide(d) ==
    /\ StaffActs
    /\ status[d] \in Waiting \cup {"ready_for_review"}
    /\ status' = [status EXCEPT ![d] = "reviewed"]
    /\ UNCHANGED <<run, quiet, job, enq, worker, email, faults, resets>>

\* rescoreCycle, after an import, a confirmation, a verification result, a trashed
\* application or a reviewed edge: the whole population of the cycle is requested.
RescoreCycle ==
    /\ StaffActs
    /\ \E d \in Docs : status[d] \in Waiting
    /\ \E seen \in Readings : Promote(seen)
    /\ UNCHANGED <<run, quiet, job, enq, worker, email, faults, resets>>

-----------------------------------------------------------------------------
(* The applicant confirms a new address.                                   *)

\* A sign-in link is used; the rescore that lets the application in starts once the
\* request is answered.
Confirm(d) ==
    /\ email[d] = "unconfirmed" /\ status[d] # "none"
    /\ email' = [email EXCEPT ![d] = "rescoring"]
    /\ UNCHANGED <<run, quiet, job, enq, worker, status, faults, resets>>

\* That rescore comes to its end.
ConfirmationRescored(d) ==
    /\ email[d] = "rescoring"
    /\ \E seen \in Readings : d \in seen /\ Promote(seen)
    /\ email' = [email EXCEPT ![d] = "confirmed"]
    /\ UNCHANGED <<run, quiet, job, enq, worker, faults, resets>>

\* It dies with its process or a statement of it fails, some of the cycle written: it is
\* logged and nobody starts it again.  A scoring that begins later reads the application.
ConfirmationLost(d) ==
    /\ email[d] = "rescoring" /\ Fault
    /\ \E written \in SUBSET Population : Promote(written)
    /\ LET late == \/ run[d][ScoreStage].status = "succeeded"
                   \/ \E w \in Workers : /\ worker[w].pc \in {"work", "record"}
                                         /\ Doc(w) = d /\ Stage(w) = ScoreStage
       IN email' = [email EXCEPT ![d] = IF late THEN "overlooked" ELSE "confirmed"]
    /\ UNCHANGED <<run, quiet, job, enq, worker, resets>>

WorkerStep(w) ==
    \/ MarkProcessing(w) \/ Claim(w) \/ ClaimRefused(w) \/ Look(w)
    \/ Work(w) \/ WorkThrows(w) \/ RecordSuccess(w) \/ RecordFailure(w)
    \/ Ack(w) \/ Nack(w)

Next ==
    \/ \E d \in Docs :
          \/ Submit(d) \/ EnqueueLook(d) \/ EnqueueAdd(d) \/ EnqueueLost(d)
          \/ Sweep(d) \/ Stall(d) \/ JobLost(d) \/ GoQuiet(d) \/ Decide(d)
          \/ Confirm(d) \/ ConfirmationRescored(d) \/ ConfirmationLost(d)
          \/ \E s \in Stages : Retry(d, s) \/ GoStale(d, s)
    \/ \E w \in Workers :
          \/ WorkerStep(w) \/ Crash(w) \/ DatabaseFault(w)
          \/ \E d \in Docs : Deliver(w, d)
    \/ RescoreCycle

Spec == Init /\ [][Next]_vars

(***************************************************************************)
(* Live processes take their steps, BullMQ delivers what waits and detects *)
(* stalls, time passes, the sweep's timer fires and a rescore that has not *)
(* died ends.  Staff, applicants and faults are never owed a step.         *)
(***************************************************************************)
Fairness ==
    /\ \A w \in Workers : WF_vars(WorkerStep(w))
    /\ \A d \in Docs :
          /\ WF_vars(EnqueueLook(d)) /\ WF_vars(EnqueueAdd(d))
          /\ WF_vars(Sweep(d)) /\ WF_vars(Stall(d)) /\ WF_vars(GoQuiet(d))
          /\ WF_vars(ConfirmationRescored(d))
          /\ SF_vars(\E w \in Workers : Deliver(w, d))
          /\ \A s \in Stages : WF_vars(GoStale(d, s))

FairSpec == Spec /\ Fairness

-----------------------------------------------------------------------------
(* Properties.                                                             *)

RowType == [status : {"none", "pending", "running", "succeeded", "failed", "dead_lettered"},
            attempts : Nat, stale : BOOLEAN]
JobType == [state : {"none", "waiting", "active", "completed", "failed"},
            owner : Workers \cup {None}, deliveries : Nat]
SlotType == [pc : Pcs, doc : Docs \cup {None}, stage : Stages, attempts : Nat]

\* Type invariant.
TypeOK ==
    /\ run \in [Docs -> [Stages -> RowType]]
    /\ quiet \in SUBSET Docs
    /\ job \in [Docs -> JobType]
    /\ enq \in [Docs -> SUBSET {"look", "add"}]
    /\ worker \in [Workers -> SlotType]
    /\ status \in [Docs -> Waiting \cup {"none", "ready_for_review", "reviewed"}]
    /\ email \in [Docs -> Emails]
    /\ faults \in Nat /\ resets \in Nat

\* Slot w holds the claim of stage s of document d.
Holds(w, d, s) == worker[w].pc \in Holding /\ Doc(w) = d /\ Stage(w) = s

\* The claim is exclusive: redelivery, duplicate jobs and sweeps never put two
\* live slots to work on one stage of one document, and the one that holds it is
\* the one the row counts (stageRunner.ts: "a claim that loses the race does not run").
ClaimExclusive ==
    \A v, w \in Workers : \A d \in Docs : \A s \in Stages :
        Holds(v, d, s) /\ Holds(w, d, s) => v = w

\* A stage has been started only when every stage before it has succeeded, through
\* every redelivery, retry and crash (worker.ts: "stops the chain rather than
\* scoring on half a document").
ChainOrder ==
    \A d \in Docs : \A s \in Stages :
        run[d][s].status # "none" => \A t \in 1..(s - 1) : run[d][t].status = "succeeded"

\* A failed stage can still be claimed: no row is left in 'failed' with its attempts
\* spent, where no claim takes it, no dead-letter list shows it and every sweep
\* re-enqueues it for nothing (queue.ts: "a stage always reaches a terminal state
\* the database records").
FailedIsRetryable ==
    \A d \in Docs : \A s \in Stages :
        /\ run[d][s].status = "failed"
        /\ \A w \in Workers : ~Holds(w, d, s)
        => run[d][s].attempts < MaxAttempts

\* Unless something broke, no job runs out of deliveries: the budget covers every
\* stage exhausting its attempts (queue.ts, defaultJobOptions).
BudgetSuffices ==
    \A d \in Docs : job[d].state = "failed" => faults > 0

\* A succeeded stage stays succeeded and is never claimed again, and a dead-lettered
\* one changes only by a reviewer's retry (stageRunner.ts: "Succeeded and
\* dead-lettered stages are never re-run").
TerminalIsFinal ==
    [][\A d \in Docs : \A s \in Stages :
          /\ run[d][s].status = "succeeded" => run'[d][s] = run[d][s]
          /\ run[d][s].status = "dead_lettered" =>
                run'[d][s] = run[d][s] \/ run'[d][s].status = "pending"]_vars

\* What an applicant sees of an application never goes back, however late a worker, a
\* redelivery or a rescore writes its status and whatever staff decided meanwhile
\* (worker.ts, scoreApplicationsLocked; serializers.ts, StageList.tsx).
StagesGoForward ==
    [][\A d \in Docs : status[d] # "none" => StepsDone(status[d]) <= StepsDone(status'[d])]_vars

DeadLettered(d) == \E s \in Stages : run[d][s].status = "dead_lettered"
Finished(d) == \A s \in Stages : run[d][s].status = "succeeded"

\* No application of a confirmed applicant waits where no sweep looks: one whose stages have
\* all succeeded, so that no sweep would bring it to be scored again, has been promoted, also
\* when a late delivery marks it, when it was scored with somebody else's household, when its
\* applicant confirmed in mid-chain or after it, or when a worker died between scoring it and
\* recording the stage (sweeper.ts, sweepStuckDocuments; worker.ts; auth.ts).  Left out is
\* who has not used the link, who is not promoted on purpose, and who used it while or
\* after the document was scored, until the rescore this starts ends or for good if it dies.
SweepCovers ==
    \A d \in Docs : Finished(d) /\ email[d] = "confirmed" => status[d] \notin Waiting

\* The own steps a slot has left before it is idle again, at most.
StepsToGo(w) ==
    IF worker[w].pc = "idle" THEN 0
    ELSE IF worker[w].pc \in {"ack", "nack"} THEN 1
    ELSE 5 * (NStages - Stage(w))
         + (IF worker[w].pc = "mark" THEN 6
            ELSE IF worker[w].pc = "claim" THEN 5
            ELSE IF worker[w].pc = "work" THEN 4
            ELSE IF worker[w].pc \in {"record", "look"} THEN 3 ELSE 2)

\* A delivery is one pass over the chain: whatever a slot does brings it nearer to the end
\* of its job, whoever holds, fails or resets the stages meanwhile; it never takes up a
\* stage again (worker.ts, processDocument: BullMQ redelivers, the worker does not loop).
DeliveriesEnd ==
    [][\A w \in Workers :
          worker[w].pc # "idle" /\ worker'[w] # worker[w] => StepsToGo(w)' < StepsToGo(w)]_vars

\* No application falls out of the pipeline unseen: it leaves submitted and processing or has
\* a stage in the dead-letter list, whatever jobs, enqueues and workers are lost on the way
\* (sweeper.ts, header).  Two other ends are the code's: all stages have succeeded and it is
\* the applicant who has not used the link, or the link was used too late for the document's
\* own scoring and the one rescore that followed died.
NothingStuck ==
    \A d \in Docs : (status[d] \in Waiting) ~>
        \/ status[d] \notin Waiting \/ DeadLettered(d)
        \/ email[d] = "unconfirmed" /\ Finished(d)
        \/ email[d] = "overlooked"

\* The pipeline implements the abstract chain.
Chain == INSTANCE DocumentChain WITH
    done <- [d \in Docs |-> {s \in Stages : run[d][s].status = "succeeded"}],
    parked <- {d \in Docs : DeadLettered(d)}

ChainImplemented == Chain!ChainSpec
=============================================================================
