--------------------------- MODULE PipelineProofs ---------------------------
(***************************************************************************)
(* Proofs about Pipeline, for any documents, slots, stages and bounds.     *)
(***************************************************************************)
EXTENDS Pipeline, TLAPS

\* A slot that is not idle works on a document.
SlotHasDoc == \A w \in Workers : worker[w].pc # "idle" => Doc(w) \in Docs

TypeInv == TypeOK /\ SlotHasDoc

\* The applicant of document d confirms, or the rescore that follows comes to an end.
Confirming(d) == Confirm(d) \/ ConfirmationRescored(d) \/ ConfirmationLost(d)

\* None of this touches the ledger, the jobs or the slots.
LEMMA ConfirmingApart ==
    ASSUME NEW d \in Docs, Confirming(d)
    PROVE  UNCHANGED <<run, quiet, job, enq, worker, resets>>
BY DEF Confirming, Confirm, ConfirmationRescored, ConfirmationLost

LEMMA SlotUpdate ==
    ASSUME TypeInv, NEW w \in Workers, NEW x \in SlotType, x.pc # "idle" => x.doc \in Docs,
           worker' = [worker EXCEPT ![w] = x]
    PROVE  worker' \in [Workers -> SlotType] /\ SlotHasDoc'
BY DEF TypeInv, TypeOK, SlotHasDoc, SlotType, Doc

LEMMA GotoType ==
    ASSUME TypeInv, NEW w \in Workers, worker[w].pc # "idle", NEW pc \in Pcs, Goto(w, pc)
    PROVE  worker' \in [Workers -> SlotType] /\ SlotHasDoc'
<1> DEFINE x == [worker[w] EXCEPT !.pc = pc]
<1>1. worker[w] \in SlotType /\ worker[w].doc \in Docs
  BY DEF TypeInv, TypeOK, SlotHasDoc, Doc
<1>2. x \in SlotType /\ x.doc \in Docs
  BY <1>1 DEF SlotType
<1>3. worker' = [worker EXCEPT ![w] = x]
  BY DEF Goto
<1> QED
  BY <1>2, <1>3, SlotUpdate

LEMMA ProceedType ==
    ASSUME TypeInv, NEW w \in Workers, worker[w].pc # "idle", Proceed(w)
    PROVE  worker' \in [Workers -> SlotType] /\ SlotHasDoc'
<1> DEFINE x == [worker[w] EXCEPT !.pc = "claim", !.stage = @ + 1, !.attempts = 0]
           y == [worker[w] EXCEPT !.pc = "ack", !.attempts = 0]
<1>1. worker[w] \in SlotType /\ worker[w].doc \in Docs
  BY DEF TypeInv, TypeOK, SlotHasDoc, Doc
<1>2. CASE Stage(w) < NStages
  <2>1. x \in SlotType /\ x.doc \in Docs
    <3>1. worker[w].stage + 1 \in Stages
      BY <1>1, <1>2, PipelineAssumption DEF SlotType, Stage, Stages
    <3> QED
      BY <1>1, <3>1 DEF SlotType, Pcs
  <2>2. worker' = [worker EXCEPT ![w] = x]
    BY <1>2 DEF Proceed
  <2> QED
    BY <2>1, <2>2, SlotUpdate
<1>3. CASE ~(Stage(w) < NStages)
  <2>1. y \in SlotType /\ y.doc \in Docs
    BY <1>1 DEF SlotType, Pcs
  <2>2. worker' = [worker EXCEPT ![w] = y]
    BY <1>3 DEF Proceed
  <2> QED
    BY <2>1, <2>2, SlotUpdate
<1> QED
  BY <1>2, <1>3

LEMMA IdleType ==
    ASSUME TypeInv, NEW w \in Workers, worker' = [worker EXCEPT ![w] = Idle]
    PROVE  worker' \in [Workers -> SlotType] /\ SlotHasDoc'
<1>1. Idle \in SlotType /\ Idle.pc = "idle"
  BY PipelineAssumption DEF Idle, SlotType, Pcs, Stages
<1> QED
  BY <1>1, SlotUpdate

\* A new value for one row, or one job, of the right type.
LEMMA RowUpdate ==
    ASSUME TypeInv, NEW d \in Docs, NEW s \in Stages, NEW x \in RowType,
           run' = [run EXCEPT ![d][s] = x]
    PROVE  run' \in [Docs -> [Stages -> RowType]]
BY DEF TypeInv, TypeOK

LEMMA JobUpdate ==
    ASSUME TypeInv, NEW d \in Docs, NEW x \in JobType, job' = [job EXCEPT ![d] = x]
    PROVE  job' \in [Docs -> JobType]
BY DEF TypeInv, TypeOK

LEMMA TypeInit == Init => TypeInv
BY PipelineAssumption DEF Init, TypeInv, TypeOK, SlotHasDoc, RowType, JobType, SlotType,
   NoRow, NoJob, Idle, Pcs, Holding, Stages, Waiting, Emails, Doc

LEMMA TypeStep == TypeInv /\ [Next]_vars => TypeInv'
<1> SUFFICES ASSUME TypeInv, [Next]_vars PROVE TypeInv'
  OBVIOUS
<1> USE PipelineAssumption
<1>0. /\ job \in [Docs -> JobType] /\ run \in [Docs -> [Stages -> RowType]]
      /\ \A d \in Docs : job[d] \in JobType
      /\ \A d \in Docs : \A s \in Stages : run[d][s] \in RowType
      /\ \A w \in Workers : worker[w] \in SlotType
      /\ \A w \in Workers : worker[w].pc # "idle" => Doc(w) \in Docs /\ Stage(w) \in Stages
  BY DEF TypeInv, TypeOK, SlotHasDoc, SlotType, Doc, Stage
<1>1. ASSUME NEW d \in Docs, Submit(d) PROVE TypeInv'
  BY <1>0, <1>1 DEF Submit, Waiting, TypeInv, TypeOK, SlotHasDoc, Doc
<1>2. ASSUME NEW d \in Docs, EnqueueLook(d) PROVE TypeInv'
  BY <1>0, <1>2 DEF EnqueueLook, JobType, NoJob, TypeInv, TypeOK, SlotHasDoc, Doc
<1>3. ASSUME NEW d \in Docs, EnqueueAdd(d) PROVE TypeInv'
  BY <1>0, <1>3 DEF EnqueueAdd, JobType, TypeInv, TypeOK, SlotHasDoc, Doc
<1>4. ASSUME NEW d \in Docs, EnqueueLost(d) PROVE TypeInv'
  BY <1>0, <1>4 DEF EnqueueLost, Fault, TypeInv, TypeOK, SlotHasDoc, Doc
<1>5. ASSUME NEW d \in Docs, NEW s \in Stages, Retry(d, s) PROVE TypeInv'
  <2> DEFINE x == [run[d][s] EXCEPT !.status = "pending", !.attempts = 0]
  <2>1. x \in RowType
    BY <1>0, <1>5 DEF RowType
  <2>2. run' = [run EXCEPT ![d][s] = x]
    BY <1>0, <1>5 DEF Retry
  <2>3. run' \in [Docs -> [Stages -> RowType]]
    BY <2>1, <2>2, RowUpdate
  <2> QED
    BY <2>3, <1>5 DEF Retry, TypeInv, TypeOK, SlotHasDoc, Doc
<1>6. ASSUME NEW d \in Docs, Sweep(d) PROVE TypeInv'
  BY <1>0, <1>6 DEF Sweep, TypeInv, TypeOK, SlotHasDoc, Doc
<1>7. ASSUME NEW w \in Workers, NEW d \in Docs, Deliver(w, d) PROVE TypeInv'
  <2> DEFINE j == [state |-> "active", owner |-> w, deliveries |-> job[d].deliveries + 1]
             x == [Idle EXCEPT !.pc = "mark", !.doc = d]
  <2>1. j \in JobType /\ x \in SlotType /\ x.doc = d
    <3>1. 1 \in Stages /\ job[d].deliveries + 1 \in Nat
      BY <1>0 DEF Stages, JobType
    <3> QED
      BY <3>1 DEF JobType, SlotType, Idle, Pcs
  <2>2. job' = [job EXCEPT ![d] = j] /\ worker' = [worker EXCEPT ![w] = x]
    BY <1>0, <1>7 DEF Deliver
  <2>3. job' \in [Docs -> JobType] /\ worker' \in [Workers -> SlotType] /\ SlotHasDoc'
    BY <2>1, <2>2, JobUpdate, SlotUpdate
  <2> QED
    BY <2>3, <1>7 DEF Deliver, TypeInv, TypeOK
<1>8. ASSUME NEW d \in Docs, Stall(d) PROVE TypeInv'
  <2>1. PICK next \in {"waiting", "failed"} :
                 job' = [job EXCEPT ![d] = [job[d] EXCEPT !.state = next, !.owner = None]]
    BY <1>0, <1>8 DEF Stall
  <2>2. [job[d] EXCEPT !.state = next, !.owner = None] \in JobType
    BY <1>0 DEF JobType
  <2>3. job' \in [Docs -> JobType]
    BY <2>1, <2>2, JobUpdate
  <2> QED
    BY <2>3, <1>8 DEF Stall, TypeInv, TypeOK, SlotHasDoc, Doc
<1>9. ASSUME NEW d \in Docs, JobLost(d) PROVE TypeInv'
  BY <1>0, <1>9 DEF JobLost, Fault, JobType, NoJob, TypeInv, TypeOK, SlotHasDoc, Doc
<1>10. ASSUME NEW w \in Workers, Ack(w) PROVE TypeInv'
  <2>1. [job[Doc(w)] EXCEPT !.state = "completed", !.owner = None] \in JobType
    BY <1>0, <1>10 DEF Ack, JobType
  <2>2. job' \in [Docs -> JobType]
    BY <1>0, <2>1, <1>10 DEF Ack
  <2>3. worker' \in [Workers -> SlotType] /\ SlotHasDoc'
    BY <1>0, <1>10, IdleType DEF Ack
  <2> QED
    BY <2>2, <2>3, <1>10 DEF Ack, TypeInv, TypeOK
<1>11. ASSUME NEW w \in Workers, Nack(w) PROVE TypeInv'
  <2>1. \A st \in {"waiting", "failed"} :
           [job[Doc(w)] EXCEPT !.owner = None, !.state = st] \in JobType
    BY <1>0, <1>11 DEF Nack, JobType
  <2>2. job' \in [Docs -> JobType]
    BY <1>0, <2>1, <1>11 DEF Nack
  <2>3. worker' \in [Workers -> SlotType] /\ SlotHasDoc'
    BY <1>0, <1>11, IdleType DEF Nack
  <2> QED
    BY <2>2, <2>3, <1>11 DEF Nack, TypeInv, TypeOK
<1>12. ASSUME NEW w \in Workers, Crash(w) PROVE TypeInv'
  <2>1. \A d \in Docs : [job[d] EXCEPT !.owner = None] \in JobType
    BY <1>0 DEF JobType
  <2>2. job' \in [Docs -> JobType]
    BY <1>0, <2>1, <1>12 DEF Crash
  <2>3. worker' \in [Workers -> SlotType] /\ SlotHasDoc'
    BY <1>0, <1>12, IdleType DEF Crash
  <2> QED
    BY <2>2, <2>3, <1>12 DEF Crash, Fault, TypeInv, TypeOK
<1>13. ASSUME NEW w \in Workers, MarkProcessing(w) PROVE TypeInv'
  <2>1. worker' \in [Workers -> SlotType] /\ SlotHasDoc'
    BY <1>0, <1>13, GotoType DEF MarkProcessing, Pcs, Holding
  <2> QED
    BY <2>1, <1>13 DEF MarkProcessing, Waiting, TypeInv, TypeOK
<1>14. ASSUME NEW w \in Workers, Claim(w) PROVE TypeInv'
  <2> DEFINE r == [status |-> "running", attempts |-> Row(w).attempts + 1, stale |-> FALSE]
             x == [worker[w] EXCEPT !.pc = "work", !.attempts = Row(w).attempts + 1]
  <2>1. Doc(w) \in Docs /\ Stage(w) \in Stages /\ Row(w) \in RowType
    BY <1>0, <1>14 DEF Claim, Row, SlotType
  <2>2. r \in RowType /\ x \in SlotType /\ x.doc \in Docs
    <3>1. Row(w).attempts + 1 \in Nat
      BY <2>1 DEF RowType
    <3>2. r \in RowType
      BY <3>1 DEF RowType
    <3> QED
      BY <1>0, <1>14, <2>1, <3>1, <3>2 DEF SlotType, Pcs, Holding, Doc
  <2>3. run' = [run EXCEPT ![Doc(w)][Stage(w)] = r] /\ worker' = [worker EXCEPT ![w] = x]
    BY <1>0, <1>14, <2>1 DEF Claim, Row
  <2>4. run' \in [Docs -> [Stages -> RowType]] /\ worker' \in [Workers -> SlotType] /\ SlotHasDoc'
    BY <2>1, <2>2, <2>3, RowUpdate, SlotUpdate
  <2> QED
    BY <2>4, <1>14 DEF Claim, TypeInv, TypeOK
<1>15. ASSUME NEW w \in Workers, ClaimRefused(w) PROVE TypeInv'
  <2>1. worker' \in [Workers -> SlotType] /\ SlotHasDoc'
    BY <1>0, <1>15, GotoType DEF ClaimRefused, Pcs, Holding
  <2> QED
    BY <2>1, <1>15 DEF ClaimRefused, TypeInv, TypeOK
<1>16. ASSUME NEW w \in Workers, Look(w) PROVE TypeInv'
  <2>1. worker' \in [Workers -> SlotType] /\ SlotHasDoc'
    BY <1>0, <1>16, GotoType, ProceedType DEF Look, Pcs
  <2> QED
    BY <2>1, <1>16 DEF Look, TypeInv, TypeOK
<1>17. ASSUME NEW w \in Workers, Work(w) PROVE TypeInv'
  <2>1. worker' \in [Workers -> SlotType] /\ SlotHasDoc'
    BY <1>0, <1>17, GotoType DEF Work, Pcs, Holding
  <2> QED
    BY <2>1, <1>17 DEF Work, Promote, Waiting, TypeInv, TypeOK
<1>18. ASSUME NEW w \in Workers, WorkThrows(w) PROVE TypeInv'
  <2>1. worker' \in [Workers -> SlotType] /\ SlotHasDoc'
    BY <1>0, <1>18, GotoType DEF WorkThrows, Pcs, Holding
  <2> QED
    BY <2>1, <1>18 DEF WorkThrows, Promote, Waiting, TypeInv, TypeOK
<1>19. ASSUME NEW w \in Workers, RecordSuccess(w) PROVE TypeInv'
  <2> DEFINE r == [run[Doc(w)][Stage(w)] EXCEPT !.status = "succeeded", !.stale = FALSE]
  <2>1. Doc(w) \in Docs /\ Stage(w) \in Stages
    BY <1>0, <1>19 DEF RecordSuccess, SlotType
  <2>2. r \in RowType
    <3>1. run[Doc(w)][Stage(w)] \in RowType
      BY <1>0, <2>1
    <3> QED
      BY <3>1 DEF RowType
  <2>3. run' = [run EXCEPT ![Doc(w)][Stage(w)] = r]
    BY <1>0, <1>19 DEF RecordSuccess
  <2>4. run' \in [Docs -> [Stages -> RowType]]
    BY <2>1, <2>2, <2>3, RowUpdate
  <2>5. worker' \in [Workers -> SlotType] /\ SlotHasDoc'
    BY <1>0, <1>19, ProceedType DEF RecordSuccess
  <2> QED
    BY <2>4, <2>5, <1>19 DEF RecordSuccess, TypeInv, TypeOK
<1>20. ASSUME NEW w \in Workers, RecordFailure(w) PROVE TypeInv'
  <2> DEFINE st == IF Exhausted(w) THEN "dead_lettered" ELSE "failed"
             r == [run[Doc(w)][Stage(w)] EXCEPT !.stale = FALSE, !.status = st]
  <2>1. Doc(w) \in Docs /\ Stage(w) \in Stages
    BY <1>0, <1>20 DEF RecordFailure, SlotType
  <2>2. r \in RowType
    <3>1. run[Doc(w)][Stage(w)] \in RowType
      BY <1>0, <2>1
    <3> QED
      BY <3>1 DEF RowType
  <2>3. run' = [run EXCEPT ![Doc(w)][Stage(w)] = r]
    BY <1>0, <1>20 DEF RecordFailure
  <2>4. run' \in [Docs -> [Stages -> RowType]]
    BY <2>1, <2>2, <2>3, RowUpdate
  <2>5. worker' \in [Workers -> SlotType] /\ SlotHasDoc'
    <3>1. \E pc \in {"ack", "nack"} : Goto(w, pc)
      BY <1>20 DEF RecordFailure
    <3> QED
      BY <1>20, <3>1, GotoType DEF RecordFailure, Pcs
  <2> QED
    BY <2>4, <2>5, <1>20 DEF RecordFailure, Fault, TypeInv, TypeOK
<1>21. ASSUME NEW w \in Workers, DatabaseFault(w) PROVE TypeInv'
  <2>1. \E pc \in {"retryable", "nack"} : Goto(w, pc)
    BY <1>0, <1>21 DEF DatabaseFault
  <2>2. worker' \in [Workers -> SlotType] /\ SlotHasDoc'
    BY <1>0, <1>21, <2>1, GotoType DEF DatabaseFault, Pcs, Holding
  <2> QED
    BY <2>2, <1>21 DEF DatabaseFault, Fault, TypeInv, TypeOK
<1>22. ASSUME NEW d \in Docs, NEW s \in Stages, GoStale(d, s) PROVE TypeInv'
  <2>1. [run[d][s] EXCEPT !.stale = TRUE] \in RowType
    BY <1>0 DEF RowType
  <2>2. run' = [run EXCEPT ![d][s] = [run[d][s] EXCEPT !.stale = TRUE]]
    BY <1>22 DEF GoStale
  <2>3. run' \in [Docs -> [Stages -> RowType]]
    BY <2>1, <2>2, RowUpdate
  <2> QED
    BY <2>3, <1>22 DEF GoStale, TypeInv, TypeOK, SlotHasDoc, Doc
<1>23. ASSUME NEW d \in Docs, GoQuiet(d) PROVE TypeInv'
  BY <1>0, <1>23 DEF GoQuiet, TypeInv, TypeOK, SlotHasDoc, Doc
<1>24. ASSUME NEW d \in Docs, Decide(d) PROVE TypeInv'
  BY <1>0, <1>24 DEF Decide, Waiting, TypeInv, TypeOK, SlotHasDoc, Doc
<1>25. CASE RescoreCycle
  BY <1>0, <1>25 DEF RescoreCycle, Promote, Waiting, TypeInv, TypeOK, SlotHasDoc, Doc
<1>26. ASSUME NEW d \in Docs, Confirming(d) PROVE TypeInv'
  <2>1. status' \in [Docs -> Waiting \cup {"none", "ready_for_review", "reviewed"}]
    BY <1>26 DEF Confirming, Confirm, ConfirmationRescored, ConfirmationLost, Promote, Waiting,
       TypeInv, TypeOK
  <2>2. \E e \in Emails : email' = [email EXCEPT ![d] = e]
    <3>1. CASE Confirm(d) \/ ConfirmationRescored(d)
      BY <3>1 DEF Confirm, ConfirmationRescored, Emails
    <3>2. CASE ConfirmationLost(d)
      BY <3>2 DEF ConfirmationLost, Emails
    <3> QED
      BY <1>26, <3>1, <3>2 DEF Confirming
  <2>3. email' \in [Docs -> Emails]
    BY <2>2 DEF TypeInv, TypeOK
  <2>4. faults' \in Nat
    BY <1>26 DEF Confirming, Confirm, ConfirmationRescored, ConfirmationLost, Fault, TypeInv, TypeOK
  <2> QED
    BY <1>26, <2>1, <2>3, <2>4, ConfirmingApart DEF TypeInv, TypeOK, SlotHasDoc, Doc
<1>27. CASE UNCHANGED vars
  BY <1>0, <1>27 DEF vars, TypeInv, TypeOK, SlotHasDoc, Doc
<1> QED
  BY <1>1, <1>2, <1>3, <1>4, <1>5, <1>6, <1>7, <1>8, <1>9, <1>10, <1>11, <1>12, <1>13,
     <1>14, <1>15, <1>16, <1>17, <1>18, <1>19, <1>20, <1>21, <1>22, <1>23, <1>24, <1>25,
     <1>26, <1>27 DEF Next, WorkerStep, Confirming

\* The model's state keeps its types: in particular no slot ever runs past the last
\* stage and every job's owner is a slot or nobody.
THEOREM TypeCorrect == Spec => []TypeOK
<1>1. Spec => []TypeInv
  BY TypeInit, TypeStep, PTL DEF Spec
<1>2. TypeInv => TypeOK
  BY DEF TypeInv
<1> QED
  BY <1>1, <1>2, PTL

-----------------------------------------------------------------------------
(***************************************************************************)
(* Safety of the ledger when a live worker records its stage before the    *)
(* row goes stale (~SlowWorkers).  The claim is exclusive because a slot   *)
(* that holds one owns its row: the row is running, fresh and carries the  *)
(* slot's attempt number, so no claim, retry or late write can touch it.   *)
(***************************************************************************)

\* The slots that are somewhere in a document's chain.
OnChain == Holding \cup {"mark", "claim", "look"}

\* A slot with a claim owns its row.
OwnsRow(w) ==
    worker[w].pc \in Holding =>
        /\ Row(w).status = "running"
        /\ ~Row(w).stale
        /\ Row(w).attempts = worker[w].attempts

\* A slot reaches a stage only over succeeded ones.
PrefixDone(w) ==
    worker[w].pc \in OnChain =>
        \A t \in 1..(Stage(w) - 1) : run[Doc(w)][t].status = "succeeded"

\* A failed row has attempts left (FailedIsRetryable without its escape clause).
FailedAttempts ==
    \A d \in Docs : \A s \in Stages :
        run[d][s].status = "failed" => run[d][s].attempts < MaxAttempts

IInv ==
    /\ TypeInv
    /\ \A w \in Workers : OwnsRow(w) /\ PrefixDone(w)
    /\ ClaimExclusive
    /\ ChainOrder
    /\ FailedAttempts

LEMMA IInvInit == Init => IInv
<1> SUFFICES ASSUME Init PROVE IInv
  OBVIOUS
<1>1. TypeInv
  BY TypeInit
<1>2. \A w \in Workers : worker[w].pc = "idle"
  BY DEF Init, Idle
<1>3. \A d \in Docs : \A s \in Stages : run[d][s].status = "none"
  BY DEF Init, NoRow
<1> QED
  BY <1>1, <1>2, <1>3 DEF IInv, OwnsRow, PrefixDone, OnChain, Holding, ClaimExclusive, Holds,
     ChainOrder, FailedAttempts

\* Slots may move, let go of claims, start over at stage 1 or pass a succeeded
\* stage while the ledger stays as it is.
Moves(w) ==
    \/ worker'[w] = worker[w]
    \/ worker'[w].pc \notin OnChain
    \/ worker'[w].pc \in OnChain \ Holding /\ worker'[w].stage = 1
    \/ /\ worker'[w].pc \in OnChain \ Holding /\ worker[w].pc \in OnChain
       /\ worker'[w].doc = Doc(w)
       /\ \/ worker'[w].stage = Stage(w)
          \/ worker'[w].stage = Stage(w) + 1 /\ Row(w).status = "succeeded"
    \/ /\ worker'[w].pc \in Holding /\ worker[w].pc \in Holding
       /\ worker'[w].doc = Doc(w) /\ worker'[w].stage = Stage(w)
       /\ worker'[w].attempts = worker[w].attempts

LEMMA SlotsMove ==
    ASSUME IInv, TypeInv', run' = run, \A w \in Workers : Moves(w)
    PROVE  IInv'
<1> USE DEF Doc, Stage, Row
<1>0. \A w \in Workers : worker[w] \in SlotType /\ worker'[w] \in SlotType
  BY DEF IInv, TypeInv, TypeOK
<1>1. ASSUME NEW w \in Workers PROVE OwnsRow(w)'
  BY <1>1 DEF IInv, Moves, OwnsRow, OnChain
<1>2. ASSUME NEW w \in Workers PROVE PrefixDone(w)'
  <2> SUFFICES ASSUME worker'[w].pc \in OnChain, NEW t \in 1..(worker'[w].stage - 1)
               PROVE  run[worker'[w].doc][t].status = "succeeded"
    BY DEF PrefixDone
  <2>1. worker[w].stage \in Int /\ worker'[w].stage \in Int
    BY <1>0 DEF SlotType, Stages
  <2>2. OwnsRow(w) /\ PrefixDone(w) /\ Moves(w)
    BY DEF IInv
  <2>3. CASE worker'[w] = worker[w]
    BY <2>2, <2>3 DEF PrefixDone
  <2>4. CASE worker'[w].stage = 1
    BY <2>4
  <2>5. CASE worker[w].pc \in OnChain /\ worker'[w].doc = Doc(w) /\ worker'[w].stage = Stage(w)
    BY <2>2, <2>5 DEF PrefixDone
  <2>6. CASE /\ worker[w].pc \in OnChain /\ worker'[w].doc = Doc(w)
             /\ worker'[w].stage = Stage(w) + 1 /\ Row(w).status = "succeeded"
    <3>1. t \in 1..(Stage(w) - 1) \/ t = Stage(w)
      BY <2>1, <2>6
    <3> QED
      BY <2>2, <2>6, <3>1 DEF PrefixDone
  <2> QED
    BY <2>2, <2>3, <2>4, <2>5, <2>6 DEF Moves, OnChain
<1>3. ClaimExclusive'
  <2>1. \A w \in Workers : \A d, s : Holds(w, d, s)' => Holds(w, d, s)
    BY DEF Moves, Holds, OnChain
  <2> QED
    BY <2>1 DEF IInv, ClaimExclusive
<1>4. ChainOrder' /\ FailedAttempts'
  BY DEF IInv, ChainOrder, FailedAttempts
<1> QED
  BY <1>1, <1>2, <1>3, <1>4 DEF IInv

\* One row changes, and it was not a succeeded one: what succeeded before still
\* has, the chain stays in order and no failed row runs out of attempts.
LEMMA RowChanges ==
    ASSUME IInv, NEW d \in Docs, NEW s \in Stages, NEW x \in RowType,
           run' = [run EXCEPT ![d][s] = x],
           run[d][s].status # "succeeded",
           \/ run[d][s].status # "none"
           \/ \A t \in 1..(s - 1) : run[d][t].status = "succeeded",
           x.status = "failed" => x.attempts < MaxAttempts
    PROVE  /\ run'[d][s] = x
           /\ \A e \in Docs : \A t \in Stages : (e # d \/ t # s) => run'[e][t] = run[e][t]
           /\ \A e \in Docs : \A t \in Stages :
                 run[e][t].status = "succeeded" => run'[e][t].status = "succeeded"
           /\ ChainOrder' /\ FailedAttempts'
<1>1. /\ run'[d][s] = x
      /\ \A e \in Docs : \A t \in Stages : (e # d \/ t # s) => run'[e][t] = run[e][t]
  BY DEF IInv, TypeInv, TypeOK
<1>2. \A e \in Docs : \A t \in Stages :
         run[e][t].status = "succeeded" => run'[e][t].status = "succeeded"
  BY <1>1
<1>3. ChainOrder'
  <2> SUFFICES ASSUME NEW e \in Docs, NEW u \in Stages, run'[e][u].status # "none",
                      NEW t \in 1..(u - 1)
               PROVE  run'[e][t].status = "succeeded"
    BY DEF ChainOrder
  <2>1. t \in Stages
    BY PipelineAssumption DEF Stages
  <2>2. run[e][t].status = "succeeded"
    BY <1>1 DEF IInv, ChainOrder
  <2> QED
    BY <1>2, <2>1, <2>2
<1>4. FailedAttempts'
  BY <1>1 DEF IInv, FailedAttempts
<1> QED
  BY <1>1, <1>2, <1>3, <1>4

\* The slots whose step leaves the ledger alone.
LEMMA GotoMoves ==
    ASSUME IInv, NEW w \in Workers, NEW pc \in Pcs, Goto(w, pc),
           \/ pc \notin OnChain
           \/ pc \in OnChain \ Holding /\ worker[w].pc \in OnChain
           \/ pc \in Holding /\ worker[w].pc \in Holding
    PROVE  \A v \in Workers : Moves(v)
<1>1. /\ worker \in [Workers -> SlotType]
      /\ worker' = [worker EXCEPT ![w] = [worker[w] EXCEPT !.pc = pc]]
      /\ worker[w] \in SlotType
  BY DEF IInv, TypeInv, TypeOK, Goto
<1>2. /\ worker'[w].pc = pc /\ worker'[w].doc = worker[w].doc
      /\ worker'[w].stage = worker[w].stage /\ worker'[w].attempts = worker[w].attempts
  BY <1>1 DEF SlotType
<1>3. \A v \in Workers : v # w => worker'[v] = worker[v]
  BY <1>1
<1> QED
  BY <1>2, <1>3 DEF Moves, Doc, Stage, OnChain

LEMMA ProceedMoves ==
    ASSUME IInv, NEW w \in Workers, worker[w].pc \in OnChain, Proceed(w)
    PROVE  /\ \A v \in Workers : v # w => worker'[v] = worker[v]
           /\ \/ worker'[w].pc = "ack"
              \/ worker'[w].pc = "claim" /\ worker'[w].doc = Doc(w) /\ worker'[w].stage = Stage(w) + 1
BY DEF IInv, TypeInv, TypeOK, SlotType, Proceed, Doc, Stage

LEMMA IdleMoves ==
    ASSUME IInv, NEW w \in Workers, worker' = [worker EXCEPT ![w] = Idle]
    PROVE  \A v \in Workers : Moves(v)
BY DEF IInv, TypeInv, TypeOK, SlotType, Idle, Moves, OnChain, Holding

\* The row a holder writes is its own, and nobody else holds it.
LEMMA HolderRow ==
    ASSUME IInv, NEW w \in Workers, worker[w].pc \in Holding
    PROVE  /\ Doc(w) \in Docs /\ Stage(w) \in Stages /\ Row(w) \in RowType
           /\ Row(w) = run[Doc(w)][Stage(w)]
           /\ Row(w).status = "running"
           /\ Row(w).attempts = worker[w].attempts
           /\ \A v \in Workers : v # w => ~Holds(v, Doc(w), Stage(w))
<1>1. Doc(w) \in Docs /\ Stage(w) \in Stages
  BY DEF IInv, TypeInv, TypeOK, SlotHasDoc, SlotType, Holding, Stage
<1>2. Holds(w, Doc(w), Stage(w))
  BY DEF Holds
<1> QED
  BY <1>1, <1>2 DEF IInv, TypeInv, TypeOK, OwnsRow, ClaimExclusive, Row

\* A row that is not running, or is stale, is held by nobody.
LEMMA FreeRow ==
    ASSUME IInv, NEW d \in Docs, NEW s \in Stages,
           run[d][s].status # "running" \/ run[d][s].stale
    PROVE  \A v \in Workers : ~Holds(v, d, s)
BY DEF IInv, OwnsRow, Holds, Row

\* One row changes while the slots that stay in their chains and hold other rows
\* stay as they were: the slot of the step is judged apart.
LEMMA OthersKeep ==
    ASSUME IInv, TypeInv', NEW d \in Docs, NEW s \in Stages,
           \A e \in Docs : \A t \in Stages : (e # d \/ t # s) => run'[e][t] = run[e][t],
           \A e \in Docs : \A t \in Stages :
              run[e][t].status = "succeeded" => run'[e][t].status = "succeeded",
           NEW v \in Workers, worker'[v] = worker[v], ~Holds(v, d, s)
    PROVE  OwnsRow(v)' /\ PrefixDone(v)'
<1>1. OwnsRow(v) /\ PrefixDone(v)
  BY DEF IInv
<1>2. OwnsRow(v)'
  <2> SUFFICES ASSUME worker[v].pc \in Holding
               PROVE  run'[Doc(v)][Stage(v)] = run[Doc(v)][Stage(v)]
    BY <1>1 DEF OwnsRow, Row, Doc, Stage
  <2> QED
    BY HolderRow DEF Holds
<1>3. PrefixDone(v)'
  <2> SUFFICES ASSUME worker[v].pc \in OnChain, NEW t \in 1..(Stage(v) - 1)
               PROVE  run'[Doc(v)][t].status = "succeeded"
    BY DEF PrefixDone, Doc, Stage
  <2>1. Doc(v) \in Docs /\ Stage(v) \in Stages
    BY DEF IInv, TypeInv, TypeOK, SlotHasDoc, SlotType, OnChain, Holding, Stage
  <2>2. t \in Stages
    BY <2>1, PipelineAssumption DEF Stages
  <2> QED
    BY <1>1, <2>1, <2>2 DEF PrefixDone
<1> QED
  BY <1>2, <1>3

\* When the slots stay put and only a free row changes.
LEMMA FreeRowChanges ==
    ASSUME IInv, TypeInv', worker' = worker,
           NEW d \in Docs, NEW s \in Stages, NEW x \in RowType,
           run' = [run EXCEPT ![d][s] = x],
           run[d][s].status # "succeeded", run[d][s].status # "none",
           x.status # "failed",
           \A v \in Workers : ~Holds(v, d, s)
    PROVE  IInv'
<1>1. /\ \A e \in Docs : \A t \in Stages : (e # d \/ t # s) => run'[e][t] = run[e][t]
      /\ \A e \in Docs : \A t \in Stages :
             run[e][t].status = "succeeded" => run'[e][t].status = "succeeded"
      /\ ChainOrder' /\ FailedAttempts'
  BY RowChanges
<1>2. \A v \in Workers : OwnsRow(v)' /\ PrefixDone(v)'
  BY <1>1, OthersKeep
<1>3. ClaimExclusive'
  BY DEF IInv, ClaimExclusive, Holds, Doc, Stage
<1> QED
  BY <1>1, <1>2, <1>3 DEF IInv

LEMMA ClaimStep ==
    ASSUME IInv, TypeInv', NEW w \in Workers, Claim(w)
    PROVE  IInv'
<1> DEFINE d == Doc(w)
           s == Stage(w)
           x == [status |-> "running", attempts |-> run[d][s].attempts + 1, stale |-> FALSE]
<1>1. d \in Docs /\ s \in Stages /\ run[d][s] \in RowType /\ worker[w] \in SlotType
  BY DEF IInv, TypeInv, TypeOK, SlotHasDoc, SlotType, Claim, Stage
<1>2. x \in RowType
  BY <1>1 DEF RowType
<1>3. Eligible(run[d][s])
  BY DEF Claim, Row
<1>4. run' = [run EXCEPT ![d][s] = x]
  BY <1>1 DEF Claim
<1>5. \A t \in 1..(s - 1) : run[d][t].status = "succeeded"
  BY DEF IInv, PrefixDone, OnChain, Claim
<1>6. run[d][s].status # "succeeded" /\ (run[d][s].status # "running" \/ run[d][s].stale)
  BY <1>3 DEF Eligible
<1>7. /\ run'[d][s] = x
      /\ \A e \in Docs : \A t \in Stages : (e # d \/ t # s) => run'[e][t] = run[e][t]
      /\ \A e \in Docs : \A t \in Stages :
             run[e][t].status = "succeeded" => run'[e][t].status = "succeeded"
      /\ ChainOrder' /\ FailedAttempts'
  BY <1>1, <1>2, <1>4, <1>5, <1>6, RowChanges
<1>8. \A v \in Workers : ~Holds(v, d, s)
  BY <1>1, <1>6, FreeRow
<1>9. /\ worker'[w].pc = "work" /\ worker'[w].doc = d /\ worker'[w].stage = s
      /\ worker'[w].attempts = x.attempts
      /\ \A v \in Workers : v # w => worker'[v] = worker[v]
  BY <1>1 DEF Claim, Row, IInv, TypeInv, TypeOK, SlotType, Doc, Stage
<1>10. \A v \in Workers : v # w => OwnsRow(v)' /\ PrefixDone(v)'
  BY <1>1, <1>7, <1>8, <1>9, OthersKeep
<1>11. OwnsRow(w)'
  BY <1>7, <1>9 DEF OwnsRow, Row, Doc, Stage
<1>12. PrefixDone(w)'
  <2>1. \A t \in 1..(s - 1) : t \in Stages
    BY <1>1, PipelineAssumption DEF Stages
  <2> QED
    BY <1>1, <1>5, <1>7, <1>9, <2>1 DEF PrefixDone, Doc, Stage
<1>13. ClaimExclusive'
  <2>1. \A v \in Workers : v # w => ~Holds(v, d, s)' /\ \A e, t : Holds(v, e, t)' => Holds(v, e, t)
    BY <1>8, <1>9 DEF Holds, Doc, Stage
  <2>2. \A e, t : Holds(w, e, t)' => e = d /\ t = s
    BY <1>9 DEF Holds, Doc, Stage
  <2> SUFFICES ASSUME NEW u \in Workers, NEW v \in Workers, NEW e \in Docs, NEW t \in Stages,
                      Holds(u, e, t)', Holds(v, e, t)'
               PROVE  u = v
    BY DEF ClaimExclusive
  <2>3. CASE u # w /\ v # w
    BY <2>1, <2>3 DEF IInv, ClaimExclusive
  <2>4. CASE u = w \/ v = w
    <3>1. e = d /\ t = s
      BY <2>2, <2>4
    <3> QED
      BY <2>1, <2>4, <3>1 DEF Holds, Doc, Stage
  <2> QED
    BY <2>3, <2>4
<1> QED
  BY <1>7, <1>10, <1>11, <1>12, <1>13 DEF IInv

\* A holder writes its row and lets go of the claim.
LEMMA RecordStep ==
    ASSUME IInv, TypeInv', NEW w \in Workers, worker[w].pc \in Holding,
           NEW x \in RowType, run' = [run EXCEPT ![Doc(w)][Stage(w)] = x],
           x.status = "failed" => x.attempts < MaxAttempts,
           \A v \in Workers : v # w => worker'[v] = worker[v],
           \/ worker'[w].pc \notin OnChain
           \/ /\ worker'[w].pc = "claim" /\ x.status = "succeeded"
              /\ worker'[w].doc = Doc(w) /\ worker'[w].stage = Stage(w) + 1
    PROVE  IInv'
<1> DEFINE d == Doc(w)
           s == Stage(w)
<1>1. /\ d \in Docs /\ s \in Stages /\ run[d][s].status = "running"
      /\ \A v \in Workers : v # w => ~Holds(v, d, s)
  BY HolderRow
<1>2. /\ run'[d][s] = x
      /\ \A e \in Docs : \A t \in Stages : (e # d \/ t # s) => run'[e][t] = run[e][t]
      /\ \A e \in Docs : \A t \in Stages :
             run[e][t].status = "succeeded" => run'[e][t].status = "succeeded"
      /\ ChainOrder' /\ FailedAttempts'
  BY <1>1, RowChanges
<1>3. \A v \in Workers : v # w => OwnsRow(v)' /\ PrefixDone(v)'
  BY <1>1, <1>2, OthersKeep
<1>4. OwnsRow(w)'
  BY DEF OwnsRow, OnChain, Holding
<1>5. PrefixDone(w)'
  <2> SUFFICES ASSUME worker'[w].pc = "claim", x.status = "succeeded",
                      worker'[w].doc = d, worker'[w].stage = s + 1,
                      NEW t \in 1..((s + 1) - 1)
               PROVE  run'[d][t].status = "succeeded"
    BY DEF PrefixDone, Doc, Stage, OnChain, Holding
  <2>1. t \in Stages /\ (t = s \/ t \in 1..(s - 1))
    BY <1>1, PipelineAssumption DEF Stages
  <2>2. t \in 1..(s - 1) => run[d][t].status = "succeeded"
    BY DEF IInv, PrefixDone, OnChain
  <2> QED
    BY <1>1, <1>2, <2>1, <2>2
<1>6. ClaimExclusive'
  <2>1. \A e, t : ~Holds(w, e, t)'
    BY DEF Holds, OnChain, Holding
  <2>2. \A v \in Workers : v # w => \A e, t : Holds(v, e, t)' => Holds(v, e, t)
    BY DEF Holds, Doc, Stage
  <2> QED
    BY <2>1, <2>2 DEF IInv, ClaimExclusive
<1> QED
  BY <1>2, <1>3, <1>4, <1>5, <1>6 DEF IInv

LEMMA IInvStep ==
    ASSUME ~SlowWorkers, IInv, [Next]_vars
    PROVE  IInv'
<1>0. TypeInv'
  BY TypeStep DEF IInv
<1>1. ASSUME run' = run, worker' = worker PROVE IInv'
  BY <1>0, <1>1, SlotsMove DEF Moves
<1>2. ASSUME NEW d \in Docs,
             \/ Submit(d) \/ EnqueueLook(d) \/ EnqueueAdd(d) \/ EnqueueLost(d)
             \/ Sweep(d) \/ Stall(d) \/ JobLost(d) \/ GoQuiet(d) \/ Decide(d)
      PROVE  IInv'
  BY <1>1, <1>2 DEF Submit, EnqueueLook, EnqueueAdd, EnqueueLost, Sweep, Stall, JobLost,
     GoQuiet, Decide
<1>3. ASSUME NEW d \in Docs, NEW s \in Stages, Retry(d, s) PROVE IInv'
  <2> DEFINE x == [run[d][s] EXCEPT !.status = "pending", !.attempts = 0]
  <2>1. run[d][s] \in RowType
    BY DEF IInv, TypeInv, TypeOK
  <2>2. x \in RowType /\ x.status = "pending"
    BY <2>1 DEF RowType
  <2>3. run' = [run EXCEPT ![d][s] = x] /\ worker' = worker /\ run[d][s].status = "dead_lettered"
    BY <1>3 DEF Retry
  <2>4. \A v \in Workers : ~Holds(v, d, s)
    BY <2>3, FreeRow
  <2> QED
    BY <1>0, <2>2, <2>3, <2>4, FreeRowChanges
<1>4. ASSUME NEW d \in Docs, NEW s \in Stages, GoStale(d, s) PROVE IInv'
  <2> DEFINE x == [run[d][s] EXCEPT !.stale = TRUE]
  <2>1. run[d][s] \in RowType
    BY DEF IInv, TypeInv, TypeOK
  <2>2. x \in RowType /\ x.status = run[d][s].status
    BY <2>1 DEF RowType
  <2>3. run' = [run EXCEPT ![d][s] = x] /\ worker' = worker /\ run[d][s].status = "running"
    BY <1>4 DEF GoStale
  <2>4. \A v \in Workers : ~Holds(v, d, s)
    BY <1>4 DEF GoStale, Holds
  <2> QED
    BY <1>0, <2>2, <2>3, <2>4, FreeRowChanges
<1>5. ASSUME NEW w \in Workers, NEW d \in Docs, Deliver(w, d) PROVE IInv'
  <2>1. \A v \in Workers : v # w => worker'[v] = worker[v]
    BY <1>5 DEF Deliver, IInv, TypeInv, TypeOK
  <2>2. worker'[w].pc = "mark" /\ worker'[w].stage = 1
    BY <1>5 DEF Deliver, IInv, TypeInv, TypeOK, Idle
  <2>3. \A v \in Workers : Moves(v)
    BY <2>1, <2>2 DEF Moves, OnChain, Holding
  <2> QED
    BY <1>0, <1>5, <2>3, SlotsMove DEF Deliver
<1>6. ASSUME NEW w \in Workers, Ack(w) \/ Nack(w) \/ Crash(w) PROVE IInv'
  BY <1>0, <1>6, IdleMoves, SlotsMove DEF Ack, Nack, Crash
<1>7. ASSUME NEW w \in Workers,
             MarkProcessing(w) \/ ClaimRefused(w) \/ Work(w) \/ WorkThrows(w) \/ DatabaseFault(w)
      PROVE  IInv'
  <2>1. \A v \in Workers : Moves(v)
    <3>1. CASE MarkProcessing(w) \/ ClaimRefused(w)
      BY <3>1, GotoMoves DEF MarkProcessing, ClaimRefused, OnChain, Holding, Pcs
    <3>2. CASE Work(w) \/ WorkThrows(w)
      BY <3>2, GotoMoves DEF Work, WorkThrows, OnChain, Holding, Pcs
    <3>3. CASE DatabaseFault(w)
      BY <3>3, GotoMoves DEF DatabaseFault, OnChain, Holding, Pcs
    <3> QED
      BY <1>7, <3>1, <3>2, <3>3
  <2> QED
    BY <1>0, <1>7, <2>1, SlotsMove
       DEF MarkProcessing, ClaimRefused, Work, WorkThrows, DatabaseFault
<1>8. ASSUME NEW w \in Workers, Look(w) PROVE IInv'
  <2>1. CASE Row(w).status = "succeeded"
    <3>1. \A v \in Workers : Moves(v)
      BY <1>8, <2>1, ProceedMoves DEF Look, Moves, OnChain, Holding
    <3> QED
      BY <1>0, <1>8, <3>1, SlotsMove DEF Look
  <2>2. CASE Row(w).status # "succeeded"
    <3>1. \A v \in Workers : Moves(v)
      BY <1>8, <2>2, GotoMoves DEF Look, OnChain, Holding, Pcs
    <3> QED
      BY <1>0, <1>8, <3>1, SlotsMove DEF Look
  <2> QED
    BY <2>1, <2>2
<1>9. ASSUME NEW w \in Workers, Claim(w) PROVE IInv'
  BY <1>0, <1>9, ClaimStep
<1>10. ASSUME NEW w \in Workers, RecordSuccess(w) PROVE IInv'
  <2> DEFINE x == [run[Doc(w)][Stage(w)] EXCEPT !.status = "succeeded", !.stale = FALSE]
  <2>1. worker[w].pc \in Holding /\ Proceed(w) /\ run' = [run EXCEPT ![Doc(w)][Stage(w)] = x]
    BY <1>10 DEF RecordSuccess, Holding
  <2>2. run[Doc(w)][Stage(w)] \in RowType
    BY <2>1, HolderRow
  <2>3. x \in RowType /\ x.status = "succeeded"
    BY <2>2 DEF RowType
  <2>4. /\ \A v \in Workers : v # w => worker'[v] = worker[v]
        /\ \/ worker'[w].pc = "ack"
           \/ worker'[w].pc = "claim" /\ worker'[w].doc = Doc(w) /\ worker'[w].stage = Stage(w) + 1
    BY <2>1, ProceedMoves DEF OnChain
  <2> QED
    BY <1>0, <2>1, <2>3, <2>4, RecordStep DEF OnChain, Holding
<1>11. ASSUME NEW w \in Workers, RecordFailure(w) PROVE IInv'
  <2> DEFINE st == IF Exhausted(w) THEN "dead_lettered" ELSE "failed"
             x == [run[Doc(w)][Stage(w)] EXCEPT !.stale = FALSE, !.status = st]
  <2>1. worker[w].pc \in Holding /\ run' = [run EXCEPT ![Doc(w)][Stage(w)] = x]
    BY <1>11 DEF RecordFailure, Holding
  <2>2. /\ run[Doc(w)][Stage(w)] \in RowType
        /\ run[Doc(w)][Stage(w)].attempts = worker[w].attempts
    BY <2>1, HolderRow
  <2>3. x \in RowType /\ x.status = st /\ x.attempts = worker[w].attempts
    BY <2>2 DEF RowType
  <2>4. x.status = "failed" => x.attempts < MaxAttempts
    BY <2>2, <2>3, PipelineAssumption DEF Exhausted, RowType
  <2>5. \E pc \in {"ack", "nack"} : Goto(w, pc)
    BY <1>11 DEF RecordFailure
  <2>6. worker'[w].pc \notin OnChain /\ \A v \in Workers : v # w => worker'[v] = worker[v]
    BY <2>5 DEF Goto, IInv, TypeInv, TypeOK, SlotType, OnChain, Holding
  <2> QED
    BY <1>0, <2>1, <2>3, <2>4, <2>6, RecordStep
<1>12. CASE RescoreCycle
  BY <1>1, <1>12 DEF RescoreCycle
<1>13. ASSUME NEW d \in Docs, Confirming(d) PROVE IInv'
  BY <1>1, <1>13, ConfirmingApart
<1>14. CASE UNCHANGED vars
  BY <1>1, <1>14 DEF vars
<1> QED
  BY <1>2, <1>3, <1>4, <1>5, <1>6, <1>7, <1>8, <1>9, <1>10, <1>11, <1>12, <1>13, <1>14
     DEF Next, WorkerStep, Confirming

LEMMA Invariance == ASSUME ~SlowWorkers PROVE Spec => []IInv
<1>1. IInv /\ [Next]_vars => IInv'
  BY IInvStep
<1> QED
  BY IInvInit, <1>1, PTL DEF Spec

\* At most one live slot works on a stage of a document, whatever is redelivered.
THEOREM ClaimsExclude == ASSUME ~SlowWorkers PROVE Spec => []ClaimExclusive
<1>1. IInv => ClaimExclusive
  BY DEF IInv
<1> QED
  BY <1>1, Invariance, PTL

\* A document's stages start in order, each after the one before has succeeded.
THEOREM ChainKeepsOrder == ASSUME ~SlowWorkers PROVE Spec => []ChainOrder
<1>1. IInv => ChainOrder
  BY DEF IInv
<1> QED
  BY <1>1, Invariance, PTL

\* No stage is stranded in 'failed' with its attempts spent.
THEOREM FailuresRetryable == ASSUME ~SlowWorkers PROVE Spec => []FailedIsRetryable
<1>1. IInv => FailedIsRetryable
  BY DEF IInv, FailedAttempts, FailedIsRetryable
<1> QED
  BY <1>1, Invariance, PTL

-----------------------------------------------------------------------------
(***************************************************************************)
(* What a step does to the ledger, and from it the refinement: the ledger  *)
(* is written by exactly five actions, each on one row.                    *)
(***************************************************************************)

\* The row of document d and stage s becomes x, from a state in which it may.
RowStep(d, s, x) ==
    /\ x \in RowType
    /\ run' = [run EXCEPT ![d][s] = x]
    /\ \/ run[d][s].status = "dead_lettered" /\ x.status = "pending"
       \/ run[d][s].status \in {"none", "pending", "failed"} /\ x.status = "running"
       \/ run[d][s].status = "running"
          /\ x.status \in {"running", "succeeded", "failed", "dead_lettered"}
    /\ \A t \in 1..(s - 1) : run[d][t].status = "succeeded"

LEMMA LedgerStep ==
    ASSUME ~SlowWorkers, IInv, [Next]_vars
    PROVE  run' = run \/ \E d \in Docs : \E s \in Stages : \E x \in RowType : RowStep(d, s, x)
<1>0. /\ run \in [Docs -> [Stages -> RowType]]
      /\ \A d \in Docs : \A s \in Stages : run[d][s] \in RowType
      /\ \A d \in Docs : \A s \in Stages :
            run[d][s].status # "none" => \A t \in 1..(s - 1) : run[d][t].status = "succeeded"
  BY DEF IInv, TypeInv, TypeOK, ChainOrder
<1>1. ASSUME NEW d \in Docs, NEW s \in Stages, Retry(d, s)
      PROVE  \E x \in RowType : RowStep(d, s, x)
  <2> DEFINE x == [run[d][s] EXCEPT !.status = "pending", !.attempts = 0]
  <2>0. run[d][s] \in RowType
    BY <1>0
  <2>1. x \in RowType /\ x.status = "pending"
    BY <2>0 DEF RowType
  <2>2. run' = [run EXCEPT ![d][s] = x] /\ run[d][s].status = "dead_lettered"
    BY <1>1 DEF Retry
  <2>3. RowStep(d, s, x)
    BY <1>0, <2>1, <2>2 DEF RowStep
  <2> QED
    BY <2>1, <2>3
<1>2. ASSUME NEW d \in Docs, NEW s \in Stages, GoStale(d, s)
      PROVE  \E x \in RowType : RowStep(d, s, x)
  <2> DEFINE x == [run[d][s] EXCEPT !.stale = TRUE]
  <2>0. run[d][s] \in RowType
    BY <1>0
  <2>1. x \in RowType /\ x.status = run[d][s].status
    BY <2>0 DEF RowType
  <2>2. run' = [run EXCEPT ![d][s] = x] /\ run[d][s].status = "running"
    BY <1>2 DEF GoStale
  <2>3. RowStep(d, s, x)
    BY <1>0, <2>1, <2>2 DEF RowStep
  <2> QED
    BY <2>1, <2>3
<1>3. ASSUME NEW w \in Workers, Claim(w)
      PROVE  \E x \in RowType : RowStep(Doc(w), Stage(w), x) /\ Doc(w) \in Docs /\ Stage(w) \in Stages
  <2> DEFINE d == Doc(w)
             s == Stage(w)
             x == [status |-> "running", attempts |-> run[d][s].attempts + 1, stale |-> FALSE]
  <2>1. d \in Docs /\ s \in Stages
    BY <1>3 DEF IInv, TypeInv, TypeOK, SlotHasDoc, SlotType, Claim, Stage
  <2>2. x \in RowType
    BY <1>0, <2>1 DEF RowType
  <2>3. run' = [run EXCEPT ![d][s] = x] /\ Eligible(run[d][s])
    BY <1>3 DEF Claim, Row
  <2>4. \A t \in 1..(s - 1) : run[d][t].status = "succeeded"
    BY <1>3 DEF IInv, PrefixDone, OnChain, Claim
  <2>5. RowStep(d, s, x)
    BY <2>2, <2>3, <2>4 DEF RowStep, Eligible
  <2> QED
    BY <2>1, <2>2, <2>5
<1>4. ASSUME NEW w \in Workers, RecordSuccess(w) \/ RecordFailure(w)
      PROVE  \E x \in RowType : RowStep(Doc(w), Stage(w), x) /\ Doc(w) \in Docs /\ Stage(w) \in Stages
  <2> DEFINE d == Doc(w)
             s == Stage(w)
  <2>1. worker[w].pc \in Holding
    BY <1>4 DEF RecordSuccess, RecordFailure, Holding
  <2>2. d \in Docs /\ s \in Stages /\ run[d][s] \in RowType /\ run[d][s].status = "running"
    BY <2>1, HolderRow
  <2>3. PICK st \in {"succeeded", "failed", "dead_lettered"} :
               run' = [run EXCEPT ![d][s] = [run[d][s] EXCEPT !.status = st, !.stale = FALSE]]
    <3>1. CASE RecordSuccess(w)
      BY <3>1 DEF RecordSuccess
    <3>2. CASE RecordFailure(w)
      BY <3>2 DEF RecordFailure
    <3> QED
      BY <1>4, <3>1, <3>2
  <2> DEFINE x == [run[d][s] EXCEPT !.status = st, !.stale = FALSE]
  <2>4. x \in RowType /\ x.status = st
    BY <2>2 DEF RowType
  <2>5. RowStep(d, s, x)
    BY <1>0, <2>2, <2>3, <2>4 DEF RowStep
  <2> QED
    BY <2>2, <2>4, <2>5
<1>5. ASSUME NEW d \in Docs,
             \/ Submit(d) \/ EnqueueLook(d) \/ EnqueueAdd(d) \/ EnqueueLost(d)
             \/ Sweep(d) \/ Stall(d) \/ JobLost(d) \/ GoQuiet(d) \/ Decide(d)
      PROVE  run' = run
  BY <1>5 DEF Submit, EnqueueLook, EnqueueAdd, EnqueueLost, Sweep, Stall, JobLost, GoQuiet, Decide
<1>6. ASSUME NEW w \in Workers,
             \/ MarkProcessing(w) \/ ClaimRefused(w) \/ Look(w) \/ Work(w) \/ WorkThrows(w)
             \/ Ack(w) \/ Nack(w) \/ Crash(w) \/ DatabaseFault(w) \/ \E d \in Docs : Deliver(w, d)
      PROVE  run' = run
  BY <1>6 DEF MarkProcessing, ClaimRefused, Look, Work, WorkThrows, Ack, Nack, Crash,
     DatabaseFault, Deliver
<1>7. RescoreCycle \/ UNCHANGED vars \/ (\E d \in Docs : Confirming(d)) => run' = run
  BY ConfirmingApart DEF RescoreCycle, vars
<1> QED
  BY <1>1, <1>2, <1>3, <1>4, <1>5, <1>6, <1>7 DEF Next, WorkerStep, Confirming

\* Succeeded stages are never touched again and dead letters wait for a reviewer.
THEOREM TerminalStaysFinal == ASSUME ~SlowWorkers PROVE Spec => TerminalIsFinal
<1> DEFINE Final == \A d \in Docs : \A s \in Stages :
              /\ run[d][s].status = "succeeded" => run'[d][s] = run[d][s]
              /\ run[d][s].status = "dead_lettered" =>
                    run'[d][s] = run[d][s] \/ run'[d][s].status = "pending"
<1>1. IInv /\ [Next]_vars => [Final]_vars
  <2> SUFFICES ASSUME IInv, [Next]_vars PROVE Final
    OBVIOUS
  <2>1. run \in [Docs -> [Stages -> RowType]]
    BY DEF IInv, TypeInv, TypeOK
  <2>2. CASE run' = run
    BY <2>2
  <2>3. ASSUME NEW d \in Docs, NEW s \in Stages, NEW x \in RowType, RowStep(d, s, x)
        PROVE  Final
    BY <2>1, <2>3 DEF RowStep
  <2> QED
    BY <2>2, <2>3, LedgerStep
<1> QED
  BY <1>1, Invariance, PTL DEF Spec, TerminalIsFinal

-----------------------------------------------------------------------------
(* What the applicant sees.                                                *)

\* A status changes as the application is filed, on its way to the queue, or by a decision.
StatusStep(d) ==
    \/ status'[d] = status[d]
    \/ status[d] = "none"
    \/ status[d] \in Waiting /\ status'[d] \in Waiting \cup {"ready_for_review", "reviewed"}
    \/ status[d] = "ready_for_review" /\ status'[d] = "reviewed"

\* The steps done are counted, and none of the changes above takes one back.
LEMMA StepsKept ==
    ASSUME NEW s, NEW t, \/ s \in {"submitted", "ready_for_review"} /\ t = "reviewed"
                         \/ s \in {"submitted", "processing"} /\
                               t \in {"submitted", "processing", "ready_for_review", "reviewed"}
    PROVE  StepsDone(s) <= StepsDone(t)
<1>1. StepsDone("submitted") = 1 /\ StepsDone("processing") = 1
  BY DEF StepsDone, toStage, Waiting
<1>2. StepsDone("ready_for_review") = 2 /\ StepsDone("reviewed") = 3
  BY DEF StepsDone, toStage, Waiting
<1> QED
  BY <1>1, <1>2

LEMMA StatusSteps ==
    ASSUME TypeOK, [Next]_vars, NEW d \in Docs
    PROVE  StatusStep(d)
<1>0. status \in [Docs -> Waiting \cup {"none", "ready_for_review", "reviewed"}]
  BY DEF TypeOK
<1>1. ASSUME NEW apps \in SUBSET Docs, Promote(apps)
      PROVE  StatusStep(d)
  BY <1>1 DEF Promote, StatusStep
<1>2. ASSUME NEW e \in Docs, Submit(e) \/ Decide(e)
      PROVE  StatusStep(d)
  BY <1>0, <1>2 DEF Submit, Decide, StatusStep, Waiting
<1>3. ASSUME NEW w \in Workers, MarkProcessing(w)
      PROVE  StatusStep(d)
  BY <1>0, <1>3 DEF MarkProcessing, StatusStep, Waiting
<1>4. ASSUME NEW w \in Workers, Work(w) \/ WorkThrows(w)
      PROVE  StatusStep(d)
  BY <1>1, <1>4 DEF Work, WorkThrows, Population, Readings, StatusStep
<1>5. ASSUME RescoreCycle \/ \E e \in Docs : Confirming(e)
      PROVE  StatusStep(d)
  BY <1>1, <1>5 DEF RescoreCycle, Confirming, Confirm, ConfirmationRescored, ConfirmationLost,
     Population, Readings, StatusStep
<1>6. ASSUME NEW e \in Docs,
             \/ EnqueueLook(e) \/ EnqueueAdd(e) \/ EnqueueLost(e)
             \/ Sweep(e) \/ Stall(e) \/ JobLost(e) \/ GoQuiet(e)
             \/ \E s \in Stages : Retry(e, s) \/ GoStale(e, s)
      PROVE  status' = status
  BY <1>6 DEF EnqueueLook, EnqueueAdd, EnqueueLost, Sweep, Stall, JobLost, GoQuiet, Retry, GoStale
<1>7. ASSUME NEW w \in Workers,
             \/ Claim(w) \/ ClaimRefused(w) \/ Look(w) \/ RecordSuccess(w) \/ RecordFailure(w)
             \/ Ack(w) \/ Nack(w) \/ Crash(w) \/ DatabaseFault(w) \/ \E e \in Docs : Deliver(w, e)
      PROVE  status' = status
  BY <1>7 DEF Claim, ClaimRefused, Look, RecordSuccess, RecordFailure, Ack, Nack, Crash,
     DatabaseFault, Deliver
<1>8. UNCHANGED vars => status' = status
  BY DEF vars
<1> QED
  BY <1>2, <1>3, <1>4, <1>5, <1>6, <1>7, <1>8 DEF Next, WorkerStep, Confirming, StatusStep

\* What the applicant sees never goes back, slow workers or not.
THEOREM ApplicantsSeeForward == Spec => StagesGoForward
<1> DEFINE Forward == \A d \in Docs :
              status[d] # "none" => StepsDone(status[d]) <= StepsDone(status'[d])
<1>1. TypeOK /\ [Next]_vars => [Forward]_vars
  <2> SUFFICES ASSUME TypeOK, [Next]_vars, NEW d \in Docs, status[d] # "none"
               PROVE  StepsDone(status[d]) <= StepsDone(status'[d])
    OBVIOUS
  <2>1. StatusStep(d) /\ status[d] \in Waiting \cup {"ready_for_review", "reviewed"}
    BY StatusSteps DEF TypeOK
  <2>2. CASE status'[d] = status[d]
    <3>1. StepsDone(status[d]) \in 1..3
      BY <2>1 DEF StepsDone, toStage, Waiting
    <3> QED
      BY <2>2, <3>1
  <2>3. CASE status'[d] # status[d]
    BY <2>1, <2>3, StepsKept DEF StatusStep, Waiting
  <2> QED
    BY <2>2, <2>3
<1> QED
  BY <1>1, TypeCorrect, PTL DEF Spec, StagesGoForward

-----------------------------------------------------------------------------
(***************************************************************************)
(* The sweep's reach.  Scoring promotes the document's own application     *)
(* before it records the stage if its applicant has confirmed; if he does  *)
(* so later, the rescore that follows promotes it.  Nothing returns a      *)
(* status once it has left Waiting, whoever else works on the document.    *)
(* All hold with slow workers too: none asks who holds the stage.          *)
(***************************************************************************)

\* Something is known of document d: only of one that was submitted.
Touched(d) ==
    \/ enq[d] # {} \/ job[d].state # "none"
    \/ \E s \in Stages : run[d][s].status # "none"
    \/ \E w \in Workers : worker[w].pc # "idle" /\ Doc(w) = d

\* Scoring has been done on d, and is recorded or about to be.
Scored(d) ==
    \/ run[d][ScoreStage].status = "succeeded"
    \/ \E w \in Workers : worker[w].pc = "record" /\ Stage(w) = ScoreStage /\ Doc(w) = d

FiledInv == \A d \in Docs : Touched(d) => status[d] # "none"
ScoredInv ==
    \A d \in Docs :
        Scored(d) /\ email[d] = "confirmed" => status[d] \notin Waiting \cup {"none"}

SweepInv == TypeInv /\ FiledInv /\ ScoredInv

LEMMA SweepInit == Init => FiledInv /\ ScoredInv
BY PipelineAssumption DEF Init, FiledInv, ScoredInv, Touched, Scored, NoRow, NoJob, Idle, ScoreStage, Stages

\* What is first known of a document is that it was submitted.
LEMMA TouchStep ==
    ASSUME TypeInv, FiledInv, [Next]_vars, NEW d \in Docs, Touched(d)'
    PROVE  Touched(d) \/ status'[d] # "none"
<1>0. /\ run \in [Docs -> [Stages -> RowType]] /\ job \in [Docs -> JobType]
      /\ worker \in [Workers -> SlotType] /\ enq \in [Docs -> SUBSET {"look", "add"}]
      /\ status \in [Docs -> Waiting \cup {"none", "ready_for_review", "reviewed"}]
      /\ \A w \in Workers : worker[w].pc # "idle" => Doc(w) \in Docs /\ Stage(w) \in Stages
  BY DEF TypeInv, TypeOK, SlotHasDoc, SlotType, Stage
<1> USE DEF Touched
<1>1. ASSUME NEW e \in Docs, Submit(e)
      PROVE  Touched(d) \/ status'[d] # "none"
  BY <1>0, <1>1 DEF Submit, Doc
<1>2. ASSUME NEW e \in Docs, EnqueueLook(e) \/ EnqueueAdd(e) \/ EnqueueLost(e)
      PROVE  Touched(d) \/ status'[d] # "none"
  BY <1>0, <1>2 DEF EnqueueLook, EnqueueAdd, EnqueueLost, JobType, NoJob, Doc
<1>3. ASSUME NEW e \in Docs, Sweep(e)
      PROVE  Touched(d) \/ status'[d] # "none"
  BY <1>0, <1>3 DEF Sweep, Waiting, Doc
<1>4. ASSUME NEW e \in Docs, Stall(e) \/ JobLost(e)
      PROVE  Touched(d) \/ status'[d] # "none"
  BY <1>0, <1>4 DEF Stall, JobLost, JobType, NoJob, Doc
<1>5. ASSUME NEW e \in Docs, NEW s \in Stages, Retry(e, s) \/ GoStale(e, s)
      PROVE  Touched(d) \/ status'[d] # "none"
  BY <1>0, <1>5 DEF Retry, GoStale, RowType, Doc
<1>6. ASSUME NEW w \in Workers, NEW e \in Docs, Deliver(w, e)
      PROVE  Touched(d) \/ status'[d] # "none"
  BY <1>0, <1>6 DEF Deliver, JobType, Doc, SlotType, Idle
<1>7. ASSUME NEW w \in Workers, Ack(w) \/ Nack(w) \/ Crash(w)
      PROVE  Touched(d)
  <2>1. run' = run /\ enq' = enq /\ worker' = [worker EXCEPT ![w] = Idle] /\ Doc(w) \in Docs
    BY <1>0, <1>7 DEF Ack, Nack, Crash
  <2>2. \A v \in Workers : worker'[v].pc # "idle" => worker'[v] = worker[v]
    BY <1>0, <2>1 DEF Idle
  <2>3. worker[w].pc # "idle" /\ \A e \in Docs : e # Doc(w) /\ job'[e].state # "none" => job[e].state # "none"
    <3>1. CASE Ack(w)
      BY <1>0, <3>1 DEF Ack
    <3>2. CASE Nack(w)
      BY <1>0, <3>2 DEF Nack
    <3>3. CASE Crash(w)
      <4>1. \A e \in Docs : job'[e] = IF job[e].owner = w THEN [job[e] EXCEPT !.owner = None] ELSE job[e]
        BY <3>3 DEF Crash
      <4>2. \A e \in Docs : job[e] \in JobType /\ job'[e].state = job[e].state
        BY <1>0, <4>1 DEF JobType
      <4> QED
        BY <3>3, <4>2 DEF Crash
    <3> QED
      BY <1>7, <3>1, <3>2, <3>3
  <2> QED
    BY <2>1, <2>2, <2>3 DEF Doc
<1>8. ASSUME NEW w \in Workers,
             \/ MarkProcessing(w) \/ ClaimRefused(w) \/ Look(w) \/ Work(w) \/ WorkThrows(w)
             \/ DatabaseFault(w)
      PROVE  Touched(d)
  <2>1. run' = run /\ job' = job /\ enq' = enq /\ worker[w].pc # "idle"
    BY <1>8 DEF MarkProcessing, ClaimRefused, Look, Work, WorkThrows, DatabaseFault
  <2>2. (\E pc \in Pcs : Goto(w, pc)) \/ Proceed(w)
    BY <1>8 DEF MarkProcessing, ClaimRefused, Look, Work, WorkThrows, DatabaseFault, Pcs, Holding
  <2>3. \A v \in Workers : /\ worker'[v].pc # "idle" => worker[v].pc # "idle"
                           /\ worker'[v].doc = worker[v].doc
    BY <1>0, <2>1, <2>2 DEF Goto, Proceed, SlotType
  <2> QED
    BY <2>1, <2>3 DEF Doc
<1>9. ASSUME NEW w \in Workers, Claim(w) \/ RecordSuccess(w) \/ RecordFailure(w)
      PROVE  Touched(d)
  <2>1. job' = job /\ enq' = enq /\ worker[w].pc # "idle"
    BY <1>9 DEF Claim, RecordSuccess, RecordFailure
  <2>2. \A e \in Docs : e # Doc(w) => run'[e] = run[e]
    BY <1>0, <1>9 DEF Claim, RecordSuccess, RecordFailure
  <2>3. \A v \in Workers : /\ worker'[v].pc # "idle" => worker[v].pc # "idle"
                           /\ worker'[v].doc = worker[v].doc
    <3>1. CASE Claim(w)
      BY <1>0, <2>1, <3>1 DEF Claim, SlotType
    <3>2. CASE RecordSuccess(w)
      BY <1>0, <2>1, <3>2 DEF RecordSuccess, Proceed, SlotType
    <3>3. CASE RecordFailure(w)
      <4>1. \E pc \in {"ack", "nack"} : Goto(w, pc)
        BY <3>3 DEF RecordFailure
      <4> QED
        BY <1>0, <2>1, <4>1 DEF Goto, SlotType
    <3> QED
      BY <1>9, <3>1, <3>2, <3>3
  <2> QED
    BY <2>1, <2>2, <2>3 DEF Doc
<1>10. ASSUME \/ UNCHANGED vars \/ RescoreCycle
              \/ \E e \in Docs : GoQuiet(e) \/ Decide(e) \/ Confirming(e)
       PROVE  Touched(d)
  BY <1>10, ConfirmingApart DEF vars, RescoreCycle, GoQuiet, Decide, Doc
<1> QED
  BY <1>1, <1>2, <1>3, <1>4, <1>5, <1>6, <1>7, <1>8, <1>9, <1>10 DEF Next, WorkerStep, Confirming

\* What is newly scored has just been promoted, or is recorded by the one who scored it.
LEMMA ScoreStep ==
    ASSUME SweepInv, [Next]_vars, NEW d \in Docs, email[d] = "confirmed", Scored(d)'
    PROVE  Scored(d) \/ status'[d] \notin Waiting \cup {"none"}
<1>0. /\ run \in [Docs -> [Stages -> RowType]] /\ worker \in [Workers -> SlotType]
      /\ status \in [Docs -> Waiting \cup {"none", "ready_for_review", "reviewed"}]
      /\ \A w \in Workers : worker[w].pc # "idle" => Doc(w) \in Docs /\ Stage(w) \in Stages
      /\ ScoreStage \in Stages
  BY PipelineAssumption DEF SweepInv, TypeInv, TypeOK, SlotHasDoc, SlotType, Stage, ScoreStage, Stages
<1> USE DEF Scored
<1>1. ASSUME NEW e \in Docs,
             \/ Submit(e) \/ EnqueueLook(e) \/ EnqueueAdd(e) \/ EnqueueLost(e)
             \/ Sweep(e) \/ Stall(e) \/ JobLost(e) \/ GoQuiet(e) \/ Decide(e)
      PROVE  Scored(d)
  BY <1>1 DEF Submit, EnqueueLook, EnqueueAdd, EnqueueLost, Sweep, Stall, JobLost, GoQuiet,
     Decide, Doc, Stage
<1>2. ASSUME NEW e \in Docs, NEW s \in Stages, Retry(e, s) \/ GoStale(e, s)
      PROVE  Scored(d)
  <2>1. worker' = worker
    BY <1>2 DEF Retry, GoStale
  <2>2. PICK x \in RowType : run' = [run EXCEPT ![e][s] = x] /\ x.status # "succeeded"
    <3>1. run[e][s] \in RowType
      BY <1>0
    <3>2. CASE Retry(e, s)
      <4> DEFINE x == [run[e][s] EXCEPT !.status = "pending", !.attempts = 0]
      <4>1. x \in RowType /\ x.status # "succeeded"
        BY <3>1 DEF RowType
      <4> QED
        BY <3>2, <4>1 DEF Retry
    <3>3. CASE GoStale(e, s)
      <4> DEFINE x == [run[e][s] EXCEPT !.stale = TRUE]
      <4>1. x \in RowType /\ x.status = run[e][s].status
        BY <3>1 DEF RowType
      <4> QED
        BY <3>3, <4>1 DEF GoStale
    <3> QED
      BY <1>2, <3>2, <3>3
  <2>3. run'[d][ScoreStage].status = "succeeded" => run[d][ScoreStage].status = "succeeded"
    BY <1>0, <2>2
  <2> QED
    BY <2>1, <2>3 DEF Doc, Stage
<1>3. ASSUME NEW w \in Workers, NEW e \in Docs, Deliver(w, e)
      PROVE  Scored(d)
  BY <1>0, <1>3 DEF Deliver, Idle, SlotType, Doc, Stage
<1>4. ASSUME NEW w \in Workers, Ack(w) \/ Nack(w) \/ Crash(w)
      PROVE  Scored(d)
  <2>1. run' = run /\ worker' = [worker EXCEPT ![w] = Idle]
    BY <1>4 DEF Ack, Nack, Crash
  <2>2. \A v \in Workers : worker'[v].pc = "record" => worker'[v] = worker[v]
    BY <1>0, <2>1 DEF Idle
  <2> QED
    BY <2>1, <2>2 DEF Doc, Stage
<1>5. ASSUME NEW w \in Workers,
             MarkProcessing(w) \/ ClaimRefused(w) \/ Look(w) \/ WorkThrows(w) \/ DatabaseFault(w)
      PROVE  Scored(d)
  <2>1. run' = run
    BY <1>5 DEF MarkProcessing, ClaimRefused, Look, WorkThrows, DatabaseFault
  <2>2. (\E pc \in Pcs \ {"record"} : Goto(w, pc)) \/ Proceed(w)
    BY <1>5 DEF MarkProcessing, ClaimRefused, Look, WorkThrows, DatabaseFault, Pcs, Holding
  <2>3. \A v \in Workers : worker'[v].pc = "record" => worker'[v] = worker[v]
    BY <1>0, <2>2 DEF Goto, Proceed, SlotType
  <2> QED
    BY <2>1, <2>3 DEF Doc, Stage
<1>6. ASSUME NEW w \in Workers, Work(w)
      PROVE  Scored(d) \/ status'[d] \notin Waiting \cup {"none"}
  <2>1. run' = run /\ \A v \in Workers : v # w => worker'[v] = worker[v]
    BY <1>6 DEF Work, Goto
  <2>2. worker'[w].doc = Doc(w) /\ worker'[w].stage = Stage(w) /\ worker[w].pc # "idle"
    BY <1>0, <1>6 DEF Work, Goto, SlotType, Doc, Stage
  <2>3. CASE Doc(w) = d /\ Stage(w) = ScoreStage
    <3>1. status[d] # "none"
      BY <2>2, <2>3 DEF SweepInv, FiledInv, Touched
    <3>2. PICK household \in SUBSET Docs, seen \in Readings :
                 d \in household /\ Promote(household \cap seen)
      BY <1>6, <2>3 DEF Work
    <3>3. d \in seen
      BY <3>2 DEF Readings
    <3> QED
      BY <1>0, <3>1, <3>2, <3>3 DEF Promote, Waiting
  <2>4. CASE ~(Doc(w) = d /\ Stage(w) = ScoreStage)
    BY <2>1, <2>2, <2>4 DEF Doc, Stage
  <2> QED
    BY <2>3, <2>4
<1>7. ASSUME NEW w \in Workers, Claim(w) \/ RecordFailure(w)
      PROVE  Scored(d)
  <2>1. worker[w].pc # "idle" /\ Doc(w) \in Docs /\ Stage(w) \in Stages
    BY <1>0, <1>7 DEF Claim, RecordFailure
  <2>2. \A e \in Docs : \A s \in Stages :
           run'[e][s].status = "succeeded" => run[e][s].status = "succeeded"
    <3> DEFINE r == run[Doc(w)][Stage(w)]
    <3>1. PICK x \in RowType : run' = [run EXCEPT ![Doc(w)][Stage(w)] = x] /\ x.status # "succeeded"
      <4>0. r \in RowType
        BY <1>0, <2>1
      <4>1. CASE Claim(w)
        <5> DEFINE x == [status |-> "running", attempts |-> r.attempts + 1, stale |-> FALSE]
        <5>1. x \in RowType /\ x.status # "succeeded"
          BY <4>0 DEF RowType
        <5> QED
          BY <4>1, <5>1 DEF Claim
      <4>2. CASE RecordFailure(w)
        <5> DEFINE x == [r EXCEPT !.stale = FALSE,
                                  !.status = IF Exhausted(w) THEN "dead_lettered" ELSE "failed"]
        <5>1. x \in RowType /\ x.status # "succeeded"
          BY <4>0 DEF RowType
        <5> QED
          BY <4>2, <5>1 DEF RecordFailure
      <4> QED
        BY <1>7, <4>1, <4>2
    <3> QED
      BY <1>0, <2>1, <3>1
  <2>3. \A v \in Workers : worker'[v].pc = "record" => worker'[v] = worker[v]
    BY <1>0, <1>7 DEF Claim, RecordFailure, Goto, SlotType
  <2> QED
    BY <1>0, <2>2, <2>3 DEF Doc, Stage
<1>8. ASSUME NEW w \in Workers, RecordSuccess(w)
      PROVE  Scored(d)
  <2>1. worker[w].pc = "record" /\ Doc(w) \in Docs /\ Stage(w) \in Stages
    BY <1>0, <1>8 DEF RecordSuccess
  <2>2. \A e \in Docs : \A s \in Stages :
           e # Doc(w) \/ s # Stage(w) => run'[e][s] = run[e][s]
    BY <1>0, <1>8, <2>1 DEF RecordSuccess
  <2>3. \A v \in Workers : worker'[v].pc = "record" => worker'[v] = worker[v]
    BY <1>0, <1>8 DEF RecordSuccess, Proceed, SlotType
  <2> QED
    BY <1>0, <2>1, <2>2, <2>3 DEF Doc, Stage
<1>9. ASSUME UNCHANGED vars \/ RescoreCycle \/ \E e \in Docs : Confirming(e)
      PROVE  Scored(d)
  BY <1>9, ConfirmingApart DEF vars, RescoreCycle, Doc, Stage
<1> QED
  BY <1>1, <1>2, <1>3, <1>4, <1>5, <1>6, <1>7, <1>8, <1>9 DEF Next, WorkerStep, Confirming

\* Who is newly confirmed has just been promoted, or has not been scored.
LEMMA ConfirmStep ==
    ASSUME SweepInv, [Next]_vars, NEW d \in Docs,
           email[d] # "confirmed", email'[d] = "confirmed", Scored(d)'
    PROVE  status'[d] \notin Waiting \cup {"none"}
<1>0. /\ status \in [Docs -> Waiting \cup {"none", "ready_for_review", "reviewed"}]
      /\ email \in [Docs -> Emails]
  BY DEF SweepInv, TypeInv, TypeOK
<1>1. PICK e \in Docs : Confirming(e)
  <2>1. email' # email
    OBVIOUS
  <2> QED
    BY <2>1 DEF Next, WorkerStep, Confirming, vars, Submit, EnqueueLook, EnqueueAdd, EnqueueLost,
       Sweep, Stall, JobLost, GoQuiet, Decide, Retry, GoStale, Deliver, Crash, DatabaseFault,
       MarkProcessing, Claim, ClaimRefused, Look, Work, WorkThrows, RecordSuccess,
       RecordFailure, Ack, Nack, RescoreCycle
<1>2. e = d
  BY <1>0, <1>1 DEF Confirming, Confirm, ConfirmationRescored, ConfirmationLost
<1>3. Scored(d)
  BY <1>1, ConfirmingApart DEF Scored, Doc, Stage
<1>4. status[d] # "none"
  <2>1. ScoreStage \in Stages
    BY PipelineAssumption DEF ScoreStage, Stages
  <2>2. Touched(d)
    BY <1>3, <2>1 DEF Scored, Touched
  <2> QED
    BY <2>2 DEF SweepInv, FiledInv
<1>5. ~Confirm(d) /\ ~ConfirmationLost(d)
  BY <1>0, <1>3 DEF Confirm, ConfirmationLost, Scored
<1>6. PICK seen \in Readings : d \in seen /\ Promote(seen)
  BY <1>1, <1>2, <1>5 DEF Confirming, ConfirmationRescored
<1> QED
  BY <1>0, <1>4, <1>6 DEF Promote, Waiting

LEMMA SweepStep == SweepInv /\ [Next]_vars => SweepInv'
<1> SUFFICES ASSUME SweepInv, [Next]_vars PROVE SweepInv'
  OBVIOUS
<1>1. TypeInv'
  BY TypeStep DEF SweepInv
<1>2. \A d \in Docs : /\ status[d] # "none" => status'[d] # "none"
                      /\ status[d] \notin Waiting \cup {"none"}
                            => status'[d] \notin Waiting \cup {"none"}
  <2> TAKE d \in Docs
  <2>1. StatusStep(d)
    BY StatusSteps DEF SweepInv, TypeInv
  <2> QED
    BY <2>1 DEF StatusStep, Waiting
<1>3. FiledInv'
  <2> SUFFICES ASSUME NEW d \in Docs, Touched(d)' PROVE status'[d] # "none"
    BY DEF FiledInv
  <2>1. Touched(d) \/ status'[d] # "none"
    BY TouchStep DEF SweepInv
  <2> QED
    BY <1>2, <2>1 DEF SweepInv, FiledInv
<1>4. ScoredInv'
  <2> SUFFICES ASSUME NEW d \in Docs, Scored(d)', email'[d] = "confirmed"
               PROVE  status'[d] \notin Waiting \cup {"none"}
    BY DEF ScoredInv
  <2>1. CASE email[d] = "confirmed"
    <3>1. Scored(d) \/ status'[d] \notin Waiting \cup {"none"}
      BY <2>1, ScoreStep
    <3> QED
      BY <1>2, <2>1, <3>1 DEF SweepInv, ScoredInv
  <2>2. CASE email[d] # "confirmed"
    BY <2>2, ConfirmStep
  <2> QED
    BY <2>1, <2>2
<1> QED
  BY <1>1, <1>3, <1>4 DEF SweepInv

\* No application of a confirmed applicant waits where the sweep does not look: as long as
\* one waits, a stage of its document has not succeeded, for any number of documents, slots
\* and faults, and also when slow workers share a stage.  An applicant counts as confirmed
\* who was so when the application was filed, whose rescore after the link has ended, or
\* whose rescore died before the document was scored.  It is the safety half of NothingStuck.
THEOREM SweepReachesAll == Spec => []SweepCovers
<1>1. SweepInv => SweepCovers
  BY PipelineAssumption DEF SweepInv, ScoredInv, Scored, SweepCovers, Finished, ScoreStage, Stages
<1>2. Spec => []SweepInv
  BY TypeInit, SweepInit, SweepStep, PTL DEF Spec, SweepInv
<1> QED
  BY <1>1, <1>2, PTL

-----------------------------------------------------------------------------
(* A delivery ends.                                                        *)

\* The steps to go, slot by slot.
LEMMA ToGo ==
    ASSUME TypeInv, NEW w \in Workers
    PROVE  /\ StepsToGo(w) \in Nat
           /\ worker[w].pc \notin {"idle", "ack", "nack"} =>
                 /\ StepsToGo(w) > 5 * (NStages - Stage(w)) + 1
                 /\ Stage(w) \in 1..NStages
<1>1. worker[w].stage \in 1..NStages /\ worker[w].pc \in Pcs
  BY DEF TypeInv, TypeOK, SlotType, Stages
<1>2. 5 * (NStages - Stage(w)) \in Nat
  BY <1>1, PipelineAssumption DEF Stage
<1> QED
  BY <1>1, <1>2 DEF StepsToGo, Stage, Pcs, Holding

\* A slot that goes on within its stage.
LEMMA GotoToGo ==
    ASSUME TypeInv, NEW w \in Workers, NEW pc \in Pcs, Goto(w, pc),
           \/ worker[w].pc \notin {"idle", "ack", "nack"} /\ pc \in {"ack", "nack"}
           \/ worker[w].pc = "mark" /\ pc \in {"claim"}
           \/ worker[w].pc = "claim" /\ pc = "look"
           \/ worker[w].pc = "work" /\ pc \in {"record", "retryable", "permanent"}
           \/ worker[w].pc = "record" /\ pc = "retryable"
    PROVE  StepsToGo(w)' < StepsToGo(w)
<1>1. worker'[w].pc = pc /\ Stage(w)' = Stage(w)
  BY DEF TypeInv, TypeOK, SlotType, Goto, Stage
<1>2. 5 * (NStages - Stage(w)) \in Nat
  BY PipelineAssumption DEF TypeInv, TypeOK, SlotType, Stages, Stage
<1> DEFINE rest == 5 * (NStages - Stage(w))
<1>3. StepsToGo(w) =
         (IF worker[w].pc = "idle" THEN 0
          ELSE IF worker[w].pc \in {"ack", "nack"} THEN 1
          ELSE rest + (IF worker[w].pc = "mark" THEN 6
                       ELSE IF worker[w].pc = "claim" THEN 5
                       ELSE IF worker[w].pc = "work" THEN 4
                       ELSE IF worker[w].pc \in {"record", "look"} THEN 3 ELSE 2))
  BY DEF StepsToGo
<1>4. StepsToGo(w)' =
         (IF pc = "idle" THEN 0
          ELSE IF pc \in {"ack", "nack"} THEN 1
          ELSE rest + (IF pc = "mark" THEN 6
                       ELSE IF pc = "claim" THEN 5
                       ELSE IF pc = "work" THEN 4
                       ELSE IF pc \in {"record", "look"} THEN 3 ELSE 2))
  BY <1>1 DEF StepsToGo
<1> HIDE DEF rest
<1>5. rest \in Nat
  BY <1>2 DEF rest
<1> QED
  BY <1>3, <1>4, <1>5

\* A slot whose stage has succeeded, here or elsewhere.
LEMMA ProceedToGo ==
    ASSUME TypeInv, NEW w \in Workers, worker[w].pc \in {"record", "look"}, Proceed(w)
    PROVE  StepsToGo(w)' < StepsToGo(w)
<1>1. worker[w] \in SlotType /\ Stage(w) \in 1..NStages /\ NStages \in Nat
  BY PipelineAssumption DEF TypeInv, TypeOK, SlotType, Stages, Stage
<1>2. StepsToGo(w) = 5 * (NStages - Stage(w)) + 3
  BY DEF StepsToGo
<1>3. CASE Stage(w) < NStages
  <2>1. worker'[w].pc = "claim" /\ Stage(w)' = Stage(w) + 1
    BY <1>1, <1>3 DEF Proceed, SlotType, Stage, TypeInv, TypeOK
  <2>2. StepsToGo(w)' = 5 * (NStages - Stage(w)') + 5
    BY <2>1 DEF StepsToGo
  <2> QED
    BY <1>1, <1>2, <2>1, <2>2
<1>4. CASE ~(Stage(w) < NStages)
  <2>1. worker'[w].pc = "ack"
    BY <1>1, <1>4 DEF Proceed, SlotType, Stage, TypeInv, TypeOK
  <2>2. StepsToGo(w)' = 1
    BY <2>1 DEF StepsToGo
  <2> QED
    BY <1>1, <1>2, <2>2
<1> QED
  BY <1>3, <1>4

LEMMA IdleToGo ==
    ASSUME TypeInv, NEW w \in Workers, worker[w].pc # "idle", worker' = [worker EXCEPT ![w] = Idle]
    PROVE  StepsToGo(w)' < StepsToGo(w)
<1>1. worker'[w].pc = "idle"
  BY DEF Idle, TypeInv, TypeOK
<1>2. StepsToGo(w)' = 0
  BY <1>1 DEF StepsToGo
<1>3. StepsToGo(w) > 0
  <2>1. worker[w].pc \in {"ack", "nack"} => StepsToGo(w) = 1
    BY DEF StepsToGo
  <2>2. NStages \in Nat
    BY PipelineAssumption
  <2> QED
    BY <2>1, <2>2, ToGo
<1> QED
  BY <1>2, <1>3

\* Every own step of a slot brings it nearer to the end of its job: whatever is claimed,
\* failed, reset or swept meanwhile, a delivery takes at most 5 * NStages + 1 steps.  The
\* steps to go are a natural number (ToGo), so that no slot is lost to a document.
THEOREM SlotsComeHome == Spec => DeliveriesEnd
<1> DEFINE Ends == \A w \in Workers :
              worker[w].pc # "idle" /\ worker'[w] # worker[w] => StepsToGo(w)' < StepsToGo(w)
<1>1. TypeInv /\ [Next]_vars => [Ends]_vars
  <2> SUFFICES ASSUME TypeInv, [Next]_vars, NEW w \in Workers,
                      worker[w].pc # "idle", worker'[w] # worker[w]
               PROVE  StepsToGo(w)' < StepsToGo(w)
    OBVIOUS
  <2>0. worker \in [Workers -> SlotType]
    BY DEF TypeInv, TypeOK
  <2>1. WorkerStep(w) \/ Crash(w) \/ DatabaseFault(w)
    <3>1. ASSUME NEW v \in Workers, v # w, WorkerStep(v) \/ Crash(v) \/ DatabaseFault(v)
          PROVE  FALSE
      BY <2>0, <3>1 DEF WorkerStep, MarkProcessing, Claim, ClaimRefused, Look, Work, WorkThrows,
         RecordSuccess, RecordFailure, Ack, Nack, Crash, DatabaseFault, Goto, Proceed
    <3>2. ASSUME NEW v \in Workers, NEW d \in Docs, Deliver(v, d)
          PROVE  FALSE
      BY <2>0, <3>2 DEF Deliver
    <3>3. ASSUME NEW d \in Docs,
                 \/ Submit(d) \/ EnqueueLook(d) \/ EnqueueAdd(d) \/ EnqueueLost(d)
                 \/ Sweep(d) \/ Stall(d) \/ JobLost(d) \/ GoQuiet(d) \/ Decide(d)
                 \/ Confirming(d) \/ \E s \in Stages : Retry(d, s) \/ GoStale(d, s)
          PROVE  FALSE
      BY <3>3, ConfirmingApart DEF Submit, EnqueueLook, EnqueueAdd, EnqueueLost, Sweep, Stall,
         JobLost, GoQuiet, Decide, Retry, GoStale
    <3>4. ~RescoreCycle /\ ~UNCHANGED vars
      BY DEF RescoreCycle, vars
    <3> QED
      BY <3>1, <3>2, <3>3, <3>4 DEF Next, Confirming
  <2>2. CASE MarkProcessing(w) \/ ClaimRefused(w)
    BY <2>2, GotoToGo DEF MarkProcessing, ClaimRefused, Pcs, Holding
  <2>3. CASE Claim(w)
    <3>1. worker'[w].pc = "work" /\ Stage(w)' = Stage(w) /\ worker[w].pc = "claim"
      BY <2>0, <2>3 DEF Claim, SlotType, Stage
    <3>2. /\ StepsToGo(w) = 5 * (NStages - Stage(w)) + 5
          /\ StepsToGo(w)' = 5 * (NStages - Stage(w)) + 4
      BY <3>1 DEF StepsToGo
    <3>3. Stage(w) \in Int /\ NStages \in Int
      BY <2>0, PipelineAssumption DEF SlotType, Stage, Stages
    <3> QED
      BY <3>2, <3>3
  <2>4. CASE Look(w) \/ RecordSuccess(w)
    BY <2>4, GotoToGo, ProceedToGo DEF Look, RecordSuccess, Pcs
  <2>5. CASE Work(w)
    BY <2>5, GotoToGo DEF Work, Pcs, Holding
  <2>6. CASE WorkThrows(w)
    BY <2>6, GotoToGo DEF WorkThrows, Pcs, Holding
  <2>7. CASE RecordFailure(w)
    <3>1. \E pc \in {"ack", "nack"} : Goto(w, pc)
      BY <2>7 DEF RecordFailure
    <3> QED
      BY <2>7, <3>1, GotoToGo DEF RecordFailure, Pcs
  <2>8. CASE Ack(w) \/ Nack(w) \/ Crash(w)
    BY <2>8, IdleToGo DEF Ack, Nack, Crash
  <2>9. CASE DatabaseFault(w)
    BY <2>9, GotoToGo DEF DatabaseFault, Pcs, Holding
  <2> QED
    BY <2>1, <2>2, <2>3, <2>4, <2>5, <2>6, <2>7, <2>8, <2>9 DEF WorkerStep
<1>2. Spec => []TypeInv
  BY TypeInit, TypeStep, PTL DEF Spec
<1> QED
  BY <1>1, <1>2, PTL DEF Spec, DeliveriesEnd

-----------------------------------------------------------------------------
(* The refinement.                                                         *)

doneBar == [d \in Docs |-> {s \in Stages : run[d][s].status = "succeeded"}]
parkedBar == {d \in Docs : DeadLettered(d)}

LEMMA ChainStep ==
    ASSUME ~SlowWorkers, IInv, IInv', [Next]_vars
    PROVE  [Chain!ChainNext]_Chain!chainVars
<1> USE PipelineAssumption
<1>0. /\ run \in [Docs -> [Stages -> RowType]]
      /\ \A e \in Docs : \A t \in Stages :
            run[e][t].status # "none" => \A u \in 1..(t - 1) : run[e][u].status = "succeeded"
  BY DEF IInv, TypeInv, TypeOK, ChainOrder
<1>1. CASE run' = run
  BY <1>1 DEF Chain!chainVars, DeadLettered
<1>2. ASSUME NEW d \in Docs, NEW s \in Stages, NEW x \in RowType, RowStep(d, s, x)
      PROVE  [Chain!ChainNext]_Chain!chainVars
  <2>1. /\ run'[d][s] = x
        /\ \A e \in Docs : \A t \in Stages : (e # d \/ t # s) => run'[e][t] = run[e][t]
    BY <1>0, <1>2 DEF RowStep
  <2>2. \A t \in Stages : t < s => run[d][t].status = "succeeded"
    BY <1>2 DEF RowStep, Stages
  <2>3. \A t \in Stages : t > s => run[d][t].status = "none"
    <3> SUFFICES ASSUME NEW t \in Stages, t > s, run[d][t].status # "none" PROVE FALSE
      OBVIOUS
    <3>1. s \in 1..(t - 1)
      BY DEF Stages
    <3> QED
      BY <1>0, <1>2, <3>1 DEF RowStep
  <2>4. {t \in Stages : run[d][t].status = "succeeded"} = 1..(s - 1)
    BY <1>2, <2>2, <2>3 DEF RowStep, Stages
  <2>5. doneBar[d] = 1..(s - 1) /\ doneBar' \in [Docs -> SUBSET Stages]
    BY <2>4 DEF doneBar
  <2>6. \A e \in Docs : e # d => doneBar'[e] = doneBar[e] /\ (DeadLettered(e)' <=> DeadLettered(e))
    BY <2>1 DEF doneBar, DeadLettered
  <2>7. DeadLettered(d) <=> run[d][s].status = "dead_lettered"
    BY <2>2, <2>3 DEF DeadLettered, Stages
  <2>8. DeadLettered(d)' <=> x.status = "dead_lettered"
    BY <2>1, <2>2, <2>3 DEF DeadLettered, Stages
  <2>9. CASE x.status = "succeeded"
    <3>1. doneBar'[d] = 1..s
      BY <2>1, <2>4, <2>9 DEF doneBar, Stages
    <3>2. doneBar' = [doneBar EXCEPT ![d] = 1..s]
      BY <2>6, <3>1 DEF doneBar
    <3>3. parkedBar' = parkedBar /\ d \notin parkedBar
      BY <1>2, <2>6, <2>7, <2>8, <2>9 DEF parkedBar, RowStep
    <3>4. Chain!Advance(d)
      BY <2>5, <3>2, <3>3 DEF Chain!Advance, Chain!Stages, Stages, doneBar, parkedBar
    <3> QED
      BY <3>4 DEF Chain!ChainNext
  <2>10. CASE x.status # "succeeded"
    <3>1. doneBar'[d] = doneBar[d]
      BY <1>2, <2>1, <2>10 DEF doneBar, RowStep
    <3>2. doneBar' = doneBar
      BY <2>6, <3>1 DEF doneBar
    <3>3. CASE x.status = "dead_lettered"
      <4>1. d \notin parkedBar /\ parkedBar' = parkedBar \cup {d}
        BY <1>2, <2>6, <2>7, <2>8, <3>3 DEF parkedBar, RowStep
      <4>2. Chain!Park(d)
        BY <2>5, <3>2, <4>1 DEF Chain!Park, Chain!Stages, Stages, doneBar, parkedBar
      <4> QED
        BY <4>2 DEF Chain!ChainNext
    <3>4. CASE run[d][s].status = "dead_lettered"
      <4>1. d \in parkedBar /\ parkedBar' = parkedBar \ {d}
        BY <1>2, <2>6, <2>7, <2>8, <3>4 DEF parkedBar, RowStep
      <4>2. Chain!Unpark(d)
        BY <3>2, <4>1 DEF Chain!Unpark, doneBar, parkedBar
      <4> QED
        BY <4>2 DEF Chain!ChainNext
    <3>5. CASE x.status # "dead_lettered" /\ run[d][s].status # "dead_lettered"
      <4>1. parkedBar' = parkedBar
        BY <2>6, <2>7, <2>8, <3>5 DEF parkedBar
      <4> QED
        BY <3>2, <4>1 DEF Chain!chainVars, doneBar, parkedBar
    <3> QED
      BY <3>3, <3>4, <3>5
  <2> QED
    BY <2>9, <2>10
<1> QED
  BY <1>1, <1>2, LedgerStep

\* The pipeline implements the abstract chain: seen through the stages recorded as
\* succeeded and the dead-letter list, queue, claims, crashes and sweeps are invisible.
THEOREM PipelineImplementsChain == ASSUME ~SlowWorkers PROVE Spec => ChainImplemented
<1>1. Init => Chain!ChainInit
  <2> SUFFICES ASSUME Init PROVE Chain!ChainInit
    OBVIOUS
  <2>1. \A d \in Docs : \A s \in Stages : run[d][s].status = "none"
    BY DEF Init, NoRow
  <2> QED
    BY <2>1 DEF Chain!ChainInit, DeadLettered
<1>2. IInv /\ IInv' /\ [Next]_vars => [Chain!ChainNext]_Chain!chainVars
  BY ChainStep
<1> QED
  BY <1>1, <1>2, Invariance, PTL DEF Spec, ChainImplemented, Chain!ChainSpec

-----------------------------------------------------------------------------
(***************************************************************************)
(* The delivery budget.  Without a fault a document has one job at a time, *)
(* one slot works on it, and each of its deliveries that ended in a throw  *)
(* was paid for by one failed attempt of the stage it stopped at: a stage  *)
(* fails at most MaxAttempts - 1 times before it is parked.                *)
(***************************************************************************)

\* What the stages before s can have cost a job.
Quota(s) == (s - 1) * (MaxAttempts - 1)

\* A stage from `first` on has failed, and it pays for n deliveries.
Covered(d, n, first) ==
    \E s \in Stages : /\ first <= s /\ run[d][s].status = "failed"
                      /\ n <= Quota(s) + run[d][s].attempts

JobCharged(d) ==
    /\ job[d].state # "failed"
    /\ job[d].state = "none" => job[d].deliveries = 0
    /\ job[d].state = "active" => job[d].owner # None
    /\ job[d].state = "waiting" => job[d].deliveries = 0 \/ Covered(d, job[d].deliveries, 1)

RowCounted(d, s) ==
    /\ run[d][s].status \in {"none", "pending"} => run[d][s].attempts = 0
    /\ run[d][s].status = "running" =>
          run[d][s].attempts <= MaxAttempts /\ \E w \in Workers : Holds(w, d, s)

Owns(w) ==
    worker[w].pc # "idle" => job[Doc(w)].state = "active" /\ job[Doc(w)].owner = w

\* What the slot's job has been delivered, by where the slot is: this delivery, and
\* those the failed attempts paid for.
Delivered(w) == job[Doc(w)].deliveries

Charged(w) ==
    /\ worker[w].pc = "mark" => Stage(w) = 1
    /\ worker[w].pc \in {"mark", "claim", "look"} =>
          \/ Delivered(w) <= Quota(Stage(w)) + 1
          \/ Covered(Doc(w), Delivered(w) - 1, Stage(w))
    /\ worker[w].pc \in Holding => Delivered(w) <= Quota(Stage(w)) + Row(w).attempts
    /\ worker[w].pc = "nack" => Covered(Doc(w), Delivered(w), 1)

Balanced ==
    /\ \A d \in Docs : JobCharged(d) /\ \A s \in Stages : RowCounted(d, s)
    /\ \A w \in Workers : Owns(w) /\ Charged(w)

Clean == faults = 0 => Balanced

LEMMA CleanInit == Init => Clean
<1> SUFFICES ASSUME Init PROVE Balanced
  BY DEF Clean
<1>1. \A w \in Workers : worker[w].pc = "idle"
  BY DEF Init, Idle
<1>2. \A w \in Workers : Owns(w) /\ Charged(w)
  BY <1>1 DEF Owns, Charged, Holding
<1>3. \A d \in Docs : JobCharged(d) /\ \A s \in Stages : RowCounted(d, s)
  BY DEF Init, JobCharged, RowCounted, NoJob, NoRow
<1> QED
  BY <1>2, <1>3 DEF Balanced

LEMMA QuotaGrows ==
    ASSUME NEW s \in Stages
    PROVE  /\ Quota(s) \in Nat
           /\ Quota(s + 1) = Quota(s) + (MaxAttempts - 1)
<1> DEFINE k == s - 1
           m == MaxAttempts - 1
<1>1. k \in Nat /\ m \in Nat /\ (s + 1) - 1 = k + 1
  BY PipelineAssumption DEF Stages
<1>2. Quota(s) = k * m /\ Quota(s + 1) = (k + 1) * m
  BY <1>1 DEF Quota
<1> HIDE DEF k, m
<1>3. k * m \in Nat /\ (k + 1) * m = k * m + m
  BY <1>1
<1> QED
  BY <1>2, <1>3 DEF m

\* A stage that can fail again leaves the job a delivery.
LEMMA BudgetCovers ==
    ASSUME NEW s \in Stages, NEW n \in Nat, NEW a \in Nat, a < MaxAttempts,
           n <= Quota(s) + a
    PROVE  n < JobBudget
<1> DEFINE m == MaxAttempts - 1
<1>1. s \in Nat /\ NStages \in Nat /\ m \in Nat /\ s <= NStages /\ NStages > 0
  BY PipelineAssumption DEF Stages
<1>2. Quota(s) \in Nat /\ n <= Quota(s) + m
  BY QuotaGrows, PipelineAssumption
<1>3. Quota(s) + m = s * m
  BY <1>1 DEF Quota
<1>4. s * m <= NStages * m
  <2>1. NStages * m = s * m + (NStages - s) * m
    BY <1>1
  <2>2. (NStages - s) * m \in Nat /\ s * m \in Nat
    <3>1. NStages - s \in Nat
      BY <1>1
    <3> HIDE DEF m
    <3> QED
      BY <1>1, <3>1
  <2> QED
    BY <2>1, <2>2
<1>5. JobBudget = NStages * m + NStages
  <2>1. MaxAttempts = m + 1
    BY PipelineAssumption
  <2> HIDE DEF m
  <2>2. NStages * (m + 1) = NStages * m + NStages
    BY <1>1
  <2> QED
    BY <2>1, <2>2 DEF JobBudget
<1>6. s * m \in Nat /\ NStages * m \in Nat
  <2> HIDE DEF m
  <2> QED
    BY <1>1
<1> HIDE DEF m
<1> QED
  BY <1>1, <1>2, <1>3, <1>4, <1>5, <1>6

\* The slots that work on other documents, and those documents, are not concerned by a
\* step of slot w on its own.
LEMMA OthersBalanced ==
    ASSUME IInv, Balanced, NEW d \in Docs, NEW w \in Workers,
           worker[w].pc # "idle" => Doc(w) = d,
           \A v \in Workers : v # w => worker'[v] = worker[v] /\ (worker[v].pc # "idle" => Doc(v) # d),
           \A e \in Docs : e # d => job'[e] = job[e] /\ run'[e] = run[e],
           worker'[w].pc # "idle" => worker'[w].doc = d,
           JobCharged(d)', \A s \in Stages : RowCounted(d, s)', Owns(w)', Charged(w)'
    PROVE  Balanced'
<1>1. ASSUME NEW v \in Workers, v # w PROVE Owns(v)' /\ Charged(v)'
  <2>1. worker'[v] = worker[v] /\ Owns(v) /\ Charged(v)
    BY <1>1 DEF Balanced
  <2>2. CASE worker[v].pc = "idle"
    BY <2>1, <2>2 DEF Owns, Charged, Holding
  <2>3. CASE worker[v].pc # "idle"
    <3>1. Doc(v) \in Docs /\ Doc(v) # d
      BY <1>1, <2>3 DEF IInv, TypeInv, SlotHasDoc
    <3>2. job'[Doc(v)] = job[Doc(v)] /\ run'[Doc(v)] = run[Doc(v)]
      BY <3>1
    <3>3. Doc(v)' = Doc(v) /\ Stage(v)' = Stage(v)
      BY <2>1 DEF Doc, Stage
    <3>4. Row(v)' = Row(v) /\ Delivered(v)' = Delivered(v)
      BY <3>2, <3>3 DEF Row, Delivered
    <3>5. \A n, first : Covered(Doc(v), n, first)' <=> Covered(Doc(v), n, first)
      BY <3>2, <3>3 DEF Covered
    <3>6. Owns(v)'
      BY <2>1, <3>2, <3>3 DEF Owns
    <3>7. Charged(v)'
      BY <2>1, <3>3, <3>4, <3>5 DEF Charged
    <3> QED
      BY <3>6, <3>7
  <2> QED
    BY <2>2, <2>3
<1>2. ASSUME NEW e \in Docs, e # d PROVE JobCharged(e)' /\ \A s \in Stages : RowCounted(e, s)'
  <2>1. job'[e] = job[e] /\ run'[e] = run[e] /\ JobCharged(e) /\ \A s \in Stages : RowCounted(e, s)
    BY <1>2 DEF Balanced
  <2>2. JobCharged(e)'
    BY <2>1 DEF JobCharged, Covered
  <2>3. ASSUME NEW s \in Stages, NEW v \in Workers, Holds(v, e, s) PROVE Holds(v, e, s)'
    <3>1. v # w
      BY <1>2, <2>3 DEF Holds, Holding
    <3> QED
      BY <2>3, <3>1 DEF Holds, Doc, Stage
  <2>4. \A s \in Stages : RowCounted(e, s)'
    BY <2>1, <2>3 DEF RowCounted
  <2> QED
    BY <2>2, <2>4
<1> QED
  BY <1>1, <1>2 DEF Balanced

\* A slot that owns its document's job is alone on it.
LEMMA Alone ==
    ASSUME Balanced, NEW w \in Workers, worker[w].pc # "idle"
    PROVE  \A v \in Workers : v # w /\ worker[v].pc # "idle" => Doc(v) # Doc(w)
BY DEF Balanced, Owns

\* A job that no slot works on changes.
LEMMA JobAlone ==
    ASSUME IInv, Balanced, NEW d \in Docs, job[d].state # "active",
           run' = run, worker' = worker, \A e \in Docs : e # d => job'[e] = job[e],
           JobCharged(d)'
    PROVE  Balanced'
<1>1. ASSUME NEW v \in Workers PROVE Owns(v)' /\ Charged(v)'
  <2>1. Owns(v) /\ Charged(v)
    BY DEF Balanced
  <2>2. CASE worker[v].pc = "idle"
    BY <2>2 DEF Owns, Charged, Holding
  <2>3. CASE worker[v].pc # "idle"
    <3>1. Doc(v) \in Docs /\ Doc(v) # d
      BY <2>1, <2>3 DEF IInv, TypeInv, SlotHasDoc, Owns
    <3>2. job'[Doc(v)] = job[Doc(v)]
      BY <3>1
    <3> QED
      BY <2>1, <3>2 DEF Owns, Charged, Delivered, Covered, Doc, Stage, Row
  <2> QED
    BY <2>2, <2>3
<1>2. ASSUME NEW e \in Docs PROVE JobCharged(e)'
  BY DEF Balanced, JobCharged, Covered
<1>3. ASSUME NEW e \in Docs, NEW s \in Stages PROVE RowCounted(e, s)'
  BY DEF Balanced, RowCounted, Holds, Doc, Stage
<1> QED
  BY <1>1, <1>2, <1>3 DEF Balanced

\* A reviewer's retry takes no failed attempt away that pays for a delivery.
LEMMA RetryBalanced ==
    ASSUME IInv, Balanced, NEW d \in Docs, NEW s \in Stages, Retry(d, s)
    PROVE  Balanced'
<1> DEFINE x == [run[d][s] EXCEPT !.status = "pending", !.attempts = 0]
<1>1. run[d][s] \in RowType /\ run[d][s].status = "dead_lettered"
  BY DEF IInv, TypeInv, TypeOK, Retry
<1>2. run' = [run EXCEPT ![d][s] = x] /\ worker' = worker /\ job' = job
  BY DEF Retry
<1>3. x.status = "pending" /\ x.attempts = 0
  BY <1>1 DEF RowType
<1>4. /\ run'[d][s] = x
      /\ \A e \in Docs : \A t \in Stages : (e # d \/ t # s) => run'[e][t] = run[e][t]
  BY <1>2 DEF IInv, TypeInv, TypeOK
<1>5. ASSUME NEW e \in Docs, NEW n, NEW first, Covered(e, n, first)
      PROVE  Covered(e, n, first)'
  BY <1>1, <1>4, <1>5 DEF Covered
<1>6. ASSUME NEW v \in Workers PROVE Owns(v)' /\ Charged(v)'
  <2>1. Owns(v) /\ Charged(v) /\ Doc(v)' = Doc(v) /\ Stage(v)' = Stage(v)
    BY <1>2 DEF Balanced, Doc, Stage
  <2>2. Owns(v)'
    BY <1>2, <2>1 DEF Owns
  <2>3. worker[v].pc \in Holding => Row(v)' = Row(v)
    <3>1. SUFFICES ASSUME worker[v].pc \in Holding PROVE Row(v)' = Row(v)
      OBVIOUS
    <3>2. Doc(v) \in Docs /\ Stage(v) \in Stages /\ run[Doc(v)][Stage(v)].status = "running"
      BY <3>1, HolderRow
    <3> QED
      BY <1>1, <1>4, <2>1, <3>2 DEF Row
  <2>4. worker[v].pc # "idle" => Doc(v) \in Docs
    BY DEF IInv, TypeInv, SlotHasDoc
  <2>5. Delivered(v)' = Delivered(v)
    BY <1>2, <2>1 DEF Delivered
  <2>6. worker[v].pc # "idle" => \A n, first : Covered(Doc(v), n, first) => Covered(Doc(v), n, first)'
    BY <1>5, <2>1, <2>4
  <2>7. Charged(v)'
    BY <1>2, <2>1, <2>3, <2>5, <2>6 DEF Charged
  <2> QED
    BY <2>2, <2>7
<1>7. ASSUME NEW e \in Docs PROVE JobCharged(e)'
  BY <1>2, <1>5 DEF Balanced, JobCharged
<1>8. ASSUME NEW e \in Docs, NEW t \in Stages PROVE RowCounted(e, t)'
  <2>1. \A v \in Workers : Holds(v, e, t)' = Holds(v, e, t)
    BY <1>2 DEF Holds, Doc, Stage
  <2>2. CASE e = d /\ t = s
    BY <1>3, <1>4, <2>2 DEF RowCounted
  <2>3. CASE e # d \/ t # s
    <3>1. run'[e][t] = run[e][t] /\ RowCounted(e, t)
      BY <1>4, <2>3 DEF Balanced
    <3> QED
      BY <2>1, <3>1 DEF RowCounted
  <2> QED
    BY <2>2, <2>3
<1> QED
  BY <1>6, <1>7, <1>8 DEF Balanced

LEMMA DeliverBalanced ==
    ASSUME IInv, Balanced, NEW w \in Workers, NEW d \in Docs, Deliver(w, d)
    PROVE  Balanced'
<1>1. /\ job[d] \in JobType /\ worker[w].pc = "idle" /\ job[d].state = "waiting"
      /\ JobCharged(d) /\ \A s \in Stages : RowCounted(d, s)
  BY DEF IInv, TypeInv, TypeOK, Deliver, Balanced
<1>2. /\ job'[d] = [state |-> "active", owner |-> w, deliveries |-> job[d].deliveries + 1]
      /\ \A e \in Docs : e # d => job'[e] = job[e]
      /\ run' = run
  BY DEF IInv, TypeInv, TypeOK, Deliver
<1>3. /\ worker'[w].pc = "mark" /\ worker'[w].doc = d /\ worker'[w].stage = 1
      /\ \A v \in Workers : v # w => worker'[v] = worker[v]
  BY DEF IInv, TypeInv, TypeOK, Deliver, Idle
<1>4. \A v \in Workers : v # w => (worker[v].pc # "idle" => Doc(v) # d)
  BY <1>1 DEF Balanced, Owns
<1>5. JobCharged(d)'
  BY <1>2, PipelineAssumption DEF JobCharged
<1>6. \A s \in Stages : RowCounted(d, s)'
  <2>1. \A s \in Stages : \A v \in Workers : Holds(v, d, s) => Holds(v, d, s)'
    BY <1>1, <1>3 DEF Holds, Doc, Stage, Holding
  <2> QED
    BY <1>1, <1>2, <2>1 DEF RowCounted
<1>7. Owns(w)'
  BY <1>2, <1>3 DEF Owns, Doc
<1>8. Charged(w)'
  <2>1. Doc(w)' = d /\ Stage(w)' = 1 /\ Delivered(w)' = job[d].deliveries + 1
    BY <1>2, <1>3 DEF Doc, Stage, Delivered
  <2>2. Quota(1) = 0 /\ job[d].deliveries \in Nat
    BY <1>1, PipelineAssumption DEF Quota, JobType
  <2>3. job[d].deliveries = 0 \/ Covered(d, job[d].deliveries, 1)
    BY <1>1 DEF JobCharged
  <2>4. \A n : Covered(d, n, 1)' <=> Covered(d, n, 1)
    BY <1>2 DEF Covered
  <2>5. (job[d].deliveries + 1) - 1 = job[d].deliveries
    BY <2>2
  <2> QED
    BY <1>3, <2>1, <2>2, <2>3, <2>4, <2>5 DEF Charged, Holding
<1> QED
  BY <1>1, <1>2, <1>3, <1>4, <1>5, <1>6, <1>7, <1>8, OthersBalanced DEF Doc

\* A slot moves on while the ledger and the jobs stay as they are.
LEMMA WalkBalanced ==
    ASSUME IInv, Balanced, NEW w \in Workers, worker[w].pc # "idle",
           run' = run, job' = job,
           \A v \in Workers : v # w => worker'[v] = worker[v],
           worker'[w].doc = Doc(w),
           worker[w].pc \in Holding => worker'[w].pc \in Holding /\ worker'[w].stage = Stage(w),
           Charged(w)'
    PROVE  Balanced'
<1>0. PICK d \in Docs : d = Doc(w)
  BY DEF IInv, TypeInv, SlotHasDoc
<1>1. JobCharged(d) /\ Owns(w) /\ \A s \in Stages : RowCounted(d, s)
  BY DEF Balanced
<1>2. \A v \in Workers : v # w /\ worker[v].pc # "idle" => Doc(v) # d
  BY <1>0, Alone
<1>3. JobCharged(d)'
  BY <1>1 DEF JobCharged, Covered
<1>4. ASSUME NEW s \in Stages PROVE RowCounted(d, s)'
  <2>1. \A v \in Workers : Holds(v, d, s) => Holds(v, d, s)'
    BY DEF Holds, Doc, Stage
  <2> QED
    BY <1>1, <2>1 DEF RowCounted
<1>5. Owns(w)'
  BY <1>1 DEF Owns, Doc
<1> QED
  BY <1>0, <1>1, <1>2, <1>3, <1>4, <1>5, OthersBalanced

LEMMA StepsBalanced ==
    ASSUME IInv, Balanced, NEW w \in Workers,
           MarkProcessing(w) \/ ClaimRefused(w) \/ Work(w) \/ WorkThrows(w) \/ Look(w)
    PROVE  Balanced'
<1>1. /\ worker[w].pc # "idle" /\ worker[w] \in SlotType /\ Charged(w)
      /\ run' = run /\ job' = job
  BY DEF MarkProcessing, ClaimRefused, Work, WorkThrows, Look, Holding, IInv, TypeInv, TypeOK,
     Balanced
<1>2. ASSUME NEW pc \in Pcs \ {"idle", "mark"}, Goto(w, pc),
             \/ pc = "ack" /\ worker[w].pc = "look"
             \/ pc \in {"claim", "look"} /\ worker[w].pc \in {"mark", "claim"}
             \/ pc \in Holding /\ worker[w].pc \in Holding
      PROVE  Balanced'
  <2>1. /\ worker'[w].pc = pc /\ worker'[w].doc = worker[w].doc
        /\ worker'[w].stage = worker[w].stage /\ worker'[w].attempts = worker[w].attempts
        /\ \A v \in Workers : v # w => worker'[v] = worker[v]
    BY <1>2 DEF Goto, IInv, TypeInv, TypeOK, SlotType
  <2>2. /\ Doc(w)' = Doc(w) /\ Stage(w)' = Stage(w) /\ Row(w)' = Row(w)
        /\ Delivered(w)' = Delivered(w)
    BY <1>1, <2>1 DEF Doc, Stage, Row, Delivered
  <2>3. \A n, first : Covered(Doc(w), n, first)' <=> Covered(Doc(w), n, first)
    BY <1>1, <2>2 DEF Covered
  <2>4. Charged(w)'
    BY <1>1, <1>2, <2>1, <2>2, <2>3 DEF Charged, Holding
  <2> QED
    BY <1>1, <1>2, <2>1, <2>4, WalkBalanced DEF Doc, Stage, Holding
<1>3. CASE MarkProcessing(w) \/ ClaimRefused(w)
  BY <1>2, <1>3 DEF MarkProcessing, ClaimRefused, Pcs, Holding
<1>4. CASE Work(w) \/ WorkThrows(w)
  BY <1>2, <1>4 DEF Work, WorkThrows, Pcs, Holding
<1>5. CASE Look(w) /\ Row(w).status # "succeeded"
  BY <1>2, <1>5 DEF Look, Pcs, Holding
<1>6. CASE Look(w) /\ Row(w).status = "succeeded"
  <2>0. worker[w].pc = "look" /\ Proceed(w)
    BY <1>6 DEF Look
  <2>1. /\ \A v \in Workers : v # w => worker'[v] = worker[v]
        /\ worker'[w].doc = Doc(w)
        /\ \/ worker'[w].pc = "ack"
           \/ worker'[w].pc = "claim" /\ worker'[w].stage = Stage(w) + 1
    BY <2>0 DEF IInv, TypeInv, TypeOK, SlotType, Proceed, Doc, Stage
  <2>2. Doc(w)' = Doc(w) /\ Delivered(w)' = Delivered(w)
    BY <1>1, <2>1 DEF Doc, Delivered
  <2>3. Stage(w) \in Stages /\ Doc(w) \in Docs /\ Delivered(w) \in Nat
    BY <1>1 DEF IInv, TypeInv, TypeOK, SlotHasDoc, SlotType, JobType, Stage, Delivered
  <2>4. CASE worker'[w].pc = "ack"
    <3>1. Charged(w)'
      BY <2>4 DEF Charged, Holding
    <3> QED
      BY <1>1, <2>0, <2>1, <3>1, WalkBalanced DEF Holding
  <2>5. CASE worker'[w].pc = "claim" /\ worker'[w].stage = Stage(w) + 1
    <3>0. Stage(w)' = Stage(w) + 1
      BY <2>5 DEF Stage
    <3>1. CASE Delivered(w) <= Quota(Stage(w)) + 1
      <4>1. Delivered(w) <= Quota(Stage(w) + 1) + 1
        BY <2>3, <3>1, QuotaGrows, PipelineAssumption
      <4>2. Charged(w)'
        BY <2>2, <2>5, <3>0, <4>1 DEF Charged, Holding
      <4> QED
        BY <1>1, <2>0, <2>1, <4>2, WalkBalanced DEF Holding
    <3>2. CASE Covered(Doc(w), Delivered(w) - 1, Stage(w))
      <4>1. PICK s \in Stages : /\ Stage(w) <= s /\ run[Doc(w)][s].status = "failed"
                                /\ Delivered(w) - 1 <= Quota(s) + run[Doc(w)][s].attempts
        BY <3>2 DEF Covered
      <4>2. s # Stage(w)
        BY <1>6, <4>1 DEF Row
      <4>3. Stage(w) + 1 <= s
        BY <2>3, <4>1, <4>2 DEF Stages
      <4>4. Covered(Doc(w), Delivered(w) - 1, Stage(w))'
        BY <1>1, <2>2, <3>0, <4>1, <4>3 DEF Covered
      <4>5. Charged(w)'
        BY <2>5, <4>4 DEF Charged, Holding
      <4> QED
        BY <1>1, <2>0, <2>1, <4>5, WalkBalanced DEF Holding
    <3> QED
      BY <1>1, <2>0, <3>1, <3>2 DEF Charged
  <2> QED
    BY <2>1, <2>4, <2>5
<1> QED
  BY <1>3, <1>4, <1>5, <1>6

\* While a slot works on a document, no row runs but the one it holds.
LEMMA RunningHeld ==
    ASSUME IInv, Balanced, NEW w \in Workers, worker[w].pc # "idle", NEW t \in Stages,
           run[Doc(w)][t].status = "running"
    PROVE  worker[w].pc \in Holding /\ t = Stage(w)
<1>1. Doc(w) \in Docs
  BY DEF IInv, TypeInv, SlotHasDoc
<1>2. PICK v \in Workers : Holds(v, Doc(w), t)
  BY <1>1 DEF Balanced, RowCounted
<1>3. v = w
  BY <1>2, Alone DEF Holds, Holding
<1> QED
  BY <1>2, <1>3 DEF Holds

LEMMA ClaimBalanced ==
    ASSUME IInv, Balanced, NEW w \in Workers, Claim(w)
    PROVE  Balanced'
<1>0. PICK d \in Docs, s \in Stages : d = Doc(w) /\ s = Stage(w)
  BY DEF IInv, TypeInv, TypeOK, SlotHasDoc, SlotType, Claim, Stage
<1> DEFINE r == run[d][s]
           x == [status |-> "running", attempts |-> r.attempts + 1, stale |-> FALSE]
           n == job[d].deliveries
<1>1. /\ worker[w].pc = "claim" /\ Eligible(r) /\ r \in RowType /\ worker[w] \in SlotType
      /\ job[d] \in JobType /\ job' = job /\ run' = [run EXCEPT ![d][s] = x]
  BY <1>0 DEF Claim, Row, IInv, TypeInv, TypeOK
<1>2. /\ worker'[w].pc = "work" /\ worker'[w].doc = d /\ worker'[w].stage = s
      /\ \A v \in Workers : v # w => worker'[v] = worker[v]
  BY <1>0, <1>1 DEF Claim, IInv, TypeInv, TypeOK, SlotType, Doc, Stage
<1>3. /\ run'[d][s] = x
      /\ \A t \in Stages : t # s => run'[d][t] = run[d][t]
      /\ \A e \in Docs : e # d => run'[e] = run[e]
  BY <1>1 DEF IInv, TypeInv, TypeOK
<1>4. \A v \in Workers : v # w /\ worker[v].pc # "idle" => Doc(v) # d
  BY <1>0, <1>1, Alone
<1>5. \A t \in Stages : run[d][t].status # "running"
  BY <1>0, <1>1, RunningHeld DEF Holding
<1>6. JobCharged(d) /\ Owns(w) /\ Charged(w) /\ \A t \in Stages : RowCounted(d, t)
  BY DEF Balanced
<1>7. r.attempts < MaxAttempts /\ r.attempts \in Nat /\ r.status # "succeeded"
  <2>1. r.status \in {"none", "pending"} => r.attempts = 0
    BY <1>6 DEF RowCounted
  <2> QED
    BY <1>1, <1>5, <2>1, PipelineAssumption DEF Eligible, RowType
<1>8. RowCounted(d, s)'
  <2>1. Holds(w, d, s)'
    BY <1>2 DEF Holds, Holding, Doc, Stage
  <2>2. x.attempts <= MaxAttempts
    BY <1>7, PipelineAssumption
  <2> QED
    BY <1>3, <2>1, <2>2 DEF RowCounted
<1>9. ASSUME NEW t \in Stages, t # s PROVE RowCounted(d, t)'
  BY <1>3, <1>5, <1>6, <1>9 DEF RowCounted
<1>10. Owns(w)' /\ JobCharged(d)'
  <2>1. job[d].state = "active" /\ job[d].owner = w
    BY <1>0, <1>1, <1>6 DEF Owns
  <2> QED
    BY <1>1, <1>2, <2>1, PipelineAssumption DEF Owns, JobCharged, Doc
<1>11. Charged(w)'
  <2>1. n \in Nat /\ Quota(s) \in Nat
    BY <1>1, QuotaGrows DEF JobType
  <2>2. n <= Quota(s) + 1 \/ Covered(d, n - 1, s)
    BY <1>0, <1>1, <1>6 DEF Charged, Delivered
  <2>3. ASSUME Covered(d, n - 1, s) PROVE n <= Quota(s) + (r.attempts + 1)
    <3>1. PICK t \in Stages : /\ s <= t /\ run[d][t].status = "failed"
                              /\ n - 1 <= Quota(t) + run[d][t].attempts
      BY <2>3 DEF Covered
    <3>2. t = s
      <4>1. SUFFICES ASSUME t # s PROVE FALSE
        OBVIOUS
      <4>2. s \in 1..(t - 1)
        BY <3>1, <4>1, PipelineAssumption DEF Stages
      <4> QED
        BY <1>7, <3>1, <4>2 DEF IInv, ChainOrder
    <3> QED
      BY <1>7, <2>1, <3>1, <3>2
  <2>4. n <= Quota(s) + (r.attempts + 1)
    BY <1>7, <2>1, <2>2, <2>3
  <2>5. Delivered(w)' = n /\ Row(w)' = x /\ Stage(w)' = s
    BY <1>1, <1>2, <1>3 DEF Delivered, Row, Doc, Stage
  <2> QED
    BY <1>2, <2>4, <2>5 DEF Charged, Holding
<1> QED
  BY <1>0, <1>1, <1>2, <1>3, <1>4, <1>8, <1>9, <1>10, <1>11, OthersBalanced

\* A holder writes its row, and goes on or home with what was delivered.
LEMMA RecordBalanced ==
    ASSUME IInv, Balanced, NEW w \in Workers, worker[w].pc \in Holding,
           NEW x \in RowType, run' = [run EXCEPT ![Doc(w)][Stage(w)] = x], job' = job,
           x.attempts = Row(w).attempts,
           \A v \in Workers : v # w => worker'[v] = worker[v],
           worker'[w].doc = Doc(w),
           \/ worker'[w].pc = "ack" /\ x.status \in {"succeeded", "dead_lettered"}
           \/ worker'[w].pc = "nack" /\ x.status = "failed"
           \/ /\ worker'[w].pc = "claim" /\ x.status = "succeeded"
              /\ worker'[w].stage = Stage(w) + 1
    PROVE  Balanced'
<1>0. PICK d \in Docs, s \in Stages : d = Doc(w) /\ s = Stage(w)
  BY HolderRow
<1> DEFINE n == job[d].deliveries
<1>1. /\ job[d] \in JobType /\ worker[w].pc # "idle" /\ run[d][s].status = "running"
      /\ run[d][s] = Row(w) /\ run[d][s] \in RowType
  BY <1>0, HolderRow DEF IInv, TypeInv, TypeOK, Holding
<1>2. /\ run'[d][s] = x
      /\ \A t \in Stages : t # s => run'[d][t] = run[d][t]
      /\ \A e \in Docs : e # d => run'[e] = run[e]
  BY <1>0 DEF IInv, TypeInv, TypeOK
<1>3. \A v \in Workers : v # w /\ worker[v].pc # "idle" => Doc(v) # d
  BY <1>0, <1>1, Alone
<1>4. \A t \in Stages : t # s => run[d][t].status # "running"
  BY <1>0, <1>1, RunningHeld
<1>5. JobCharged(d) /\ Owns(w) /\ Charged(w) /\ \A t \in Stages : RowCounted(d, t)
  BY DEF Balanced
<1>6. \A t \in Stages : RowCounted(d, t)'
  <2>1. RowCounted(d, s)'
    BY <1>2 DEF RowCounted
  <2>2. ASSUME NEW t \in Stages, t # s PROVE RowCounted(d, t)'
    BY <1>2, <1>4, <1>5, <2>2 DEF RowCounted
  <2> QED
    BY <2>1, <2>2
<1>7. Owns(w)' /\ JobCharged(d)'
  <2>1. job[d].state = "active" /\ job[d].owner = w
    BY <1>0, <1>1, <1>5 DEF Owns
  <2> QED
    BY <1>0, <2>1, PipelineAssumption DEF Owns, JobCharged, Doc
<1>8. Charged(w)'
  <2>1. n \in Nat /\ Quota(s) \in Nat /\ x.attempts \in Nat /\ MaxAttempts \in Nat
    BY <1>1, QuotaGrows, PipelineAssumption DEF JobType, RowType
  <2>2. n <= Quota(s) + x.attempts
    BY <1>0, <1>5 DEF Charged, Delivered
  <2>3. Delivered(w)' = n /\ Doc(w)' = d
    BY <1>0 DEF Delivered, Doc
  <2>4. CASE worker'[w].pc = "ack"
    BY <2>4 DEF Charged, Holding
  <2>5. CASE worker'[w].pc = "nack" /\ x.status = "failed"
    <3>1. Covered(d, n, 1)'
      BY <1>2, <2>2, <2>5 DEF Covered, Stages
    <3> QED
      BY <2>3, <2>5, <3>1 DEF Charged, Holding
  <2>6. CASE worker'[w].pc = "claim" /\ worker'[w].stage = Stage(w) + 1
    <3>1. x.attempts <= MaxAttempts
      BY <1>1, <1>5 DEF RowCounted
    <3>2. n <= Quota(s + 1) + 1
      BY <2>1, <2>2, <3>1, QuotaGrows
    <3>3. Stage(w)' = s + 1
      BY <1>0, <2>6 DEF Stage
    <3> QED
      BY <2>3, <2>6, <3>2, <3>3 DEF Charged, Holding
  <2> QED
    BY <2>4, <2>5, <2>6
<1> QED
  BY <1>0, <1>1, <1>2, <1>3, <1>6, <1>7, <1>8, OthersBalanced

\* A slot lets go of its job, which is done or has a delivery left.
LEMMA LeaveBalanced ==
    ASSUME IInv, Balanced, NEW w \in Workers, Ack(w) \/ Nack(w)
    PROVE  Balanced'
<1>0. PICK d \in Docs : d = Doc(w)
  BY DEF IInv, TypeInv, SlotHasDoc, Ack, Nack
<1> DEFINE n == job[d].deliveries
<1>1. /\ worker[w].pc \in {"ack", "nack"} /\ job[d] \in JobType /\ run' = run
      /\ Owns(w) /\ Charged(w) /\ JobCharged(d) /\ \A t \in Stages : RowCounted(d, t)
  BY DEF Ack, Nack, Balanced, IInv, TypeInv, TypeOK
<1>2. /\ worker'[w].pc = "idle"
      /\ \A v \in Workers : v # w => worker'[v] = worker[v]
  BY DEF Ack, Nack, IInv, TypeInv, TypeOK, Idle
<1>3. \A v \in Workers : v # w /\ worker[v].pc # "idle" => Doc(v) # d
  BY <1>0, <1>1, Alone
<1>4. job[d].owner = w
  BY <1>0, <1>1 DEF Owns
<1>5. \A e \in Docs : e # d => job'[e] = job[e]
  BY <1>0 DEF Ack, Nack, IInv, TypeInv, TypeOK
<1>6. \A t \in Stages : RowCounted(d, t)'
  <2>1. \A t \in Stages : run[d][t].status # "running"
    BY <1>0, <1>1, RunningHeld DEF Holding
  <2> QED
    BY <1>1, <2>1 DEF RowCounted
<1>7. Owns(w)' /\ Charged(w)'
  BY <1>2 DEF Owns, Charged, Holding
<1>8. CASE Ack(w)
  <2>1. job'[d].state = "completed"
    BY <1>0, <1>1, <1>4, <1>8 DEF Ack, IInv, TypeInv, TypeOK, JobType
  <2>2. JobCharged(d)'
    BY <2>1 DEF JobCharged
  <2> QED
    BY <1>0, <1>1, <1>2, <1>3, <1>5, <1>6, <1>7, <2>2, OthersBalanced
<1>9. CASE Nack(w)
  <2>1. Covered(d, n, 1)
    BY <1>0, <1>9, <1>1 DEF Nack, Charged, Delivered
  <2>2. n < JobBudget
    <3>1. PICK s \in Stages : run[d][s].status = "failed" /\ n <= Quota(s) + run[d][s].attempts
      BY <2>1 DEF Covered
    <3>2. run[d][s].attempts \in Nat /\ run[d][s].attempts < MaxAttempts /\ n \in Nat
      BY <1>1, <3>1 DEF IInv, FailedAttempts, TypeInv, TypeOK, RowType, JobType
    <3> QED
      BY <3>1, <3>2, BudgetCovers
  <2>3. job'[d].state = "waiting" /\ job'[d].deliveries = n
    BY <1>0, <1>1, <1>4, <1>9, <2>2 DEF Nack, IInv, TypeInv, TypeOK, JobType
  <2>4. Covered(d, n, 1)'
    BY <1>1, <2>1, <2>3 DEF Covered
  <2>5. JobCharged(d)'
    BY <2>3, <2>4 DEF JobCharged
  <2> QED
    BY <1>0, <1>1, <1>2, <1>3, <1>5, <1>6, <1>7, <2>5, OthersBalanced
<1> QED
  BY <1>8, <1>9

\* Every step that is no fault keeps the balance.
LEMMA BalanceStep ==
    ASSUME ~SlowWorkers, IInv, Balanced, Next, faults' = faults
    PROVE  Balanced'
<1>0. faults \in Nat
  BY DEF IInv, TypeInv, TypeOK
<1>1. ASSUME run' = run, job' = job, worker' = worker PROVE Balanced'
  BY <1>1 DEF Balanced, JobCharged, RowCounted, Owns, Charged, Covered, Delivered, Holds, Row,
     Doc, Stage
<1>2. ASSUME NEW d \in Docs, Submit(d) \/ Sweep(d) \/ GoQuiet(d) \/ Decide(d) PROVE Balanced'
  BY <1>1, <1>2 DEF Submit, Sweep, GoQuiet, Decide
<1>3. ASSUME NEW d \in Docs, EnqueueLost(d) \/ JobLost(d) PROVE FALSE
  BY <1>0, <1>3 DEF EnqueueLost, JobLost, Fault
<1>4. ASSUME NEW d \in Docs, EnqueueLook(d) PROVE Balanced'
  <2>1. CASE job[d].state \in {"completed", "failed"}
    <3>1. job'[d] = NoJob /\ \A e \in Docs : e # d => job'[e] = job[e]
      BY <1>4, <2>1 DEF EnqueueLook, IInv, TypeInv, TypeOK
    <3>2. JobCharged(d)'
      BY <3>1 DEF JobCharged, NoJob
    <3> QED
      BY <1>4, <2>1, <3>1, <3>2, JobAlone DEF EnqueueLook
  <2>2. CASE job[d].state \notin {"completed", "failed"}
    BY <1>1, <1>4, <2>2 DEF EnqueueLook
  <2> QED
    BY <2>1, <2>2
<1>5. ASSUME NEW d \in Docs, EnqueueAdd(d) PROVE Balanced'
  <2>1. CASE job[d].state = "none"
    <3>1. /\ job'[d].state = "waiting" /\ job'[d].deliveries = job[d].deliveries
          /\ \A e \in Docs : e # d => job'[e] = job[e]
      BY <1>5, <2>1 DEF EnqueueAdd, IInv, TypeInv, TypeOK, JobType
    <3>2. JobCharged(d)'
      BY <2>1, <3>1 DEF Balanced, JobCharged
    <3> QED
      BY <1>5, <2>1, <3>1, <3>2, JobAlone DEF EnqueueAdd
  <2>2. CASE job[d].state # "none"
    BY <1>1, <1>5, <2>2 DEF EnqueueAdd
  <2> QED
    BY <2>1, <2>2
<1>6. ASSUME NEW d \in Docs, Stall(d) PROVE FALSE
  BY <1>6 DEF Stall, Balanced, JobCharged
<1>7. ASSUME NEW d \in Docs, NEW s \in Stages, GoStale(d, s) PROVE FALSE
  BY <1>7 DEF GoStale, Balanced, RowCounted, Holds
<1>8. ASSUME NEW w \in Workers, Crash(w) \/ DatabaseFault(w) PROVE FALSE
  BY <1>0, <1>8 DEF Crash, DatabaseFault, Fault
<1>9. ASSUME NEW w \in Workers, RecordSuccess(w) PROVE Balanced'
  <2> DEFINE x == [run[Doc(w)][Stage(w)] EXCEPT !.status = "succeeded", !.stale = FALSE]
  <2>1. /\ worker[w].pc \in Holding /\ Proceed(w) /\ job' = job
        /\ run' = [run EXCEPT ![Doc(w)][Stage(w)] = x]
    BY <1>9 DEF RecordSuccess, Holding
  <2>2. Row(w) \in RowType /\ Row(w) = run[Doc(w)][Stage(w)]
    BY <2>1, HolderRow
  <2>3. x \in RowType /\ x.status = "succeeded" /\ x.attempts = Row(w).attempts
    BY <2>2 DEF RowType
  <2>4. /\ \A v \in Workers : v # w => worker'[v] = worker[v]
        /\ worker'[w].doc = Doc(w)
        /\ \/ worker'[w].pc = "ack"
           \/ worker'[w].pc = "claim" /\ worker'[w].stage = Stage(w) + 1
    BY <2>1 DEF IInv, TypeInv, TypeOK, SlotType, Proceed, Doc, Stage
  <2> QED
    BY <2>1, <2>3, <2>4, RecordBalanced
<1>10. ASSUME NEW w \in Workers, RecordFailure(w) PROVE Balanced'
  <2> DEFINE st == IF Exhausted(w) THEN "dead_lettered" ELSE "failed"
             x == [run[Doc(w)][Stage(w)] EXCEPT !.stale = FALSE, !.status = st]
  <2>1. /\ worker[w].pc \in Holding /\ job' = job
        /\ run' = [run EXCEPT ![Doc(w)][Stage(w)] = x]
    BY <1>10 DEF RecordFailure, Holding
  <2>5. Goto(w, IF Exhausted(w) THEN "ack" ELSE "nack")
    <3>1. ~Fault
      BY <1>0 DEF Fault
    <3> QED
      BY <1>10, <3>1 DEF RecordFailure
  <2>2. Row(w) \in RowType /\ Row(w) = run[Doc(w)][Stage(w)]
    BY <2>1, HolderRow
  <2>3. x \in RowType /\ x.status = st /\ x.attempts = Row(w).attempts
    BY <2>2 DEF RowType
  <2>4. /\ \A v \in Workers : v # w => worker'[v] = worker[v]
        /\ worker'[w].doc = Doc(w)
        /\ worker'[w].pc = IF Exhausted(w) THEN "ack" ELSE "nack"
    BY <2>5 DEF Goto, IInv, TypeInv, TypeOK, SlotType, Doc
  <2> QED
    BY <2>1, <2>3, <2>4, RecordBalanced
<1>11. ASSUME RescoreCycle \/ \E d \in Docs : Confirming(d) PROVE Balanced'
  BY <1>1, <1>11, ConfirmingApart DEF RescoreCycle
<1> QED
  BY <1>2, <1>3, <1>4, <1>5, <1>6, <1>7, <1>8, <1>9, <1>10, <1>11, RetryBalanced,
     DeliverBalanced, StepsBalanced, ClaimBalanced, LeaveBalanced DEF Next, WorkerStep, Confirming

LEMMA CleanStep == ASSUME ~SlowWorkers PROVE IInv /\ Clean /\ [Next]_vars => Clean'
<1> SUFFICES ASSUME IInv, Clean, [Next]_vars, faults' = 0 PROVE Balanced'
  BY DEF Clean
<1>1. CASE UNCHANGED vars
  <2>1. Balanced
    BY <1>1 DEF Clean, vars
  <2> QED
    BY <1>1, <2>1 DEF vars, Balanced, JobCharged, RowCounted, Owns, Charged, Covered, Delivered,
       Holds, Row, Doc, Stage
<1>2. CASE Next
  <2>1. faults \in Nat /\ (faults' = faults \/ faults' = faults + 1)
    BY <1>2 DEF IInv, TypeInv, TypeOK, Next, WorkerStep, Submit, EnqueueLook, EnqueueAdd,
       EnqueueLost, Sweep, Stall, JobLost, GoQuiet, Decide, Retry, GoStale, Crash,
       DatabaseFault, Deliver, MarkProcessing, Claim, ClaimRefused, Look, Work, WorkThrows,
       RecordSuccess, RecordFailure, Ack, Nack, RescoreCycle, Confirm, ConfirmationRescored,
       ConfirmationLost, Fault
  <2>2. faults = 0
    BY <2>1
  <2> QED
    BY <1>2, <2>2, BalanceStep DEF Clean
<1> QED
  BY <1>1, <1>2

\* Unless something broke, no job runs out of deliveries before its document is done or
\* parked, for any number of documents, slots, stages and attempts a stage is given.
THEOREM BudgetAlwaysSuffices == ASSUME ~SlowWorkers PROVE Spec => []BudgetSuffices
<1>1. IInv /\ Clean => BudgetSuffices
  BY DEF IInv, TypeInv, TypeOK, Clean, Balanced, JobCharged, BudgetSuffices
<1>2. IInv /\ Clean /\ [Next]_vars => Clean'
  BY CleanStep
<1> QED
  BY <1>1, <1>2, CleanInit, Invariance, PTL DEF Spec
=============================================================================
