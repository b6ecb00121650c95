# ScholarShield: a TLA+ development

ScholarShield takes scholarship applications with an income certificate, reads the
certificate, links applications of one family, evaluates contradiction rules over a
whole admission cycle and shows a reviewer a queue ordered by score. People decide; the
software only orders and explains. This directory specifies the parts whose correctness
depends on interleaving, failure and order, checks them with TLC and proves the central
results with TLAPS.

Paths below are relative to `apps/api/src/` unless they say otherwise.

## 1. The system

| component | state | operations | hard behaviour |
|---|---|---|---|
| Document pipeline (`pipeline/*`) | `pipeline_stage_runs` (one row per document and stage), the BullMQ job per document, `applications.status` | submit and enqueue, deliver, claim, run, record, retry a dead letter, sweep | at-least-once delivery, killed workers, the stale timeout, two attempt counters, lost enqueues |
| Cycle engine (`household/service.ts`) | `household_edges`, `households`, `risk_flags`, `applications.risk_score/household_id/status`, the cycle's advisory lock | reconcile, score, reject or restore an edge, rescore after an input | a read of the whole cycle that is written back later; inputs that commit at any moment; rescores that die |
| Components, resolution (`household/components.ts`, `resolve.ts`, `normalize.ts`) | none (pure) | pair similarity, union-find | transitive closure, rejected edges, thresholds |
| Rules, certificate, checklist (`household/rules.ts`, `certificate.ts`, `checklist.ts`) | none (pure) | evaluate a cycle, compare a certificate | corroboration, population rules, boundaries |
| Intake (`routes/applications.ts`, `routes/admin.ts` import, `routes/auth.ts` links) | applicants, magic links, applications, stored objects | submit, import, request and consume a link | unique index races, single use, object before row |
| Review and retention (`routes/applications.ts`, `jobs/retention.ts`) | reviews, verification results, purged documents | decide, record verification, purge | two reviewers at once, purge against a stage in flight |
| Staff access (`routes/auth.ts`, `routes/admin.ts`, `auth/*`, the console's forms) | users, session versions, TOTP steps, recovery codes, the browser's cookie | invite, accept, deactivate, reactivate, sign in, enrol, revoke | the last administrator, stale tokens, burnt codes, statements of two requests interleaved |
| Certificate reading (`apps/ocr-service/app/ocr.py`, `household/certificate.ts`) | none (pure) | find labels, take values, compare with the form | words lost, run together or read faintly |
| Applicant's pages (`apps/web/app/apply`, `apps/web/app/status`) | the tab's draft and receipt, the session cookie, the page | type, submit, refresh, navigate, exchange a link | answers that are late or lost, requests that outlive their page, effects that run twice |
| Pool (`db.ts`) | ten connections | connect, transaction, advisory lock | holders that need a second connection |
| Tips, queue listing, mail, rate limiter, audit, seeds | mostly none | reads, output | - |

How they interact: a request commits rows in Postgres and then either enqueues a document
in Redis or rescores the cycle in-process. A worker process takes the document through
five stages, each claimed and recorded in Postgres; the last two call the same engine the
requests call. The engine serialises itself per cycle with an advisory lock. Sweeps
(stuck documents, retention) run on timers beside the worker. The web pages talk to the API
through routes of their own that keep the session token in a cookie.

What would make each part correct:

- Pipeline: a claim is exclusive, stages run in order and are never redone once recorded,
  a stage that gives up is visible, and no document is forgotten.
- Engine: once nothing is in flight, stored households, flags and queue are those of the
  population as it stands; no run overwrites a newer one; runs end.
- Components: a union-find yields the connected components, whatever the order.
- Rules and scores: what is stored about an application is what the rules say of the
  cycle, once per rule; nobody is flagged on one side of a contradiction only, for a
  shared surname only, or for a date only; the checklist and the flags tell one story.
- Intake: one application per person and cycle; an address is confirmed by somebody who
  reads its mail; a row never points at missing bytes; a link is used once.
- Review and retention: a terminal decision is final; what a reviewer recorded is not
  hidden by a stage that runs again; what a purge promises to remove is gone.
- Access: an administrator remains; a revoked session is dead; a code is used once.
- Reading: a field does not hold another row's text, and an error stays on its line.
- Applicant's pages: a refresh loses nothing, a link that worked is never said by its
  answer to be refused.

The hazards found in the code, each at its line and with the properties aimed at it, are
listed in `PROJECT.json` under `hazards`.

## 2. Modules

| module | what it is |
|---|---|
| `DocumentChain` | abstract specification of the pipeline: stages complete in order, at most once, and a document stops only by being parked for a human |
| `Pipeline` | the pipeline in detail; implements `DocumentChain` |
| `MCPipeline` | instances of `Pipeline` for TLC |
| `PipelineProofs` | theorems about `Pipeline` |
| `CycleEngine` | the household and scoring engine, its lock and its inputs |
| `MCCycleEngine` | instances of `CycleEngine` for TLC |
| `CycleEngineProofs` | theorems about `CycleEngine` |
| `Households` | the union-find of `components.ts`, loop by loop |
| `MCHouseholds` | its instance for TLC |
| `HouseholdsProofs` | theorems about `Households` |
| `Resolution` | operators: from similarities to a pair's score and link |
| `Rules` | operators: the twenty rules, the certificate comparisons, corroboration, the total |
| `Scoring` | scoring runs over `Rules`: evaluation, what is written for whom, the inputs, the checklist |
| `MCScoring` | populations, documents and rule versions for TLC |
| `ScoringProofs` | theorems about `Resolution`, `Rules` and `Scoring` |
| `StaffAccess` | staff accounts, sessions and second factors, driven from the console's forms |
| `MCStaffAccess` | scenarios for TLC |
| `StaffAccessProofs` | theorems about `StaffAccess` |
| `Casework` | submission, import, sign-in links, verification results, decisions, purge |
| `CaseworkProofs` | typing, decisions, links, results and documents, proved |
| `MCCasework` | scenarios for TLC |
| `Reading` | the printed certificate, what OCR may do to it, extraction and comparison |
| `MCReading` | two certificates, and the scores of the similarity libraries, for TLC |
| `Portal` | the applicant's tab over an API that answers late or not at all |
| `MCPortal` | its symmetry for TLC |
| `PortalProofs` | theorems about `Portal` |
| `ConnectionPool` | who holds and who waits for the connections of each process, with the cycles' locks in their sessions |
| `MCConnectionPool` | where its tasks run, for TLC |
| `ConnectionPoolProofs` | theorems about `ConnectionPool` |

`CycleEngine` takes a finding as an opaque record of what was read and asks who may run
when; `Scoring` takes the exclusion as given, one run at a time, and asks what a run
computes and writes. Both take the components by definition, which `Households` shows to
be what the union-find returns. `Casework` is the life of an application between those
two: its `Scored` is one promotion by the engine, its stages are those of `Pipeline`
reduced to what they store. `ConnectionPool` opens up the step by which the engine takes
its lock, and what a transaction waits for before it begins. `Portal` sees the intake as a server that accepts or refuses.

Operators named `... Mutant of X` in comments are plausible bugs of the operator that
follows; each property is shown to fail when the mutant takes the operator's place.

### Pipeline

One step is one database statement, one Redis call or one stage's work.

| state | code |
|---|---|
| `run[d][s]` | the row of `pipeline_stage_runs`: status, attempts, and `stale` for `started_at` being older than `STALE_RUNNING_MS` |
| `job[d]` | the BullMQ job whose id is the document's, its lock owner and its deliveries |
| `enq[d]` | calls of `enqueueDocument` in flight: `look` before the history check, `add` before `queue.add` |
| `worker[w]` | one of a worker process's concurrency slots: `mark`, `claim`, `look`, then `work` / `record` / `retryable` / `permanent` while it holds a claim, `ack` or `nack` on the way out |
| `quiet` | documents untouched for `GRACE_MINUTES`, as the sweep's query sees it |
| `status[d]` | `applications.status`, the decisions folded into `reviewed`; an application has one document and an applicant of its own |
| `email[d]` | the applicant's `email_confirmed_at`: `unconfirmed` or `confirmed`, in between the rescore that the confirmation starts (`rescoring`), and the history `overlooked` of one that died too late |

`Eligible` is the `WHERE` clause of `claim()`; `Claim` and `ClaimRefused` are the two
outcomes of that one statement. `RecordSuccess` and `RecordFailure` write the row by its
id, as the code does, without asking whether the claim is still theirs; `Exhausted` uses
the attempts the slot saw when it claimed. A failing statement in the `try` block counts
as the stage's failure (`DatabaseFault` from `record`), elsewhere it makes the job throw.
`Look` is `currentState()` and `check()`: a stage held elsewhere ends the job without an
error. `Crash` leaves the row `running` and the job active until `Stall`.

The engine scores and promotes none but the applications of confirmed applicants
(`Population`). A first submission from the web is nobody's until the emailed link is used,
so its chain runs to the end, `Work` at the last stage promotes nobody for it, and the status
stays `processing`. `Confirm` is the link's use, at any moment or never; the rescore of the
cycle follows the answer, and promotes (`ConfirmationRescored`) or dies and is logged
(`ConfirmationLost`). A run of the engine that read the cycle before a confirmation may write
after it (`Readings`); the confirmation's own rescore waits for that run's lock. A rescore
that dies before the document's own scoring has begun is made up for by that one; after it,
nothing is left to promote the application but another rescore of the cycle: `overlooked`.

The constant `SlowWorkers` separates two worlds. When it is FALSE a live worker records
its stage before its row goes stale and renews its job lock: what the comment on
`STALE_RUNNING_MS` assumes. When it is TRUE a live worker may outlast both. The first
world is where the safety results hold; `pipeline_late` below is the second.

### CycleEngine

One step is one database statement or transaction. Every application is also the process
of its pipeline; handlers are API requests that change an input and go on to
`rescoreCycle`.

| state | code |
|---|---|
| `status`, `confirmed` | `applications.status`, `applicants.email_confirmed_at`: together the population of `applicationsInCycle` |
| `evidence[a]` | a version number of what the rules read of `a` (certificate fields, forensics, verification status); only equality and order matter |
| `edge[e]` | a row of `household_edges`, keyed by pair and field; the links themselves depend on the form only and are the constant `LinkEdges` |
| `household[a]` | the members of the household row `a` points at, `{}` for NULL or a component of one |
| `flags[a]` | what the stored flags and score of `a` were computed from: which applications, at which version, in the household or across. Two evaluations that read the same write the same, and the model assumes no more |
| `proc[p]` | the run in progress: the population it read, the rejected keys it read, the list to rescore and what is left to write |
| `lock` | the session-level advisory lock; it goes when its connection goes |
| `owed` | history: a request's rescore died and no later request has rescored the cycle |
| `left` | bound: who may still apply, and how many inputs, crashes and failed statements are left |

`Findings` stands for `evaluateRules`: an injective abstraction, so a flag that would be
stale in any way the rules can tell shows as a difference. `Across` holds the pairs that
some rule compares whatever their households. A pipeline that fails is run again, with
the list its reconcile stage recorded, unless the worker died before recording it
(`PipelineFails`); a handler that fails is not (`HandlerFails`). The three reading stages
are one step here, `ReadDocument`: between them nothing of the engine runs on behalf of the
document. Normalised columns are a pure function of the form and are left out.

### Households

One step is one iteration of a loop of `detectComponents`, so that what `find` does to
the trees between two merges is visible.

| state | code |
|---|---|
| `parent`, `size` | the two maps of the union-find |
| `todo` | the linked pairs not merged yet, taken in any order |
| `bucket[a]` | the root `a` was grouped under |
| `pc`, `call`, `start`, `root`, `cursor`, `rootA` | the running `find`, who called it and what it returned first |
| `rejected` | the edges a reviewer rejected: a pair is linked by those that remain |

### Resolution, Rules and Scoring

A similarity is a number of ten-thousandths, so that the weighted sum, the threshold and
the rounding of the shown score are exact. A form is a record of what rules compare:
equality of names, addresses and offices, and numbers where they calculate. A
certificate is which fields could be compared (`read`), which of them differ, the income
read, and what OCR and forensics say of the page; whether two texts agree is an input. A
rule maps an application of a cycle to its findings, a finding to the row.

| state of `Scoring` | code |
|---|---|
| `given`, `trashed`, `rejected`, `cert`, `verdict`, `version` | what an evaluation reads: the population, the rejected edges, the document columns, the latest recorded result, `ACTIVE_RULES_VERSION` |
| `flags[a]` | the rows of `risk_flags`: rule, reason (`cause`), version, weight |
| `score[a]` | `applications.risk_score` |
| `run` | a run in progress: what it evaluated and whom it has yet to write (`todo`, the code's `target`) |
| `changes`, `scored` | history: how many inputs have changed, and how many of them the last complete run had seen |

`Evaluate` is everything up to the loop of `scoreApplicationsLocked`, `Write` one turn of
that loop (one transaction). Any set of applications may be asked for, so the list a
reconcile stored earlier may name trashed ones. `Die` is a crash or a failing statement
between two transactions. Reading is one step: an input that commits between two of a
run's queries is one that the run has not seen, and `scored` is then behind `changes`.
The evidence stored beside a reason is left out: `flagSignature` does not compare it.
`FailsOnChecklist` is the reviewer's checklist, whose rows on the certificate compare it
anew and whose rows on other applications show the stored flags. It has no row for the
population rules, although it calls itself every check (`household/checklist.ts:2`).
Where a reason names the first of several partners the model's names them all, since the
order is that of a query without `ORDER BY`. Status and promotion are `CycleEngine`'s.

### StaffAccess

A browser has one form in flight; its request takes one step per database statement (or
per transaction on one row), so what a handler read can be stale when it writes.

| state | code |
|---|---|
| `account[u]` | the row of `users` with that address: state, role, `deactivated_at`, `session_version`, the invitation, the password by the invitation it was set through, secret, `totp_last_step`, the live list of recovery codes |
| `lock` | the advisory lock `staff-admin-changes` of a deactivation |
| `cookie[b]`, `panel[b]` | the session token and what the console's forms show |
| `req[b]` | the request: handler, next statement, and what it has read (`seen`) |
| `revoked`, `spent`, `clobbered` | history: revocations of an account, uses of a code list, an invitation written over an active account |

A password is right or wrong, a code is the secret and time step it was made of, ten
recovery codes are one. Expiry may strike at any moment. Accounts are keyed by address, as
`ON CONFLICT (email)` keys them: a request about a withdrawn account acts on the row that a
later invitation put there.

### Casework

A request is sent by the step that executes its first statement; a transaction keeps what
it wrote in `req[h]` and its row locks until it commits, and any step may fail instead.

| state | code |
|---|---|
| `address[e]` | the row of `applicants`, by whether `email_confirmed_at` is set |
| `link[n]` | the rows of `magic_link_tokens` |
| `app[p]`, `reviews[p]`, `aged[p]` | the application's status, its reviews, and whether the retention window has passed since the last |
| `document[p]`, `objects`, `keys` | the row of `documents`, the stored objects, the keys given out |
| `results[p]`, `clock` | `verification_results` with their `created_at`, which is that of the transaction's start |
| `req[h]` | what a handler does and has read, the rows it locks |
| `left` | bound: how often each operation may be begun |

### Reading

The page is printed line by line as `db/seed/certificate.ts` prints it, Tesseract then
loses words or the left part of lines (all of it at most), runs words together or reads them
faintly, and `ocr.py` and
`certificate.ts` are applied to what is left. A printed token is a string never taken
apart; the ratios of `difflib` and the trigram similarities are tables in `MCReading`. The
extraction was compared with the Python it models on 3,586 damaged pages and gave the same
report on every one. The declaration and the footer of the page are left out.

### Portal

| state | code |
|---|---|
| `filed`, `proved`, `link` | the server: who has applied, whether the address is confirmed, which links are good |
| `session`, `draft`, `receipt` | the cookie, and `ss_apply_draft` and `ss_apply_receipt` in `sessionStorage` |
| `page` | what the tab shows: the state of the components of one visit |
| `calls` | requests without an answer yet, each with the visit it was made from |
| `since` | the first visit since the last full load, which drops what awaited an answer |

A page left by a link inside the site keeps its requests, and what awaits their answers
runs wherever the tab is by then. `overtaken` and `used` are histories that the properties
need: an earlier page's submission succeeded on this page; this page's request spent a link.

### ConnectionPool

| state | code |
|---|---|
| `owner[k]` | the task that has checked out connection `k` of a process's `pool` |
| `queue[pr]` | the calls of `pool.connect()` that wait in that process, in order |
| `task[t]` | a request or job: a statement or transaction (no cycle), or a run of the engine inside `withCycleLock`, and the statements it may still make |
| `lock[c]` | the connection whose session holds the cycle's advisory lock |

A run waits for a connection to try the lock with (`asks`), tries, and either gives the
connection back and pauses or keeps it and asks for another per statement (`more`,
`nested`). `PoolMoves` is about tasks that wait for a connection; a run that blocked on the
lock itself would keep its connection without asking for one, and is what `LocksComeBack`
would find. Everything else asks once: every helper called inside a transaction is given its
client. A process that dies loses its connections, their locks and its queue.

## 3. What is checked

Passing runs (the types of every module except `Reading` are proved for every value of
the constants; only `portal` checks them again):

| run | question | bounds |
|---|---|---|
| `pipeline` | exclusive claims, visible failures, the job budget, final rows, what the applicant is shown, refinement of `DocumentChain`, that no confirmed applicant waits where the sweep does not look, nor forever unseen | 1 document, its applicant confirmed or not at first, 2 slots, 2 stages, 2 attempts, 1 fault, 1 retry, staff acting meanwhile |
| `engine` | households, edges, flags on both sides of a household's border, monotone findings | 2 applications with two edges, 2 interchangeable requests at once, 2 inputs, 1 crash; or 3 in a chain with the ends compared across, 1 input |
| `engine_live` | runs end, applications reach the queue, also those confirmed late | 2 applications, one by an unconfirmed applicant, 1 request, 1 input, 1 crash |
| `households` | the buckets are the components, every step leaves less to do, the function returns | 4 applications, 6 edges, any rejected, pairs in any order |
| `scoring` | what is stored once a run has seen everything, and what never may be stored | 3 applications, 10 populations, 2 rule versions, 2 changes of the inputs, any number of runs and crashes |
| `staff` | sessions die when revoked, codes and invitations work once, an admin remains | 2 accounts, 2 browsers, 3 scenarios of up to nine requests |
| `reading` | no field takes another row's text but in the one case that `RowsApart` names, an error stays on its line | the applicant's certificate or a relative's, 2 harms |
| `casework` | decisions, verification results, links and purges agree with what is stored | 3 persons at 2 addresses, 3 handlers, 2 files whose rows cross, 5 scenarios |
| `pool` | a pool is never held by its own waiters, a lock dies with its run and comes back | 3 requests and 1 job, 2 processes of 3 connections, 2 cycles, 1 statement per run, any number of runs and crashes |
| `portal` | a refresh keeps the work, no page that used its link is answered a refusal, no button stays disabled | 2 siblings, 4 visits, 1 link asked for, 1 refused or lost request |

Why these are enough: every interaction in the pipeline is about one document and its
row, so a second document only repeats it (scoring's effect on other applications is the
status, which `RescoreCycle` and `Decide` cover); two slots give every race of a claim,
two stages the difference between an inner stage and the last, two attempts the
difference between a failure and a dead letter. In the engine, two requests and two pipelines give a run that waits while
another reads and writes and a third that commits an input in between; two edges on one
pair tell the rejection of one from the rejection of the last; three applications give a
household held together by its middle and a rule that looks across its border. In the
union-find, four applications give two trees of two to merge and a path to compress.

The populations of `scoring` are chosen so that every rule fires: a family with a reused
certificate number and two kinds of documents; a chain of three at one address whose
ends just miss each other, with another document; and a mill, one office with one round
income under the ceiling, whose three serials lie on either side of the span of twelve
in four ways, with and without a household among them. Their two rule versions are the
published v4 and v5 except that two households count as a crowd (`minDistinctHouseholds`
and `minBandCount` are 2, since there are three applications) and that the second scores
error level analysis, so that the branch is taken. Two changes are enough for one input
to undo another (reject and restore, read and analyse, a result and a release) between
any two transactions of a run, and for a run to die on either side of them.

`staff` and `casework` are bounded by scenarios: every behaviour draws on one budget of
requests, and the budgets are chosen by what interferes (invitations with deactivations,
sign-ins with revocations, a second factor in two browsers; intake with links, a link
followed thrice, re-run checks with recorded results, decisions with stages and purge).
Inside a scenario every order of statements and every failure is explored. Three handlers
are one more than any two-party race needs. In `reading`, two harms are what it takes for
the label of one line to be lost and another to look like it; each harm is any word or the
left of a line up to any word of it. In `portal`, a request can outlive two pages and its answer meet a third, and a
second page of the same kind can be opened meanwhile. In `pool`, three requests are as many
as the pool has connections, so that waiters that kept theirs would exhaust it, and two
cycles are the most that `FewCycles` allows three connections.

Fairness. `pipeline`: live processes take their steps, BullMQ detects stalls, the
sweep's timer fires and time passes (weak fairness); a slot that keeps becoming free
eventually takes a job that waits (strong fairness, since the queue is served in order); a
rescore after a confirmation that has not died ends. No applicant is owed to confirm.
`engine_live`: running processes take their steps; a waiter takes the lock once it is
free for good, which polling with a random delay gives. `pool`: a pool serves who waits
while it has a connection, and a task takes its next step once it can. Nothing is assumed
of staff, applicants or faults. Deadlock is checked for
`pool` and `scoring`; elsewhere it is not: with every document through its chain and
the bounds on inputs spent, the system rightly stops.

Violations (each quotes the line it contradicts in `PROJECT.json`, `findings`):

| run | what happens |
|---|---|
| `pipeline_late` | with a worker slower than the stale timeout, the failure of a reclaimed attempt is written over the row with the older attempt count: `failed`, with no attempts left, not claimable and not in the dead-letter list; every sweep re-enqueues it for nothing |
| `scoring_alone` | with the published weights, an application that nearly matches two others has `HOUSEHOLD_FRAGMENTATION` counted twice: 56, over the threshold of 50 that no population rule may reach alone, beside one stored flag of 28 |

What else the models show, where no line of the repository says otherwise:

- `FewCycles` is an assumption about use and not enforced: with as many cycles being scored
  in one process as its pool has connections (ten, `db.ts:20`), every connection is a lock
  and every run waits for a second one, for good. Submissions join
  one cycle (`CURRENT_CYCLE`); others are scored for an import or a review in them.
- With the same slow worker, a late failure turns a recorded success into a failure, and
  the stage is run again (`pipeline/stageRunner.ts:182` against `:29`); a late success
  (`:158`) replaces whatever the row has become, a dead letter included. `TerminalIsFinal`
  is checked and proved without slow workers and says nothing of these.
- A rescore of the cycle promotes an application in mid-chain to the queue; if its job is
  then lost, the sweep, which looks at `submitted` and `processing` only, never finds the
  document, and the rest of the chain never runs (`pipeline/sweeper.ts:40`).
- An applicant who never uses the link leaves an application whose chain is complete in
  `processing`, which the sweep does not look at: the code's purpose, and not shown to staff
  as anything but processing. One who uses it during or after the document's scoring depends
  on one rescore that nobody repeats; if it dies the application waits, in no dead-letter
  list, until something else rescores the cycle (`routes/auth.ts:529-536`,
  `household/service.ts:523`, `pipeline/sweeper.ts:44`). `SweepCovers` and `NothingStuck`
  except just these.
- A trashing that commits and whose rescore dies leaves the flags it caused on others; the
  reviewer's second attempt is answered 409 (`routes/applications.ts:669-672`). This is
  `owed` in `CycleEngine`, and the settled properties except what it touches.
- The index of one application per person covers trashed rows: who is trashed cannot apply
  again in that cycle.
- A stage that loaded a certificate before its purge stores extracted fields after it; the
  purge leaves `ocr_report` and `pipeline_stage_runs.result`. A crash between the removal
  of the object and the mark leaves a row whose signed URL is a 404, for cases settled and
  past the window only (`DocumentsHonest`).
- One lost word makes an honest certificate differ in its number, its income in words or
  its applicant's name, so a difference is a reason to look and not a finding. When the
  issuing office's line is lost, the line "Place:" is read as the office. When the left of
  the masthead is lost, so that it begins with "e-DISTRICT", and the district's own label or
  value cannot be read, its next word "SIMULATED" is read as the district, in the code as in
  the model: the anchor of `_find_label` is meant to keep a weak match on an early line from
  beating an exact one further down, and there is no exact one left. `RowsApart` excepts
  this and nothing else; the run reaches it.
- An invitation written while its address is being activated gives the active account the
  invitation's role (`clobbered`); it never gets another password.
- A submission that was left by a link inside the site and succeeds later clears the draft
  of whoever was typed in meanwhile (`overtaken`), although `ApplyForm.tsx:50` says a
  refresh must not throw work away; edits made while the button is busy go with the draft.
  The exchange's answer moves the tab wherever it is by then.
- A link that signed in while its answer was lost is spent, and `ConsumeLink.tsx:34-50` shows
  "Link not accepted" over it, as for every answer that is not a success; a new link must be
  asked for. The ref guard, which is there so that a second run of the effect does not
  "report a failure over a sign-in that succeeded", does not help there. `SignsInOnce` is
  about answers: the page that used its link up gets none that refuses it.
- Read, not modelled: the queue's status "All" shows awaiting applications only
  (`QueueFilters.tsx:40`) and the first 50; the decision, verification and tips forms stay
  busy when the network fails; a tip without a known reference is stored and listed
  nowhere (`routes/tips.ts:153`), although the form says it reaches a reviewer.

## 4. What is proved

For every number of documents, slots, stages, attempts, faults and retries
(`PipelineProofs`): type correctness, and under the assumption `~SlowWorkers` exclusive
claims, chain order, retryable failures, final rows, the delivery budget and the implementation of
`DocumentChain`. The inductive invariant has three parts beside the type and the
properties themselves: the slot that holds a claim is the one its row counts (`OwnsRow`:
running, not stale, with the slot's attempts), the stages before the one a slot is at
have succeeded (`PrefixDone`), and a failed row that nobody holds has attempts left
(`FailedAttempts`). None of the properties is inductive without the first: that a row can
only be taken from a slot by going stale is what makes the write by row id harmless. The
refinement maps `done` to the succeeded stages and `parked` to the documents with a dead
letter; a success is `Advance`, a dead letter `Park`, a retry `Unpark`, and all other
steps stutter.

That a dead letter is reached before BullMQ gives a job up (`BudgetAlwaysSuffices`) needs
an account of deliveries (`Balanced`): the deliveries of a job in the queue are paid for,
by stages left behind with at most `MaxAttempts - 1` failures each (`Quota`) and by the
attempts its present stage has recorded (`JobCharged`); a slot may be one delivery ahead
of the rows until it has claimed, and gives the delivery back as a recorded attempt
(`Charged`). The account is kept while nothing but stages fails (`Clean` asks for `faults = 0`):
a crash or a failing statement uses a delivery without an attempt, which is why the
property speaks of jobs without faults only. `~SlowWorkers` is needed because a reclaimed
stage is worked on by two deliveries, whose failures count once.

Three theorems need no assumption on slow workers. The stage an applicant is shown never
goes back (`ApplicantsSeeForward`): each step that changes a status moves it forward among
the statuses the page tells apart. No application is left where the sweep does not look once its applicant is confirmed
(`SweepReachesAll`): the sweep wants a document with a stage that has not succeeded, so an
application whose stages all have must have left `submitted` and `processing`. The
invariant follows the last stage: a slot that is to record its success has scored the
application, and if the applicant was confirmed, its status has left the waiting ones and
cannot return to them, because a delivery marks an application that is still `submitted`
only (`FiledInv`, `ScoredInv`). An applicant becomes confirmed with that stage already done
or being done only when the rescore has promoted the application (`ConfirmStep`); if it died
before that stage the stage itself will promote. Who has not confirmed, and who was
`overlooked`, is not covered, as in section 3. And a delivery ends (`SlotsComeHome`): each step of a slot lowers `StepsToGo`, whatever others
do to the ledger, since no path in a delivery leads back to an earlier stage.

For every number of applications, requests, edges, inputs and crashes
(`CycleEngineProofs`): type correctness, that runs exclude each other, that findings
are never replaced by older ones, and the three properties of the settled engine. The
assumption on edges is what the database enforces: `household_edges_canonical_order`
(`db/migrations/008_canonical_household_edges.sql`) allows a row for a pair `a < b` only. The invariant adds that flags were computed from
evidence that exists (`FlagsKnown`), and that what a scoring run has read is at least as
new as any stored flag (`SeenCovers`): at its read because it reads what is current,
afterwards because nobody else writes flags while it holds the lock.

`LockNeverLeft` and `RunsOnlyCountDown` are the safety half of `RunsEnd`: whoever has the
lock is in the middle of a run (`LockIsWorked`; an application not yet submitted has no
process at all, `Unfiled`), and no step of a run that is not a failure, and nothing anyone
else does, gives it more steps to go (`RunsCountDown`). `HouseholdsDisjoint` holds at every
moment and not only when settled: what one run stores never puts an application in two
households, because a set that is closed under the surviving links has a closed complement
(`RestIsClosed`), so that components which meet are one (`OneComponent`).
`ComponentsAgree` says that the component `CycleEngine` takes for granted is the one of
which `Households` shows that the union-find computes it.

`HouseholdsSettle`, `FlagsSettle` and `EdgesKeepTogether` are about moments at which nobody
is running, so they say nothing a step could preserve. Their invariant (`Follow`) says of
every moment who will put things right: either some process has yet to read what it will
write (`At(ToResolve)`, `At(ToScore)`) or a rescore is `owed`; or whoever is writing has
read the cycle as it stands, and if nobody is writing the stored households are the
components and the stored flags the findings (`HouseholdsFollow`, `FlagsFollow`). Half-way through
a run the applications already written are as it evaluated them (`WrittenSoFar`). An input
re-establishes the first alternative, because its own handler has a rescore before it; a run
cannot, by writing, change what it or the next one reads (`ReadsStay`). `EdgesKeepTogether` adds
that a component is closed under the links that are not rejected.

For every population and every order of the merges (`HouseholdsProofs`): type
correctness, that the buckets are the connected components, that a root's size counts its
tree, and that every step towards a root at least doubles the size. The invariant carries
a function `rep` that does not exist in the code, the root each application belongs to:
it is constant along `parent`, fixes roots, and is equal exactly on what the merged pairs
join. Compression changes `parent` and leaves `rep` alone; a union composes it with the
merge of two roots. The components follow without any induction over paths, because the
sets `rep` tells apart are closed.

`FindsEnd` is why `detectComponents` returns, for any population: each step leaves fewer
finds to begin, or as many and fewer steps before the next one (`CountsDown`), both
natural numbers (`LeftIsNatural`). The steps of a find are measured by the sizes on record:
both of its loops go on to an application of which the size is larger, and no size exceeds
the number of applications (`SizesBounded`), which compression, rewriting the chain it
walks, does not change.

For every finite set of applications, every population, every rule version and any number
of changes and crashes (`ScoringProofs`), from the assumptions that incomes and serials are
natural numbers and similarities at most one, that tolerances, spans and counts are natural
numbers (`household/config.ts` validates them), that every version asks
`DEADLINE_PROXIMITY` for corroboration and that the check against the government record is
enabled:

- `ScoresSettle`: once a complete run has seen every change, what is stored is what the
  rules say. The invariant says of a run in progress that its evaluation is that of the
  cycle if nothing changed since (`RunOfCycle`), and that every application not waiting to
  be written is stored as evaluated (`RunStored`): at the start because an equal signature
  means equal rows, later because each write replaces what it finds (`WriteReplaces`).
  Nothing is assumed of what dead runs left behind, except that no rule has two rows.
- `RowsAreOneEach` and `DeadlineNeverAlone` are part of that invariant: they hold of the
  stored rows at every step, because a write replaces an application's rows as a whole and
  an evaluation only reports the date beside a finding about the application itself.
- `ChecklistNeverDisagrees` and `BothSidesAreFlagged` follow from `ScoresSettle` and from
  facts about the operators: what the checklist compares anew fails exactly when its rule
  finds something, what it takes from the stored rows is of the active version once
  settled, the tolerance is symmetric, and being in one household or sharing a name is.
- `SerialRunsAreFlagged`: the sliding window finds exactly the runs. Where each window
  starts is a recursive function (`WindowStarts`), and no induction over it is needed: the
  leftmost serial within the span of each (`Leftmost`) satisfies the same recursion, so the
  function exists, and the first position at which another solution differs would have to
  differ at the one before (`LeastNatural`, from the well-foundedness of the naturals). That a
  sorted list exists is shown by ranks (`SortedExists`). A run of an application ends with
  the last serial its span reaches, and the window that ends there is reported because the
  next serial fits no start as early.
- `LinksNeedTwo`: nobody shares a household with others without matching one of them in
  two fields. No single weight reaches the threshold, and who is joined to nobody is
  closed alone.

For every set of accounts, browsers and scenarios (`StaffAccessProofs`), from the
assumption that a founder exists: type correctness, that an invitation sets a first
password and never another (`InvitationUsedOnce`), that a session is honoured only while
nothing revoked it since its sign-in read the account (`RevokedSessionsRefused`), that a
recovery code is accepted once (`RecoveryCodeSpentOnce`), and that an active admin remains
(`LastAdminKept`). The
first of these needs what a step may do to a row only (`RowsMove`); the others have a
strengthening each: a session version counts the revocations of its account, and a token
carries the version of the moment its sign-in read (`Versions`); a list of codes belongs
to one account and is gone from it once used (`Listed`); a deactivation that has counted
the administrators leaves another one, because whoever counts holds the lock
(`AdminsGuarded`).

For any persons, addresses, spreadsheets, handlers, failures and budgets
(`CaseworkProofs`): type correctness, and the four invariants of `Casework`. Each has a
strengthening that says what a request in flight may rely on until it commits:

- `OneDecisionSettles`: a decision in flight is about an application that is not settled,
  and no other request decides it (`CaseHeld`, `CasesApart`); a submission or an import in
  flight is about nobody who has applied, because two never lock one address.
- `LinksProveAddresses`: a link being followed was not used, and no two requests follow
  the same one (`Fresh`, `LinksApart`).
- `RecordedResultStands`: the stage inserts only what a snapshot without rows allowed, so
  its row is older than every reviewer's row and than every one still being recorded
  (`Timely`, `Precedes`). That a latest row exists is carried along as an invariant, which
  needs no induction over the rows.
- `DocumentsStayHonest`: keys belong to one document or to one upload that is not
  committed, so the purge of an object takes it from no other document (`KeysApart`,
  `UploadsApart`, `Kept`). The proof uses the first one's invariant: an application in a
  purge's batch is settled, and no step takes that back (`Onward`).

For every family and any number of visits, links and lost answers (`PortalProofs`): type
correctness with the disabled button's request, `RefreshesKeepWork` and
`SignInReportedOnce`. The invariant relates the page to the requests it made: requests are
of visits that have been, a page exchanges its link in one request at most, and a page that
has been answered anything but success (`Rejected`) has no request, answered or not, that
used the link (`Once`). A lost answer is no answer, so the page may have used its link then.

For any processes, tasks, statements and any pools with more connections than there are
cycles (`ConnectionPoolProofs`): type correctness, `PoolNeverStuck` and
`LocksHaveSessions`. The invariant says of every task which connections it has at each
point of its work (`TaskOK`): a task that waits for its first has none, a run that waits
for another has one, and that one is its cycle's lock. So if all connections of a pool
were with such waiters they would be the locks of as many cycles (the pigeonhole
principle). Waiting tasks are in one queue once (`QueueOK`), or a task would be served a
connection it no longer waits for. `NobodyLost` is the converse: who waits is in its
process's queue, and who goes on has a connection to go on with, for a statement under a
lock one other than the lock's (`Supplied`). `HoldersOnlyCountDown` is the safety half of
`LocksComeBack`: while a lock stays where it is, its holder keeps the connection and no
step, its own, its pool's or anyone's, gives it more to do (`RunLeft`).

`DeliveriesEnd`, `LockIsWorked`, `RunsCountDown`, `OneHouseholdEach`, `NobodyForgotten` and
`HoldersCountDown` are in no run's configuration, since the theorems say more than a run
would; added to those of `pipeline`, `engine` and `pool`, TLC finds no violation of them on
these instances either.

Only model-checked: liveness (the prover does not do fairness; `NothingStuck`, `RunsEnd`,
`ReachesQueue`, `Returns`, `LocksComeBack`). What is proved of it is the part that fairness
does not give: that work only ever gets less (`DeliveriesEnd`, `RunsCountDown`,
`CountsDown`, `HoldersCountDown`), that whoever is waited for is working
(`LockIsWorked`, `NobodyForgotten`, `PoolMoves`), and that recovery looks where it must
(`SweepCovers`). Also the reading of a certificate (`RowsApart`, `HarmStaysLocal`): whether
another line fits a label better than its own is a fact about the scores of a similarity
library for these words, of which `MCReading` has the tables and a theorem would have no
more than an assumption that says the same.

## 5. Plan

Done: every module above and the proofs listed. What could follow:

1. A purge in `CycleEngine`, which takes a document out of what the rules read without a
   rescore, and the end of a chain whose application a rescore has promoted in mid-chain:
   both are described in section 3 and in no property.
2. The evidence of a flag, stored beside its reason and not compared; tips.

Runs stay within: one safety run per module, a liveness run where something must
eventually happen, and a violation only for a disagreement with the repository's text.

## 6. Not modelled

- In `ConnectionPool`, what statements wait for in the database: whatever holds it has its
  one connection and needs no other. A statement that loses its connection alone, and
  cycles whose keys hash to one lock, are left out.
- Normalisation of addresses and phones, and the trigrams of long strings: inputs of
  `Resolution` and `Rules`. No property here depends on which texts are similar, only on
  what follows once they are; names and certificate fields are compared in `Reading`.
- Image processing and forensics of the OCR service: numerical and stateless, its outcomes
  are in `Pipeline`.
- The staff's queue, dossier and figures, serializers and other read-only projections,
  beyond the stage an applicant is shown (`Pipeline`) and the staff's forms
  (`StaffAccess`). What a form must contain, and the sniffing of an upload's type.
- In `Casework`, the batch limit of the purge, the queue, and what a purge means for stored
  flags: they are dropped by the next rescore of the cycle.
- In `Portal`, the progress display, the declared data and field messages.
- Tips (one insert, one update), mail, the rate limiter (a refused request is an outcome
  of `Portal`), the audit log, health, the seeds (the certificate they print is `Reading`'s
  input), the evaluation harness and scripts: output or offline tools with no state
  another part depends on.
