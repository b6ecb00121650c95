------------------------------ MODULE Casework ------------------------------
(***************************************************************************)
(* An application outside the scoring engine: its submission or import,    *)
(* the links that prove its applicant's address, the verification results  *)
(* and decisions reviewers record, and the purge of its certificate        *)
(* (apps/api/src/routes/applications.ts, admin.ts and auth.ts,             *)
(* pipeline/stages.ts, jobs/retention.ts).                                 *)
(*                                                                         *)
(* A request is sent by the step that executes its first statement; a      *)
(* transaction keeps what it wrote in req until it commits, and holds row  *)
(* locks.  A handler may fail at any of its steps, which rolls its         *)
(* transaction back.  What an applicant declares, the bytes of a           *)
(* certificate, the audit rows, mail and the queue are left out.           *)
(***************************************************************************)
EXTENDS Integers, Sequences, FiniteSets

CONSTANTS
    Persons,   \* one application each: an address, a cycle and a name
    Addresses,
    Email,     \* Email[p]: the address p applies under; siblings share one
    Files,     \* the spreadsheets an admin imports: sequences of persons
    Handlers,  \* requests and workers that run at the same time
    None,
    Budgets    \* bound: how often each operation is begun, one of these functions

Ops == {"submit", "import", "ask", "follow", "check", "record",
        "review", "stage", "retention"}

ASSUME CaseworkAssumption ==
    /\ Email \in [Persons -> Addresses]
    /\ None \notin Persons
    /\ Files \subseteq Seq(Persons)
    /\ Budgets \subseteq [Ops -> Nat]

VARIABLES
    address,   \* address[e]: the row of applicants with e's address
    link,      \* the rows of magic_link_tokens, in the order they were made
    imported,  \* history: the addresses an import made applicants of
    app,       \* app[p]: the status of p's application
    reviews,   \* reviews[p]: its rows of reviews, in the order they committed
    aged,      \* aged[p]: the retention window has passed since the last of them
    document,  \* document[p]: its row of documents
    objects,   \* the keys the object storage holds
    keys,      \* how many storage keys were made so far
    results,   \* results[p]: its rows of verification_results
    clock,     \* the next value of now(); read when a transaction begins
    req,       \* req[h]: what the handler does, and what it has read and written
    left       \* left[op]: how often op may still be begun

people == <<address, link, imported>>
cases  == <<app, reviews, aged>>
files  == <<document, objects, keys>>
checks == <<results, clock>>
vars   == <<address, link, imported, app, reviews, aged, document, objects, keys,
            results, clock, req, left>>

Decisions == {"approve", "escalate", "reject", "trash"}
Settled   == {"approved", "rejected", "trashed"}
Statuses  == {"none", "submitted", "ready_for_review", "escalated"} \cup Settled

NoDocument == [state |-> "none", key |-> 0, fields |-> FALSE, forensics |-> FALSE]

\* rows: what an import has still to insert; mine: the addresses whose rows it locks.
Idle == [op |-> "none", who |-> None, key |-> 0, put |-> FALSE, rows |-> <<>>, mine |-> {},
         new |-> {}, link |-> 0, at |-> 0, missing |-> FALSE, decision |-> "approve",
         kind |-> "fields", batch |-> {}]

\* Row locks: an upserted applicant, a link found FOR UPDATE, an application being decided.
Holds(h, e) == e \in req[h].mine
AddressFree(h, e) == \A g \in Handlers \ {h} : ~Holds(g, e)

\* Mutant of LinkFree: the link is looked up without FOR UPDATE.
LinkUnlocked(n) == TRUE

LinkFree(n) == \A g \in Handlers : ~(req[g].op = "follow" /\ req[g].link = n)

\* Mutant of CaseFree: the application is read without FOR UPDATE.
CaseUnlocked(p) == TRUE

CaseFree(p) == \A g \in Handlers : ~(req[g].op = "review" /\ req[g].who = p)

Init ==
    /\ address = [e \in Addresses |-> "none"]
    /\ link = <<>>
    /\ imported = {}
    /\ app = [p \in Persons |-> "none"]
    /\ reviews = [p \in Persons |-> <<>>]
    /\ aged = [p \in Persons |-> FALSE]
    /\ document = [p \in Persons |-> NoDocument]
    /\ objects = {}
    /\ keys = 0
    /\ results = [p \in Persons |-> {}]
    /\ clock = 1
    /\ req = [h \in Handlers |-> Idle]
    /\ left \in Budgets

Begins(h, op) ==
    /\ req[h].op = "none"
    /\ left[op] > 0
    /\ left' = [left EXCEPT ![op] = @ - 1]

Becomes(h, r) == req' = [req EXCEPT ![h] = r]
Ends(h) == Becomes(h, Idle)

\* The process dies, a statement or the storage throws (the victim of a deadlock
\* between two imports is one case): the transaction, if any, is rolled back.
Fails(h) ==
    /\ req[h].op # "none"
    /\ Ends(h)
    /\ UNCHANGED <<people, cases, files, checks, left>>

-----------------------------------------------------------------------------
(* Submission.                                                              *)

\* The upsert of the applicant locks its row, then applications_one_per_person_idx
\* refuses a second application (409, rolled back).
Submit(h, p) ==
    /\ Begins(h, "submit")
    /\ AddressFree(h, Email[p])
    /\ IF app[p] # "none"
       THEN UNCHANGED req
       ELSE Becomes(h, [Idle EXCEPT !.op = "submit", !.who = p, !.mine = {Email[p]}])
    /\ UNCHANGED <<people, cases, files, checks>>

\* storage.put, under a key of its own, before the row that points at it.
PutCertificate(h) ==
    /\ req[h].op = "submit" /\ ~req[h].put
    /\ keys' = keys + 1
    /\ objects' = objects \cup {keys'}
    /\ Becomes(h, [req[h] EXCEPT !.key = keys', !.put = TRUE])
    /\ UNCHANGED <<people, cases, document, checks, left>>

Link(e) == [email |-> e, used |-> FALSE, expired |-> FALSE, uses |-> 0]

\* Mutant of Applied: a new applicant takes the column's default, confirmed.
AppliedByDefault(old) == IF old = "none" THEN "confirmed" ELSE old

\* An existing applicant is left as it is; a new one is unconfirmed.
Applied(old) == IF old = "none" THEN "unconfirmed" ELSE old

CommitSubmission(h) == LET p == req[h].who  e == Email[p] IN
    /\ req[h].op = "submit" /\ req[h].put
    /\ address' = [address EXCEPT ![e] = Applied(@)]
    /\ link' = IF address[e] = "confirmed" THEN link ELSE Append(link, Link(e))
    /\ app' = [app EXCEPT ![p] = "submitted"]
    /\ document' = [document EXCEPT ![p] = [NoDocument EXCEPT !.state = "kept", !.key = req[h].key]]
    /\ Ends(h)
    /\ UNCHANGED <<imported, reviews, aged, objects, keys, checks, left>>

-----------------------------------------------------------------------------
(* The import of a spreadsheet: every row or none, without certificates.    *)

Import(h, file) ==
    /\ Begins(h, "import")
    /\ Becomes(h, [Idle EXCEPT !.op = "import", !.rows = file])
    /\ UNCHANGED <<people, cases, files, checks>>

\* A row waits for its applicant's lock; a second application throws.
ImportRow(h) == LET p == Head(req[h].rows)  e == Email[p] IN
    /\ req[h].op = "import" /\ req[h].rows # <<>>
    /\ AddressFree(h, e)
    /\ IF app[p] # "none" \/ p \in req[h].new
       THEN Ends(h)
       ELSE Becomes(h, [req[h] EXCEPT !.rows = Tail(@), !.mine = @ \cup {e}, !.new = @ \cup {p}])
    /\ UNCHANGED <<people, cases, files, checks, left>>

\* A new applicant is confirmed by the column's default, an existing one keeps its state.
CommitImport(h) ==
    /\ req[h].op = "import" /\ req[h].rows = <<>>
    /\ address' = [e \in Addresses |->
           IF Holds(h, e) /\ address[e] = "none" THEN "confirmed" ELSE address[e]]
    /\ imported' = imported \cup {e \in Addresses : Holds(h, e) /\ address[e] = "none"}
    /\ app' = [p \in Persons |-> IF p \in req[h].new THEN "submitted" ELSE app[p]]
    /\ Ends(h)
    /\ UNCHANGED <<link, reviews, aged, files, checks, left>>

-----------------------------------------------------------------------------
(* Sign-in links.  A link also confirms the address it was sent to.         *)

RequestLink(h, e) ==
    /\ Begins(h, "ask")
    /\ AddressFree(h, e)
    /\ address' = [address EXCEPT ![e] = Applied(@)]
    /\ link' = Append(link, Link(e))
    /\ UNCHANGED <<imported, cases, files, checks, req>>

LinkExpires(n) ==
    /\ ~link[n].expired
    /\ link' = [link EXCEPT ![n].expired = TRUE]
    /\ UNCHANGED <<address, imported, cases, files, checks, req, left>>

\* SELECT ... FOR UPDATE; a link that is used or expired by then is refused.
FollowLink(h, n) ==
    /\ Begins(h, "follow")
    /\ LinkFree(n)
    /\ IF link[n].used \/ link[n].expired
       THEN UNCHANGED req
       ELSE Becomes(h, [Idle EXCEPT !.op = "follow", !.link = n])
    /\ UNCHANGED <<people, cases, files, checks>>

\* The link is used up and the address confirmed; the session is issued on commit.
UseLink(h) == LET n == req[h].link  e == link[n].email IN
    /\ req[h].op = "follow"
    /\ AddressFree(h, e)
    /\ link' = [link EXCEPT ![n].used = TRUE, ![n].uses = @ + 1]
    /\ address' = [address EXCEPT ![e] = "confirmed"]
    /\ Ends(h)
    /\ UNCHANGED <<imported, cases, files, checks, left>>

-----------------------------------------------------------------------------
(* The pipeline's first three stages, and the score that queues the case.   *)

\* The stored object is read; a missing one fails the stage.
ReadObject(h, p, kind) ==
    /\ document[p].state # "none"
    /\ Begins(h, "stage")
    /\ IF document[p].key \in objects
       THEN Becomes(h, [Idle EXCEPT !.op = "stage", !.who = p, !.kind = kind])
       ELSE UNCHANGED req
    /\ UNCHANGED <<people, cases, files, checks>>

StoreReading(h) == LET p == req[h].who IN
    /\ req[h].op = "stage"
    /\ document' = [document EXCEPT ![p] =
           IF req[h].kind = "fields" THEN [@ EXCEPT !.fields = TRUE]
                                     ELSE [@ EXCEPT !.forensics = TRUE]]
    /\ Ends(h)
    /\ UNCHANGED <<people, cases, objects, keys, checks, left>>

\* Mutant of Missing: a re-run appends its row again.
MissingOrNot(p) == TRUE

Missing(p) == results[p] = {}

\* INSERT ... WHERE NOT EXISTS: what its snapshot saw, and the row it then inserts.
CheckSnapshot(h, p) ==
    /\ document[p].state # "none"
    /\ Begins(h, "check")
    /\ Becomes(h, [Idle EXCEPT !.op = "check", !.who = p, !.at = clock, !.missing = Missing(p)])
    /\ clock' = clock + 1
    /\ UNCHANGED <<people, cases, files, results>>

InsertCheck(h) == LET p == req[h].who IN
    /\ req[h].op = "check"
    /\ results' = IF req[h].missing
                  THEN [results EXCEPT ![p] = @ \cup {[at |-> req[h].at, by |-> "stage"]}]
                  ELSE results
    /\ Ends(h)
    /\ UNCHANGED <<people, cases, files, clock, left>>

\* The engine scores only the applications of confirmed applicants.
Scored(p) ==
    /\ app[p] = "submitted" /\ address[Email[p]] = "confirmed"
    /\ CaseFree(p)
    /\ app' = [app EXCEPT ![p] = "ready_for_review"]
    /\ UNCHANGED <<people, reviews, aged, files, checks, req, left>>

-----------------------------------------------------------------------------
(* What reviewers record.                                                   *)

\* The form is shown once the page has loaded a result; BEGIN fixes created_at.
BeginRecord(h, p) ==
    /\ results[p] # {}
    /\ Begins(h, "record")
    /\ Becomes(h, [Idle EXCEPT !.op = "record", !.who = p, !.at = clock])
    /\ clock' = clock + 1
    /\ UNCHANGED <<people, cases, files, results>>

RecordVerification(h) == LET p == req[h].who IN
    /\ req[h].op = "record"
    /\ results' = IF results[p] = {} THEN results
                  ELSE [results EXCEPT ![p] = @ \cup {[at |-> req[h].at, by |-> "reviewer"]}]
    /\ Ends(h)
    /\ UNCHANGED <<people, cases, files, clock, left>>

\* The row is locked and its status read.  The page may show it as it was long ago.
LockCase(h, p, d) ==
    /\ app[p] # "none"
    /\ Begins(h, "review")
    /\ CaseFree(p)
    /\ IF app[p] \in Settled
       THEN UNCHANGED req
       ELSE Becomes(h, [Idle EXCEPT !.op = "review", !.who = p, !.decision = d])
    /\ UNCHANGED <<people, cases, files, checks>>

NextStatus(d) == CASE d = "approve" -> "approved"
                   [] d = "reject"  -> "rejected"
                   [] d = "trash"   -> "trashed"
                   [] OTHER         -> "escalated"

Decide(h) == LET p == req[h].who  d == req[h].decision IN
    /\ req[h].op = "review"
    /\ reviews' = [reviews EXCEPT ![p] = Append(@, d)]
    /\ app' = [app EXCEPT ![p] = NextStatus(d)]
    /\ aged' = [aged EXCEPT ![p] = FALSE]
    /\ Ends(h)
    /\ UNCHANGED <<people, files, checks, left>>

-----------------------------------------------------------------------------
(* Retention.                                                               *)

\* DOCUMENT_RETENTION_DAYS have passed since the last review.
Age(p) ==
    /\ reviews[p] # <<>> /\ ~aged[p]
    /\ aged' = [aged EXCEPT ![p] = TRUE]
    /\ UNCHANGED <<people, app, reviews, files, checks, req, left>>

\* Mutant of Purgeable: any application last reviewed long ago.
PurgeableByAge(p) == document[p].state = "kept" /\ aged[p]

Purgeable(p) == document[p].state = "kept" /\ app[p] \in Settled /\ aged[p]

SelectPurgeable(h) ==
    /\ Begins(h, "retention")
    /\ \E p \in Persons : Purgeable(p)
    /\ Becomes(h, [Idle EXCEPT !.op = "retention", !.batch = {p \in Persons : Purgeable(p)}])
    /\ UNCHANGED <<people, cases, files, checks>>

\* storage.remove succeeds, also for a key that is gone; or it refuses, and the
\* document is left to a later run.
RemoveObject(h, p) ==
    /\ req[h].op = "retention" /\ req[h].who = None
    /\ p \in req[h].batch
    /\ \/ /\ objects' = objects \ {document[p].key}
          /\ Becomes(h, [req[h] EXCEPT !.who = p])
       \/ /\ Becomes(h, [req[h] EXCEPT !.batch = @ \ {p}])
          /\ UNCHANGED objects
    /\ UNCHANGED <<people, cases, document, keys, checks, left>>

MarkPurged(h) == LET p == req[h].who IN
    /\ req[h].op = "retention" /\ p # None
    /\ document' = [document EXCEPT ![p] = [@ EXCEPT !.state = "purged", !.fields = FALSE,
                                                     !.forensics = FALSE]]
    /\ Becomes(h, [req[h] EXCEPT !.who = None, !.batch = @ \ {p}])
    /\ UNCHANGED <<people, cases, objects, keys, checks, left>>

RetentionEnds(h) ==
    /\ req[h].op = "retention" /\ req[h].batch = {}
    /\ Ends(h)
    /\ UNCHANGED <<people, cases, files, checks, left>>

-----------------------------------------------------------------------------
Intake(h) == \/ PutCertificate(h) \/ CommitSubmission(h)
             \/ ImportRow(h) \/ CommitImport(h) \/ UseLink(h)
             \/ \E p \in Persons : Submit(h, p)
             \/ \E file \in Files : Import(h, file)
             \/ \E e \in Addresses : RequestLink(h, e)
             \/ \E n \in DOMAIN link : FollowLink(h, n)

Stages(h) == \/ StoreReading(h) \/ InsertCheck(h)
             \/ \E p \in Persons : \/ CheckSnapshot(h, p)
                                   \/ \E k \in {"fields", "forensics"} : ReadObject(h, p, k)

Reviewing(h) == \/ RecordVerification(h) \/ Decide(h)
                \/ \E p \in Persons : \/ BeginRecord(h, p)
                                      \/ \E d \in Decisions : LockCase(h, p, d)

Retention(h) == \/ SelectPurgeable(h) \/ MarkPurged(h) \/ RetentionEnds(h)
                \/ \E p \in Persons : RemoveObject(h, p)

Next == \/ \E h \in Handlers : Intake(h) \/ Stages(h) \/ Reviewing(h) \/ Retention(h) \/ Fails(h)
        \/ \E n \in DOMAIN link : LinkExpires(n)
        \/ \E p \in Persons : Scored(p) \/ Age(p)

Spec == Init /\ [][Next]_vars

-----------------------------------------------------------------------------
(* Properties.                                                              *)

\* Every variable stays within its domain.
TypeOK ==
    /\ address \in [Addresses -> {"none", "unconfirmed", "confirmed"}]
    /\ link \in Seq([email : Addresses, used : BOOLEAN, expired : BOOLEAN, uses : Nat])
    /\ imported \subseteq Addresses
    /\ app \in [Persons -> Statuses]
    /\ reviews \in [Persons -> Seq(Decisions)]
    /\ aged \in [Persons -> BOOLEAN]
    /\ document \in [Persons -> [state : {"none", "kept", "purged"}, key : Nat,
                                 fields : BOOLEAN, forensics : BOOLEAN]]
    /\ objects \subseteq Nat
    /\ keys \in Nat
    /\ results \in [Persons -> SUBSET [at : Nat, by : {"stage", "reviewer"}]]
    /\ clock \in Nat
    /\ req \in [Handlers -> [op : Ops \cup {"none"}, who : Persons \cup {None}, key : Nat,
                             put : BOOLEAN, rows : Seq(Persons), mine : SUBSET Addresses,
                             new : SUBSET Persons, link : Nat, at : Nat, missing : BOOLEAN,
                             decision : Decisions, kind : {"fields", "forensics"},
                             batch : SUBSET Persons]]
    /\ left \in [Ops -> Nat]

\* However many reviewers decide at once, an application is settled by one decision
\* and nothing is recorded after it; its status is what the last decision made it
\* (POST /applications/:id/review).
DecisionsAgree ==
    \A p \in Persons : LET n == Len(reviews[p]) IN
        /\ \A i \in 1..(n - 1) : NextStatus(reviews[p][i]) \notin Settled
        /\ IF n = 0 THEN app[p] \in {"none", "submitted", "ready_for_review"}
                    ELSE app[p] = NextStatus(reviews[p][n])

\* Once a reviewer has recorded what the portal said, the latest row by created_at,
\* the one the page and the rules read, is a reviewer's: no re-run of the
\* verification stage, however late, hides it.
VerificationStands ==
    \A p \in Persons :
        (\E r \in results[p] : r.by = "reviewer") =>
            \E r \in results[p] : /\ r.by = "reviewer"
                                  /\ \A s \in results[p] : s.at <= r.at

\* A link signs in once, however often it is followed at the same time; and an
\* address is confirmed only if it was imported as new or one of its links was used.
LinksProve ==
    /\ \A n \in DOMAIN link : link[n].uses <= 1
    /\ \A e \in Addresses : address[e] = "confirmed" =>
           e \in imported \/ \E n \in DOMAIN link : link[n].email = e /\ link[n].uses > 0

\* A document said to be purged is gone from the storage and its application is
\* settled; until the window after the decision has passed its object is there,
\* whatever fails or dies in between.
DocumentsHonest ==
    \A p \in Persons :
        /\ document[p].state = "purged" => /\ document[p].key \notin objects
                                           /\ app[p] \in Settled
        /\ document[p].state = "kept" /\ ~(app[p] \in Settled /\ aged[p]) =>
               document[p].key \in objects
=============================================================================
