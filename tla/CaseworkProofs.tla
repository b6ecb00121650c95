--------------------------- MODULE CaseworkProofs ---------------------------
(***************************************************************************)
(* What holds of Casework for any persons, addresses, files, handlers and  *)
(* budgets.  TInv is the type invariant with whom a request in flight is   *)
(* about; each safety invariant has a strengthening of its own below,      *)
(* which says of every request what its locks keep true until it commits.  *)
(***************************************************************************)
EXTENDS Casework, TLAPS

LinkRows == [email : Addresses, used : BOOLEAN, expired : BOOLEAN, uses : Nat]
DocumentRows == [state : {"none", "kept", "purged"}, key : Nat,
                 fields : BOOLEAN, forensics : BOOLEAN]
ResultRows == [at : Nat, by : {"stage", "reviewer"}]
Requests == [op : Ops \cup {"none"}, who : Persons \cup {None}, key : Nat,
             put : BOOLEAN, rows : Seq(Persons), mine : SUBSET Addresses,
             new : SUBSET Persons, link : Nat, at : Nat, missing : BOOLEAN,
             decision : Decisions, kind : {"fields", "forensics"},
             batch : SUBSET Persons]

\* The variables but req keep their types.
StateTyped ==
    /\ address \in [Addresses -> {"none", "unconfirmed", "confirmed"}]
    /\ link \in Seq(LinkRows)
    /\ imported \subseteq Addresses
    /\ app \in [Persons -> Statuses]
    /\ reviews \in [Persons -> Seq(Decisions)]
    /\ aged \in [Persons -> BOOLEAN]
    /\ document \in [Persons -> DocumentRows]
    /\ objects \subseteq Nat
    /\ keys \in Nat
    /\ results \in [Persons -> SUBSET ResultRows]
    /\ clock \in Nat
    /\ left \in [Ops -> Nat]

\* A request about a person or a link has one.
Names(r) ==
    /\ r.op \in {"submit", "stage", "check", "record", "review"} => r.who \in Persons
    /\ r.op = "follow" => r.link \in DOMAIN link

TInv == StateTyped /\ req \in [Handlers -> Requests] /\ \A h \in Handlers : Names(req[h])

LEMMA TypesImplied == TInv => TypeOK
BY DEF TInv, StateTyped, TypeOK, LinkRows, DocumentRows, ResultRows, Requests

-----------------------------------------------------------------------------
(* The shapes of the steps: what each does to the requests, and when.       *)

\* h's request becomes r, and all others stay.
Moves(h, r) == req' = [req EXCEPT ![h] = r]

\* A handler takes up person p's case and holds nothing yet.
Opens(h, op, p) ==
    \E r \in Requests : /\ Moves(h, r) /\ r.op = op /\ r.who = p
                        /\ r.mine = {} /\ r.new = {} /\ r.batch = {}

LEMMA IdleTyped ==
    /\ Idle \in Requests /\ Idle.op = "none" /\ Idle.mine = {} /\ Idle.new = {}
    /\ Idle.batch = {} /\ Idle.who = None /\ ~Idle.put /\ ~Idle.missing /\ Idle.rows = <<>>
BY DEF Idle, Requests, Decisions

LEMMA Moved ==
    ASSUME req \in [Handlers -> Requests], NEW h \in Handlers, NEW r \in Requests, Moves(h, r)
    PROVE  /\ req' \in [Handlers -> Requests] /\ req'[h] = r
           /\ \A g \in Handlers : g # h => req'[g] = req[g]
BY DEF Moves

LEMMA LeftTyped ==
    ASSUME StateTyped, NEW h \in Handlers, NEW op \in Ops, Begins(h, op)
    PROVE  left' \in [Ops -> Nat]
<1>1. left \in [Ops -> Nat] /\ left[op] > 0 /\ left' = [left EXCEPT ![op] = @ - 1]
  BY DEF Begins, StateTyped
<1>2. ASSUME NEW o \in Ops
      PROVE  left'[o] \in Nat
  BY <1>1
<1>3. QED
  BY <1>1, <1>2

\* Everything but req and left.
State == <<people, cases, files, checks>>

LEMMA SubmitShape ==
    ASSUME NEW h, NEW p \in Persons, Submit(h, p), CaseworkAssumption
    PROVE  /\ UNCHANGED State /\ Begins(h, "submit") /\ req[h].op = "none"
           /\ \/ req' = req
              \/ \E r \in Requests :
                    /\ Moves(h, r) /\ r.op = "submit" /\ r.who = p /\ r.mine = {Email[p]}
                    /\ ~r.put /\ r.new = {} /\ r.batch = {}
                    /\ app[p] = "none" /\ AddressFree(h, Email[p])
<1> DEFINE m == {Email[p]}
           r == [Idle EXCEPT !.op = "submit", !.who = p, !.mine = m]
<1>1. m \subseteq Addresses
  BY DEF CaseworkAssumption
<1>2. req' = req \/ (app[p] = "none" /\ Moves(h, r))
  BY DEF Submit, Becomes, Moves
<1> HIDE DEF m
<1>3. /\ r \in Requests /\ r.op = "submit" /\ r.who = p /\ r.mine = m /\ ~r.put
      /\ r.new = {} /\ r.batch = {}
  BY <1>1, IdleTyped DEF Idle, Requests, Ops
<1> HIDE DEF r
<1>4. UNCHANGED State /\ Begins(h, "submit") /\ req[h].op = "none" /\ AddressFree(h, Email[p])
  BY DEF Submit, State, Begins
<1>5. QED
  BY <1>2, <1>3, <1>4 DEF m

LEMMA PutShape ==
    ASSUME TInv, NEW h \in Handlers, PutCertificate(h)
    PROVE  /\ UNCHANGED <<people, cases, document, checks, left>>
           /\ keys' = keys + 1 /\ objects' = objects \cup {keys'}
           /\ req[h].op = "submit" /\ ~req[h].put
           /\ \E r \in Requests :
                 /\ Moves(h, r) /\ r.op = "submit" /\ r.who = req[h].who
                 /\ r.mine = req[h].mine /\ r.new = req[h].new
                 /\ r.put /\ r.key = keys' /\ r.batch = req[h].batch
<1> DEFINE k == keys'
           r == [req[h] EXCEPT !.key = k, !.put = TRUE]
<1>1. req[h] \in Requests /\ k \in Nat
  BY DEF TInv, StateTyped, PutCertificate
<1>2. Moves(h, r)
  BY DEF PutCertificate, Becomes, Moves
<1>3. req[h].op = "submit" /\ ~req[h].put
  BY DEF PutCertificate
<1> HIDE DEF k
<1>4. /\ r \in Requests /\ r.op = "submit" /\ r.who = req[h].who /\ r.mine = req[h].mine
      /\ r.new = req[h].new /\ r.put /\ r.key = k /\ r.batch = req[h].batch
  BY <1>1, <1>3 DEF Requests
<1> HIDE DEF r
<1>5. UNCHANGED <<people, cases, document, checks, left>> /\ k = keys + 1 /\ objects' = objects \cup {k}
  BY DEF PutCertificate, k
<1>6. QED
  BY <1>2, <1>3, <1>4, <1>5 DEF k

LEMMA ImportShape ==
    ASSUME NEW h, NEW file \in Files, Import(h, file), CaseworkAssumption
    PROVE  /\ UNCHANGED State /\ Begins(h, "import") /\ req[h].op = "none"
           /\ \E r \in Requests :
                 /\ Moves(h, r) /\ r.op = "import" /\ r.mine = {} /\ r.new = {} /\ r.batch = {}
<1> DEFINE r == [Idle EXCEPT !.op = "import", !.rows = file]
<1>1. Moves(h, r)
  BY DEF Import, Becomes, Moves
<1>2. file \in Seq(Persons)
  BY DEF CaseworkAssumption
<1>3. r \in Requests /\ r.op = "import" /\ r.mine = {} /\ r.new = {} /\ r.batch = {}
  BY <1>2, IdleTyped DEF Idle, Requests, Ops
<1> HIDE DEF r
<1>4. QED
  BY <1>1, <1>3 DEF Import, State, Begins

LEMMA ImportRowShape ==
    ASSUME TInv, NEW h \in Handlers, ImportRow(h), CaseworkAssumption
    PROVE  /\ UNCHANGED <<State, left>> /\ req[h].op = "import"
           /\ \/ Moves(h, Idle)
              \/ \E p \in Persons, r \in Requests :
                    /\ Moves(h, r) /\ r.op = "import" /\ r.batch = req[h].batch
                    /\ r.mine = req[h].mine \cup {Email[p]} /\ r.new = req[h].new \cup {p}
                    /\ app[p] = "none" /\ AddressFree(h, Email[p])
<1> DEFINE p == Head(req[h].rows)
           t == Tail(req[h].rows)
           m == req[h].mine \cup {Email[p]}
           n == req[h].new \cup {p}
           r == [req[h] EXCEPT !.rows = t, !.mine = m, !.new = n]
<1>1. req[h] \in Requests /\ req[h].op = "import"
  BY DEF TInv, ImportRow
<1>2. req[h].rows \in Seq(Persons) /\ req[h].rows # <<>>
  BY <1>1 DEF Requests, ImportRow
<1>3. p \in Persons /\ t \in Seq(Persons)
  BY <1>2
<1>4. Email[p] \in Addresses
  BY <1>3 DEF CaseworkAssumption
<1>5. m \subseteq Addresses /\ n \subseteq Persons
  BY <1>1, <1>3, <1>4 DEF Requests
<1>6. UNCHANGED <<State, left>> /\ AddressFree(h, Email[p])
  BY DEF ImportRow, State
<1>7. Moves(h, Idle) \/ (Moves(h, r) /\ app[p] = "none")
  <2>1. Moves(h, r) <=> Becomes(h, [req[h] EXCEPT !.rows = Tail(@), !.mine = @ \cup {Email[p]},
                                                  !.new = @ \cup {p}])
    BY DEF Becomes, Moves
  <2>2. QED
    BY <2>1 DEF ImportRow, Ends, Becomes, Moves
<1> HIDE DEF p, t, m, n
<1>8. /\ r \in Requests /\ r.op = "import" /\ r.mine = m /\ r.new = n
      /\ r.batch = req[h].batch
  BY <1>1, <1>3, <1>5 DEF Requests
<1> HIDE DEF r
<1>9. QED
  BY <1>1, <1>3, <1>6, <1>7, <1>8 DEF m, n

LEMMA FollowShape ==
    ASSUME TInv, NEW h, NEW n \in DOMAIN link, FollowLink(h, n)
    PROVE  /\ UNCHANGED State /\ Begins(h, "follow") /\ req[h].op = "none"
           /\ \/ req' = req
              \/ \E r \in Requests :
                    /\ Moves(h, r) /\ r.op = "follow" /\ r.link = n
                    /\ r.mine = {} /\ r.new = {} /\ r.batch = {}
                    /\ ~link[n].used /\ LinkFree(n)
<1> DEFINE r == [Idle EXCEPT !.op = "follow", !.link = n]
<1>1. req' = req \/ (Moves(h, r) /\ ~link[n].used)
  BY DEF FollowLink, Becomes, Moves
<1>2. n \in Nat
  BY DEF TInv, StateTyped
<1>3. r \in Requests /\ r.op = "follow" /\ r.link = n /\ r.mine = {} /\ r.new = {} /\ r.batch = {}
  BY <1>2, IdleTyped DEF Idle, Requests, Ops
<1> HIDE DEF r
<1>4. QED
  BY <1>1, <1>3 DEF FollowLink, State, Begins

LEMMA ReadObjectShape ==
    ASSUME NEW h, NEW p \in Persons, NEW k \in {"fields", "forensics"}, ReadObject(h, p, k)
    PROVE  /\ UNCHANGED State /\ Begins(h, "stage") /\ req[h].op = "none"
           /\ req' = req \/ Opens(h, "stage", p)
<1> DEFINE r == [Idle EXCEPT !.op = "stage", !.who = p, !.kind = k]
<1>1. req' = req \/ Moves(h, r)
  BY DEF ReadObject, Becomes, Moves
<1>2. r \in Requests /\ r.op = "stage" /\ r.who = p /\ r.mine = {} /\ r.new = {} /\ r.batch = {}
  BY IdleTyped DEF Idle, Requests, Ops
<1> HIDE DEF r
<1>3. QED
  BY <1>1, <1>2 DEF ReadObject, State, Begins, Opens

LEMMA CheckShape ==
    ASSUME TInv, NEW h, NEW p \in Persons, CheckSnapshot(h, p)
    PROVE  /\ UNCHANGED <<people, cases, files, results>> /\ clock' = clock + 1
           /\ Begins(h, "check") /\ req[h].op = "none"
           /\ \E r \in Requests :
                 /\ Moves(h, r) /\ r.op = "check" /\ r.who = p /\ r.at = clock
                 /\ r.missing => results[p] = {}
                 /\ r.mine = {} /\ r.new = {} /\ r.batch = {}
<1> DEFINE m == Missing(p)
           r == [Idle EXCEPT !.op = "check", !.who = p, !.at = clock, !.missing = m]
<1>1. Moves(h, r)
  BY DEF CheckSnapshot, Becomes, Moves
<1>2. m \in BOOLEAN /\ (m => results[p] = {}) /\ clock \in Nat
  BY DEF Missing, TInv, StateTyped
<1> HIDE DEF m
<1>3. /\ r \in Requests /\ r.op = "check" /\ r.who = p /\ r.at = clock /\ r.missing = m
      /\ r.mine = {} /\ r.new = {} /\ r.batch = {}
  BY <1>2, IdleTyped DEF Idle, Requests, Ops
<1> HIDE DEF r
<1>4. QED
  BY <1>1, <1>2, <1>3 DEF CheckSnapshot, Begins

LEMMA RecordShape ==
    ASSUME TInv, NEW h, NEW p \in Persons, BeginRecord(h, p)
    PROVE  /\ UNCHANGED <<people, cases, files, results>> /\ clock' = clock + 1
           /\ Begins(h, "record") /\ req[h].op = "none" /\ results[p] # {}
           /\ \E r \in Requests :
                 /\ Moves(h, r) /\ r.op = "record" /\ r.who = p /\ r.at = clock
                 /\ r.mine = {} /\ r.new = {} /\ r.batch = {}
<1> DEFINE r == [Idle EXCEPT !.op = "record", !.who = p, !.at = clock]
<1>1. Moves(h, r)
  BY DEF BeginRecord, Becomes, Moves
<1>2. clock \in Nat
  BY DEF TInv, StateTyped
<1>3. /\ r \in Requests /\ r.op = "record" /\ r.who = p /\ r.at = clock
      /\ r.mine = {} /\ r.new = {} /\ r.batch = {}
  BY <1>2, IdleTyped DEF Idle, Requests, Ops
<1> HIDE DEF r
<1>4. QED
  BY <1>1, <1>3 DEF BeginRecord, Begins

LEMMA LockCaseShape ==
    ASSUME NEW h, NEW p \in Persons, NEW d \in Decisions, LockCase(h, p, d)
    PROVE  /\ UNCHANGED State /\ Begins(h, "review") /\ req[h].op = "none"
           /\ app[p] # "none" /\ CaseFree(p)
           /\ req' # req => app[p] \notin Settled
BY DEF LockCase, State, Begins

LEMMA LockCaseMoves ==
    ASSUME NEW h, NEW p \in Persons, NEW d \in Decisions, LockCase(h, p, d)
    PROVE  req' = req \/ Opens(h, "review", p)
<1> DEFINE r == [Idle EXCEPT !.op = "review", !.who = p, !.decision = d]
<1>1. req' = req \/ Moves(h, r)
  BY DEF LockCase, Becomes, Moves
<1>2. r \in Requests /\ r.op = "review" /\ r.who = p /\ r.mine = {} /\ r.new = {} /\ r.batch = {}
  BY IdleTyped DEF Idle, Requests, Ops
<1> HIDE DEF r
<1>3. QED
  BY <1>1, <1>2 DEF Opens

LEMMA SelectShape ==
    ASSUME NEW h, SelectPurgeable(h)
    PROVE  /\ UNCHANGED State /\ Begins(h, "retention") /\ req[h].op = "none"
           /\ \E r \in Requests :
                 /\ Moves(h, r) /\ r.op = "retention" /\ r.who = None
                 /\ r.batch \subseteq {p \in Persons : Purgeable(p)}
                 /\ r.mine = {} /\ r.new = {}
<1> DEFINE s == {p \in Persons : Purgeable(p)}
           r == [Idle EXCEPT !.op = "retention", !.batch = s]
<1>1. Moves(h, r)
  BY DEF SelectPurgeable, Becomes, Moves
<1>2. s \subseteq Persons
  OBVIOUS
<1> HIDE DEF s
<1>3. /\ r \in Requests /\ r.op = "retention" /\ r.who = None /\ r.batch = s
      /\ r.mine = {} /\ r.new = {}
  BY <1>2, IdleTyped DEF Idle, Requests, Ops
<1> HIDE DEF r
<1>4. QED
  BY <1>1, <1>3 DEF SelectPurgeable, State, Begins, s

LEMMA RemoveShape ==
    ASSUME TInv, NEW h \in Handlers, NEW p \in Persons, RemoveObject(h, p)
    PROVE  /\ UNCHANGED <<people, cases, document, keys, checks, left>>
           /\ req[h].op = "retention" /\ req[h].who = None /\ p \in req[h].batch
           /\ \E r \in Requests :
                 /\ Moves(h, r) /\ r.op = "retention" /\ r.mine = req[h].mine
                 /\ r.new = req[h].new /\ r.batch \subseteq req[h].batch
                 /\ \/ /\ objects' = objects \ {document[p].key}
                       /\ r.who = p /\ r.batch = req[h].batch
                    \/ objects' = objects /\ r.who = None
<1>1. req[h] \in Requests /\ req[h].op = "retention" /\ req[h].who = None /\ p \in req[h].batch
  BY DEF TInv, RemoveObject
<1>2. UNCHANGED <<people, cases, document, keys, checks, left>>
  BY DEF RemoveObject
<1>3. CASE objects' = objects \ {document[p].key} /\ Becomes(h, [req[h] EXCEPT !.who = p])
  <2> DEFINE r == [req[h] EXCEPT !.who = p]
  <2>1. Moves(h, r)
    BY <1>3 DEF Becomes, Moves
  <2>2. /\ r \in Requests /\ r.op = "retention" /\ r.mine = req[h].mine
        /\ r.new = req[h].new /\ r.batch = req[h].batch /\ r.who = p
    BY <1>1 DEF Requests
  <2> HIDE DEF r
  <2>3. QED
    BY <1>1, <1>2, <1>3, <2>1, <2>2
<1>4. CASE Becomes(h, [req[h] EXCEPT !.batch = @ \ {p}]) /\ objects' = objects
  <2> DEFINE b == req[h].batch \ {p}
             r == [req[h] EXCEPT !.batch = b]
  <2>1. Moves(h, r)
    BY <1>4 DEF Becomes, Moves
  <2>2. b \subseteq req[h].batch /\ b \subseteq Persons
    BY <1>1 DEF Requests
  <2> HIDE DEF b
  <2>3. /\ r \in Requests /\ r.op = "retention" /\ r.mine = req[h].mine
        /\ r.new = req[h].new /\ r.batch = b /\ r.who = None
    BY <1>1, <2>2 DEF Requests
  <2> HIDE DEF r
  <2>4. QED
    BY <1>1, <1>2, <1>4, <2>1, <2>2, <2>3
<1>5. QED
  BY <1>3, <1>4 DEF RemoveObject

LEMMA MarkShape ==
    ASSUME TInv, NEW h \in Handlers, MarkPurged(h)
    PROVE  /\ UNCHANGED <<people, cases, objects, keys, checks, left>>
           /\ req[h].op = "retention" /\ req[h].who \in Persons
           /\ \E row \in DocumentRows :
                 /\ document' = [document EXCEPT ![req[h].who] = row]
                 /\ row.state = "purged" /\ row.key = document[req[h].who].key
           /\ \E r \in Requests :
                 /\ Moves(h, r) /\ r.op = "retention" /\ r.mine = req[h].mine
                 /\ r.new = req[h].new /\ r.batch \subseteq req[h].batch /\ r.who = None
<1> DEFINE p == req[h].who
           b == req[h].batch \ {p}
           r == [req[h] EXCEPT !.who = None, !.batch = b]
           row == [document[p] EXCEPT !.state = "purged", !.fields = FALSE, !.forensics = FALSE]
<1>1. req[h] \in Requests /\ req[h].op = "retention" /\ p # None
  BY DEF TInv, MarkPurged
<1>2. p \in Persons /\ b \subseteq req[h].batch /\ b \subseteq Persons
  BY <1>1 DEF Requests
<1>3. document[p] \in DocumentRows
  BY <1>2 DEF TInv, StateTyped
<1>4. UNCHANGED <<people, cases, objects, keys, checks, left>> /\ Moves(h, r)
      /\ document' = [document EXCEPT ![p] = row]
  BY DEF MarkPurged, Becomes, Moves
<1>5. row \in DocumentRows /\ row.state = "purged" /\ row.key = document[p].key
  BY <1>3 DEF DocumentRows
<1> HIDE DEF b
<1>6. /\ r \in Requests /\ r.op = "retention" /\ r.mine = req[h].mine
      /\ r.new = req[h].new /\ r.batch = b /\ r.who = None
  BY <1>1, <1>2 DEF Requests
<1> HIDE DEF r, row
<1>7. QED
  BY <1>1, <1>2, <1>4, <1>5, <1>6

\* What the commit of a submission and the first stages write of a document.
LEMMA CommitShape ==
    ASSUME TInv, NEW h \in Handlers, CommitSubmission(h)
    PROVE  /\ req[h].op = "submit" /\ req[h].put /\ req[h].who \in Persons /\ Moves(h, Idle)
           /\ UNCHANGED <<imported, reviews, aged, objects, keys, checks, left>>
           /\ app' = [app EXCEPT ![req[h].who] = "submitted"]
           /\ \E row \in DocumentRows :
                 /\ document' = [document EXCEPT ![req[h].who] = row]
                 /\ row.state = "kept" /\ row.key = req[h].key
<1> DEFINE k == req[h].key
           row == [NoDocument EXCEPT !.state = "kept", !.key = k]
<1>1. req[h] \in Requests /\ req[h].op = "submit" /\ req[h].put /\ Moves(h, Idle)
  BY DEF TInv, CommitSubmission, Ends, Becomes, Moves
<1>2. req[h].who \in Persons /\ k \in Nat
  BY <1>1 DEF TInv, Names, Requests
<1>3. /\ UNCHANGED <<imported, reviews, aged, objects, keys, checks, left>>
      /\ app' = [app EXCEPT ![req[h].who] = "submitted"]
      /\ document' = [document EXCEPT ![req[h].who] = row]
  BY DEF CommitSubmission
<1> HIDE DEF k
<1>4. row \in DocumentRows /\ row.state = "kept" /\ row.key = k
  BY <1>2 DEF NoDocument, DocumentRows
<1> HIDE DEF row
<1>5. QED
  BY <1>1, <1>2, <1>3, <1>4 DEF k

LEMMA StoreShape ==
    ASSUME TInv, NEW h \in Handlers, StoreReading(h)
    PROVE  /\ UNCHANGED <<people, cases, objects, keys, checks, left>>
           /\ req[h].op = "stage" /\ req[h].who \in Persons /\ Moves(h, Idle)
           /\ \E row \in DocumentRows :
                 /\ document' = [document EXCEPT ![req[h].who] = row]
                 /\ row.state = document[req[h].who].state
                 /\ row.key = document[req[h].who].key
<1> DEFINE p == req[h].who
           fields == [document[p] EXCEPT !.fields = TRUE]
           forensics == [document[p] EXCEPT !.forensics = TRUE]
<1>1. req[h].op = "stage" /\ p \in Persons
  BY DEF TInv, StoreReading, Names
<1>2. document[p] \in DocumentRows
  BY <1>1 DEF TInv, StateTyped
<1>3. \/ document' = [document EXCEPT ![p] = fields]
      \/ document' = [document EXCEPT ![p] = forensics]
  <2>1. CASE req[h].kind = "fields"
    BY <2>1 DEF StoreReading
  <2>2. CASE req[h].kind # "fields"
    BY <2>2 DEF StoreReading
  <2>3. QED
    BY <2>1, <2>2
<1>4. \A row \in {fields, forensics} :
          row \in DocumentRows /\ row.state = document[p].state /\ row.key = document[p].key
  BY <1>2 DEF DocumentRows
<1>5. UNCHANGED <<people, cases, objects, keys, checks, left>> /\ Moves(h, Idle)
  BY DEF StoreReading, Ends, Becomes, Moves
<1> HIDE DEF fields, forensics
<1>6. QED
  BY <1>1, <1>3, <1>4, <1>5

\* The rows of links: one is added, or one changes.
LEMMA LinkAppended ==
    ASSUME link \in Seq(LinkRows), NEW e \in Addresses, link' = Append(link, Link(e))
    PROVE  /\ link' \in Seq(LinkRows)
           /\ DOMAIN link \subseteq DOMAIN link'
           /\ \A n \in DOMAIN link : link'[n] = link[n]
           /\ \A n \in DOMAIN link' : n \in DOMAIN link \/ (~link'[n].used /\ link'[n].uses = 0)
<1>1. Link(e) \in LinkRows /\ ~Link(e).used /\ Link(e).uses = 0
  BY DEF Link, LinkRows
<1>2. /\ Len(link) \in Nat /\ link' \in Seq(LinkRows) /\ Len(link') = Len(link) + 1
      /\ DOMAIN link = 1..Len(link) /\ DOMAIN link' = 1..(Len(link) + 1)
      /\ \A n \in 1..Len(link) : link'[n] = link[n]
      /\ link'[Len(link) + 1] = Link(e)
  BY <1>1
<1>3. QED
  BY <1>1, <1>2

LEMMA LinkChanged ==
    ASSUME link \in Seq(LinkRows), NEW n \in DOMAIN link, NEW row \in LinkRows,
           link' = [link EXCEPT ![n] = row]
    PROVE  /\ link' \in Seq(LinkRows) /\ DOMAIN link' = DOMAIN link /\ link'[n] = row
           /\ \A m \in DOMAIN link : m # n => link'[m] = link[m]
<1>1. Len(link) \in Nat /\ link \in [1..Len(link) -> LinkRows]
  OBVIOUS
<1>2. link' \in [1..Len(link) -> LinkRows]
  BY <1>1
<1>3. link' \in Seq(LinkRows)
  BY <1>1, <1>2
<1>4. QED
  BY <1>1, <1>2, <1>3

LEMMA ExpiryShape ==
    ASSUME TInv, NEW n \in DOMAIN link, LinkExpires(n)
    PROVE  /\ UNCHANGED <<address, imported, cases, files, checks, req, left>>
           /\ \E row \in LinkRows :
                 /\ link' = [link EXCEPT ![n] = row]
                 /\ row.email = link[n].email /\ row.used = link[n].used
                 /\ row.uses = link[n].uses
<1> DEFINE row == [link[n] EXCEPT !.expired = TRUE]
<1>1. link[n] \in LinkRows
  BY DEF TInv, StateTyped
<1>2. link' = [link EXCEPT ![n] = row]
  BY DEF LinkExpires
<1>3. /\ row \in LinkRows /\ row.email = link[n].email /\ row.used = link[n].used
      /\ row.uses = link[n].uses
  BY <1>1 DEF LinkRows
<1> HIDE DEF row
<1>4. QED
  BY <1>2, <1>3 DEF LinkExpires

LEMMA UseShape ==
    ASSUME TInv, NEW h \in Handlers, UseLink(h)
    PROVE  /\ UNCHANGED <<imported, cases, files, checks, left>>
           /\ req[h].op = "follow" /\ req[h].link \in DOMAIN link /\ Moves(h, Idle)
           /\ address' = [address EXCEPT ![link[req[h].link].email] = "confirmed"]
           /\ link[req[h].link].email \in Addresses
           /\ \E row \in LinkRows :
                 /\ link' = [link EXCEPT ![req[h].link] = row]
                 /\ row.email = link[req[h].link].email /\ row.used
                 /\ row.uses = link[req[h].link].uses + 1
<1> DEFINE n == req[h].link
           u == link[n].uses + 1
           row == [link[n] EXCEPT !.used = TRUE, !.uses = u]
<1>1. req[h].op = "follow" /\ n \in DOMAIN link
  BY DEF TInv, UseLink, Names
<1>2. link[n] \in LinkRows
  BY <1>1 DEF TInv, StateTyped
<1>3. u \in Nat
  BY <1>2 DEF LinkRows
<1>4. link' = [link EXCEPT ![n] = row]
  BY <1>1, <1>2 DEF UseLink
<1> HIDE DEF u
<1>5. row \in LinkRows /\ row.email = link[n].email /\ row.used /\ row.uses = u
  BY <1>2, <1>3 DEF LinkRows
<1> HIDE DEF row
<1>6. link[n].email \in Addresses
  BY <1>2 DEF LinkRows
<1>7. /\ UNCHANGED <<imported, cases, files, checks, left>> /\ Moves(h, Idle)
      /\ address' = [address EXCEPT ![link[n].email] = "confirmed"]
  BY DEF UseLink, Ends, Becomes, Moves
<1>8. QED
  BY <1>1, <1>4, <1>5, <1>6, <1>7 DEF u

\* What the verification stage and a reviewer add to the results of a person.
LEMMA ResultShape ==
    ASSUME TInv, NEW h \in Handlers, InsertCheck(h) \/ RecordVerification(h)
    PROVE  /\ UNCHANGED <<people, cases, files, clock, left>> /\ Moves(h, Idle)
           /\ req[h].who \in Persons /\ req[h].at \in Nat
           /\ \/ results' = results
              \/ \E row \in ResultRows :
                    /\ results' = [results EXCEPT ![req[h].who] = @ \cup {row}]
                    /\ row.at = req[h].at
                    /\ \/ req[h].op = "check" /\ req[h].missing /\ row.by = "stage"
                       \/ req[h].op = "record" /\ row.by = "reviewer"
<1>1. req[h] \in Requests /\ Names(req[h]) /\ req[h].op \in {"check", "record"}
  BY DEF TInv, InsertCheck, RecordVerification
<1>2. req[h].who \in Persons /\ req[h].at \in Nat
  BY <1>1 DEF Names, Requests
<1>3. /\ UNCHANGED <<people, cases, files, clock, left>> /\ Moves(h, Idle)
  BY DEF InsertCheck, RecordVerification, Ends, Becomes, Moves
<1>4. \A b \in {"stage", "reviewer"} : [at |-> req[h].at, by |-> b] \in ResultRows
  BY <1>2 DEF ResultRows
<1>5. CASE InsertCheck(h)
  BY <1>2, <1>3, <1>4, <1>5 DEF InsertCheck
<1>6. CASE RecordVerification(h)
  BY <1>2, <1>3, <1>4, <1>6 DEF RecordVerification
<1>7. QED
  BY <1>5, <1>6

LEMMA ResultsTyped ==
    ASSUME TInv, NEW h \in Handlers, InsertCheck(h) \/ RecordVerification(h)
    PROVE  results' \in [Persons -> SUBSET ResultRows]
<1>1. results \in [Persons -> SUBSET ResultRows] /\ req[h].who \in Persons
  BY ResultShape DEF TInv, StateTyped
<1>2. CASE results' = results
  BY <1>1, <1>2
<1>3. ASSUME NEW row \in ResultRows, results' = [results EXCEPT ![req[h].who] = @ \cup {row}]
      PROVE  results' \in [Persons -> SUBSET ResultRows]
  BY <1>1, <1>3
<1>4. QED
  BY <1>2, <1>3, ResultShape

-----------------------------------------------------------------------------
(* Type correctness.                                                        *)

LEMMA MoveTyped ==
    ASSUME TInv, StateTyped', DOMAIN link \subseteq DOMAIN link',
           NEW h \in Handlers, NEW r \in Requests, Names(r), Moves(h, r)
    PROVE  TInv'
<1>1. /\ req' \in [Handlers -> Requests] /\ req'[h] = r
      /\ \A g \in Handlers : g # h => req'[g] = req[g]
  BY Moved DEF TInv
<1>2. ASSUME NEW g \in Handlers
      PROVE  Names(req[g])' /\ Names(req'[g])
  BY <1>1 DEF TInv, Names
<1>3. \A g \in Handlers : Names(req[g])'
  BY <1>1, <1>2 DEF TInv, Names
<1>4. QED
  BY <1>1, <1>3 DEF TInv

LEMMA StayTyped ==
    ASSUME TInv, StateTyped', DOMAIN link \subseteq DOMAIN link', req' = req
    PROVE  TInv'
BY DEF TInv, Names

LEMMA IdleNames == Names(Idle)
BY IdleTyped DEF Names, Ops

\* A step that begins a request, and one that leaves all but the requests alone.
LEMMA BeginTyped ==
    ASSUME TInv, UNCHANGED <<people, cases, files, results>>, clock' \in Nat,
           NEW h \in Handlers, NEW op \in Ops, Begins(h, op)
    PROVE  StateTyped' /\ link' = link
BY LeftTyped DEF TInv, StateTyped, people, cases, files

LEMMA RestTyped ==
    ASSUME TInv, UNCHANGED <<State, left>>
    PROVE  StateTyped' /\ link' = link
BY DEF TInv, StateTyped, State, people, cases, files, checks

LEMMA DecisionsSettle ==
    ASSUME NEW d \in Decisions
    PROVE  NextStatus(d) \in Statuses \ {"none", "submitted", "ready_for_review"}
BY DEF Decisions, NextStatus, Statuses, Settled

LEMMA IntakeTyped ==
    ASSUME TInv, CaseworkAssumption, NEW h \in Handlers, Intake(h)
    PROVE  TInv'
<1>1. ASSUME NEW p \in Persons, Submit(h, p)
      PROVE  TInv'
  <2>1. UNCHANGED State /\ Begins(h, "submit")
    BY <1>1, SubmitShape
  <2>2. StateTyped' /\ link' = link
    BY <2>1, BeginTyped DEF State, checks, Ops, TInv, StateTyped
  <2>3. CASE req' = req
    BY <2>2, <2>3, StayTyped
  <2>4. CASE req' # req
    <3>1. PICK r \in Requests : Moves(h, r) /\ r.op = "submit" /\ r.who = p
      BY <1>1, <2>4, SubmitShape
    <3>2. Names(r)
      BY <3>1 DEF Names
    <3>3. QED
      BY <2>2, <3>1, <3>2, MoveTyped
  <2>5. QED
    BY <2>3, <2>4
<1>2. CASE PutCertificate(h)
  <2>1. UNCHANGED <<people, cases, document, checks, left>> /\ keys' = keys + 1
        /\ objects' = objects \cup {keys'} /\ req[h].op = "submit"
    BY <1>2, PutShape
  <2>2. StateTyped' /\ link' = link
    BY <2>1 DEF TInv, StateTyped, people, cases, checks
  <2>3. PICK r \in Requests : Moves(h, r) /\ r.op = "submit" /\ r.who = req[h].who
    BY <1>2, PutShape
  <2>4. Names(r)
    BY <2>1, <2>3 DEF Names, TInv
  <2>5. QED
    BY <2>2, <2>3, <2>4, MoveTyped
<1>3. CASE CommitSubmission(h)
  <2>1. PICK row \in DocumentRows : document' = [document EXCEPT ![req[h].who] = row]
    BY <1>3, CommitShape
  <2>2. /\ req[h].who \in Persons /\ Moves(h, Idle)
        /\ UNCHANGED <<imported, reviews, aged, objects, keys, checks, left>>
        /\ app' = [app EXCEPT ![req[h].who] = "submitted"]
    BY <1>3, CommitShape
  <2>3. Email[req[h].who] \in Addresses
    BY <2>2 DEF CaseworkAssumption
  <2>4. address' \in [Addresses -> {"none", "unconfirmed", "confirmed"}]
    BY <1>3, <2>3 DEF CommitSubmission, Applied, TInv, StateTyped
  <2>5. link' \in Seq(LinkRows) /\ DOMAIN link \subseteq DOMAIN link'
    <3>1. link' = link \/ link' = Append(link, Link(Email[req[h].who]))
      BY <1>3 DEF CommitSubmission
    <3>2. QED
      BY <2>3, <3>1, LinkAppended DEF TInv, StateTyped
  <2>6. StateTyped'
    BY <2>1, <2>2, <2>4, <2>5 DEF TInv, StateTyped, Statuses, checks
  <2>7. QED
    BY <2>2, <2>5, <2>6, MoveTyped, IdleTyped, IdleNames
<1>4. ASSUME NEW file \in Files, Import(h, file)
      PROVE  TInv'
  <2>1. UNCHANGED State /\ Begins(h, "import")
    BY <1>4, ImportShape
  <2>2. StateTyped' /\ link' = link
    BY <2>1, BeginTyped DEF State, checks, Ops, TInv, StateTyped
  <2>3. PICK r \in Requests : Moves(h, r) /\ r.op = "import"
    BY <1>4, ImportShape
  <2>4. Names(r)
    BY <2>3 DEF Names
  <2>5. QED
    BY <2>2, <2>3, <2>4, MoveTyped
<1>5. CASE ImportRow(h)
  <2>1. StateTyped' /\ link' = link
    BY <1>5, ImportRowShape, RestTyped
  <2>2. CASE Moves(h, Idle)
    BY <2>1, <2>2, MoveTyped, IdleTyped, IdleNames
  <2>3. ASSUME NEW r \in Requests, Moves(h, r), r.op = "import"
        PROVE  TInv'
    <3>1. Names(r)
      BY <2>3 DEF Names
    <3>2. QED
      BY <2>1, <2>3, <3>1, MoveTyped
  <2>4. QED
    BY <1>5, <2>2, <2>3, ImportRowShape
<1>6. CASE CommitImport(h)
  <2>1. Moves(h, Idle) /\ UNCHANGED <<link, reviews, aged, files, checks, left>>
    BY <1>6 DEF CommitImport, Ends, Becomes, Moves
  <2>2. address' \in [Addresses -> {"none", "unconfirmed", "confirmed"}]
    BY <1>6 DEF CommitImport, TInv, StateTyped
  <2>3. app' \in [Persons -> Statuses]
    BY <1>6 DEF CommitImport, TInv, StateTyped, Statuses
  <2>4. imported' \subseteq Addresses
    BY <1>6 DEF CommitImport, TInv, StateTyped
  <2>5. StateTyped'
    BY <2>1, <2>2, <2>3, <2>4 DEF TInv, StateTyped, files, checks
  <2>6. QED
    BY <2>1, <2>5, MoveTyped, IdleTyped, IdleNames
<1>7. ASSUME NEW e \in Addresses, RequestLink(h, e)
      PROVE  TInv'
  <2>1. /\ Begins(h, "ask") /\ UNCHANGED <<imported, cases, files, checks, req>>
        /\ address' = [address EXCEPT ![e] = Applied(@)] /\ link' = Append(link, Link(e))
    BY <1>7 DEF RequestLink
  <2>2. address' \in [Addresses -> {"none", "unconfirmed", "confirmed"}]
    BY <2>1 DEF Applied, TInv, StateTyped
  <2>3. link' \in Seq(LinkRows) /\ DOMAIN link \subseteq DOMAIN link'
    BY <2>1, LinkAppended DEF TInv, StateTyped
  <2>4. left' \in [Ops -> Nat]
    BY <2>1, LeftTyped DEF TInv, Ops
  <2>5. StateTyped'
    BY <2>1, <2>2, <2>3, <2>4 DEF TInv, StateTyped, cases, files, checks
  <2>6. QED
    BY <2>1, <2>3, <2>5, StayTyped
<1>8. ASSUME NEW n \in DOMAIN link, FollowLink(h, n)
      PROVE  TInv'
  <2>1. UNCHANGED State /\ Begins(h, "follow")
    BY <1>8, FollowShape
  <2>2. StateTyped' /\ link' = link
    BY <2>1, BeginTyped DEF State, checks, Ops, TInv, StateTyped
  <2>3. CASE req' = req
    BY <2>2, <2>3, StayTyped
  <2>4. CASE req' # req
    <3>1. PICK r \in Requests : Moves(h, r) /\ r.op = "follow" /\ r.link = n
      BY <1>8, <2>4, FollowShape
    <3>2. Names(r)
      BY <3>1 DEF Names
    <3>3. QED
      BY <2>2, <3>1, <3>2, MoveTyped
  <2>5. QED
    BY <2>3, <2>4
<1>9. CASE UseLink(h)
  <2>1. PICK row \in LinkRows : link' = [link EXCEPT ![req[h].link] = row]
    BY <1>9, UseShape
  <2>2. /\ UNCHANGED <<imported, cases, files, checks, left>> /\ Moves(h, Idle)
        /\ req[h].link \in DOMAIN link
        /\ address' = [address EXCEPT ![link[req[h].link].email] = "confirmed"]
    BY <1>9, UseShape
  <2>3. link' \in Seq(LinkRows) /\ DOMAIN link' = DOMAIN link
    BY <2>1, <2>2, LinkChanged DEF TInv, StateTyped
  <2>4. StateTyped'
    BY <2>2, <2>3 DEF TInv, StateTyped, cases, files, checks
  <2>5. QED
    BY <2>2, <2>3, <2>4, MoveTyped, IdleTyped, IdleNames
<1>10. QED
  BY <1>1, <1>2, <1>3, <1>4, <1>5, <1>6, <1>7, <1>8, <1>9 DEF Intake

LEMMA StagesTyped ==
    ASSUME TInv, NEW h \in Handlers, Stages(h)
    PROVE  TInv'
<1>1. CASE StoreReading(h)
  <2>1. PICK row \in DocumentRows : document' = [document EXCEPT ![req[h].who] = row]
    BY <1>1, StoreShape
  <2>2. UNCHANGED <<people, cases, objects, keys, checks, left>> /\ Moves(h, Idle)
    BY <1>1, StoreShape
  <2>3. StateTyped' /\ link' = link
    BY <2>1, <2>2 DEF TInv, StateTyped, people, cases, checks
  <2>4. QED
    BY <2>2, <2>3, MoveTyped, IdleTyped, IdleNames
<1>2. CASE InsertCheck(h)
  <2>1. /\ UNCHANGED <<people, cases, files, clock, left>> /\ Moves(h, Idle)
        /\ results' \in [Persons -> SUBSET ResultRows]
    BY <1>2, ResultShape, ResultsTyped
  <2>2. StateTyped' /\ link' = link
    BY <2>1 DEF TInv, StateTyped, people, cases, files
  <2>3. QED
    BY <2>1, <2>2, MoveTyped, IdleTyped, IdleNames
<1>3. ASSUME NEW p \in Persons, CheckSnapshot(h, p)
      PROVE  TInv'
  <2>1. /\ UNCHANGED <<people, cases, files, results>> /\ clock' = clock + 1
        /\ Begins(h, "check")
    BY <1>3, CheckShape
  <2>2. StateTyped' /\ link' = link
    <3>1. clock' \in Nat /\ "check" \in Ops
      BY <2>1 DEF TInv, StateTyped, Ops
    <3>2. QED
      BY <2>1, <3>1, BeginTyped
  <2>3. PICK r \in Requests : Moves(h, r) /\ r.op = "check" /\ r.who = p
    BY <1>3, CheckShape
  <2>4. Names(r)
    BY <2>3 DEF Names
  <2>5. QED
    BY <2>2, <2>3, <2>4, MoveTyped
<1>4. ASSUME NEW p \in Persons, NEW k \in {"fields", "forensics"}, ReadObject(h, p, k)
      PROVE  TInv'
  <2>1. UNCHANGED State /\ Begins(h, "stage")
    BY <1>4, ReadObjectShape
  <2>2. StateTyped' /\ link' = link
    BY <2>1, BeginTyped DEF State, checks, Ops, TInv, StateTyped
  <2>3. CASE req' = req
    BY <2>2, <2>3, StayTyped
  <2>4. CASE req' # req
    <3>1. PICK r \in Requests : Moves(h, r) /\ r.op = "stage" /\ r.who = p
      <4>1. Opens(h, "stage", p)
        BY <1>4, <2>4, ReadObjectShape
      <4>2. QED
        BY <4>1 DEF Opens
    <3>2. Names(r)
      BY <3>1 DEF Names
    <3>3. QED
      BY <2>2, <3>1, <3>2, MoveTyped
  <2>5. QED
    BY <2>3, <2>4
<1>5. QED
  BY <1>1, <1>2, <1>3, <1>4 DEF Stages

LEMMA ReviewingTyped ==
    ASSUME TInv, NEW h \in Handlers, Reviewing(h)
    PROVE  TInv'
<1>1. CASE RecordVerification(h)
  <2>1. /\ UNCHANGED <<people, cases, files, clock, left>> /\ Moves(h, Idle)
        /\ results' \in [Persons -> SUBSET ResultRows]
    BY <1>1, ResultShape, ResultsTyped
  <2>2. StateTyped' /\ link' = link
    BY <2>1 DEF TInv, StateTyped, people, cases, files
  <2>3. QED
    BY <2>1, <2>2, MoveTyped, IdleTyped, IdleNames
<1>2. CASE Decide(h)
  <2>1. /\ UNCHANGED <<people, files, checks, left>> /\ Moves(h, Idle)
        /\ reviews' = [reviews EXCEPT ![req[h].who] = Append(@, req[h].decision)]
        /\ app' = [app EXCEPT ![req[h].who] = NextStatus(req[h].decision)]
        /\ aged' = [aged EXCEPT ![req[h].who] = FALSE]
    BY <1>2 DEF Decide, Ends, Becomes, Moves
  <2>2. req[h].who \in Persons /\ req[h].decision \in Decisions
    BY <1>2 DEF Decide, TInv, Names, Requests
  <2>3. NextStatus(req[h].decision) \in Statuses
    BY <2>2, DecisionsSettle
  <2>4. Append(reviews[req[h].who], req[h].decision) \in Seq(Decisions)
    BY <2>2 DEF TInv, StateTyped
  <2>5. StateTyped' /\ link' = link
    BY <2>1, <2>2, <2>3, <2>4 DEF TInv, StateTyped, people, files, checks
  <2>6. QED
    BY <2>1, <2>5, MoveTyped, IdleTyped, IdleNames
<1>3. ASSUME NEW p \in Persons, BeginRecord(h, p)
      PROVE  TInv'
  <2>1. /\ UNCHANGED <<people, cases, files, results>> /\ clock' = clock + 1
        /\ Begins(h, "record")
    BY <1>3, RecordShape
  <2>2. StateTyped' /\ link' = link
    <3>1. clock' \in Nat /\ "record" \in Ops
      BY <2>1 DEF TInv, StateTyped, Ops
    <3>2. QED
      BY <2>1, <3>1, BeginTyped
  <2>3. PICK r \in Requests : Moves(h, r) /\ r.op = "record" /\ r.who = p
    BY <1>3, RecordShape
  <2>4. Names(r)
    BY <2>3 DEF Names
  <2>5. QED
    BY <2>2, <2>3, <2>4, MoveTyped
<1>4. ASSUME NEW p \in Persons, NEW d \in Decisions, LockCase(h, p, d)
      PROVE  TInv'
  <2>1. UNCHANGED State /\ Begins(h, "review")
    BY <1>4, LockCaseShape
  <2>2. StateTyped' /\ link' = link
    BY <2>1, BeginTyped DEF State, checks, Ops, TInv, StateTyped
  <2>3. CASE req' = req
    BY <2>2, <2>3, StayTyped
  <2>4. CASE req' # req
    <3>1. PICK r \in Requests : Moves(h, r) /\ r.op = "review" /\ r.who = p
      <4>1. Opens(h, "review", p)
        BY <1>4, <2>4, LockCaseMoves
      <4>2. QED
        BY <4>1 DEF Opens
    <3>2. Names(r)
      BY <3>1 DEF Names
    <3>3. QED
      BY <2>2, <3>1, <3>2, MoveTyped
  <2>5. QED
    BY <2>3, <2>4
<1>5. QED
  BY <1>1, <1>2, <1>3, <1>4 DEF Reviewing

LEMMA RetentionTyped ==
    ASSUME TInv, NEW h \in Handlers, Retention(h)
    PROVE  TInv'
<1>1. CASE SelectPurgeable(h)
  <2>1. UNCHANGED State /\ Begins(h, "retention")
    BY <1>1, SelectShape
  <2>2. StateTyped' /\ link' = link
    BY <2>1, BeginTyped DEF State, checks, Ops, TInv, StateTyped
  <2>3. PICK r \in Requests : Moves(h, r) /\ r.op = "retention"
    BY <1>1, SelectShape
  <2>4. Names(r)
    BY <2>3 DEF Names
  <2>5. QED
    BY <2>2, <2>3, <2>4, MoveTyped
<1>2. CASE MarkPurged(h)
  <2>1. PICK row \in DocumentRows : document' = [document EXCEPT ![req[h].who] = row]
    BY <1>2, MarkShape
  <2>2. UNCHANGED <<people, cases, objects, keys, checks, left>> /\ req[h].op = "retention"
    BY <1>2, MarkShape
  <2>3. PICK r \in Requests : Moves(h, r) /\ r.op = "retention"
    BY <1>2, MarkShape
  <2>4. StateTyped' /\ link' = link
    BY <2>1, <2>2 DEF TInv, StateTyped, people, cases, checks
  <2>5. Names(r)
    BY <2>3 DEF Names
  <2>6. QED
    BY <2>3, <2>4, <2>5, MoveTyped
<1>3. CASE RetentionEnds(h)
  <2>1. UNCHANGED <<State, left>> /\ Moves(h, Idle)
    BY <1>3 DEF RetentionEnds, Ends, Becomes, Moves, State
  <2>2. QED
    BY <2>1, RestTyped, MoveTyped, IdleTyped, IdleNames
<1>4. ASSUME NEW p \in Persons, RemoveObject(h, p)
      PROVE  TInv'
  <2>1. UNCHANGED <<people, cases, document, keys, checks, left>>
    BY <1>4, RemoveShape
  <2>2. PICK r \in Requests :
            Moves(h, r) /\ r.op = "retention" /\ objects' \subseteq objects
    BY <1>4, RemoveShape
  <2>3. StateTyped' /\ link' = link
    BY <2>1, <2>2 DEF TInv, StateTyped, people, cases, checks
  <2>4. Names(r)
    BY <2>2 DEF Names
  <2>5. QED
    BY <2>2, <2>3, <2>4, MoveTyped
<1>5. QED
  BY <1>1, <1>2, <1>3, <1>4 DEF Retention

LEMMA NextTyped ==
    ASSUME TInv, CaseworkAssumption, [Next]_vars
    PROVE  TInv'
<1>1. ASSUME NEW h \in Handlers, Fails(h)
      PROVE  TInv'
  <2>1. UNCHANGED <<State, left>> /\ Moves(h, Idle)
    BY <1>1 DEF Fails, Ends, Becomes, Moves, State
  <2>2. QED
    BY <2>1, RestTyped, MoveTyped, IdleTyped, IdleNames
<1>2. ASSUME NEW n \in DOMAIN link, LinkExpires(n)
      PROVE  TInv'
  <2>1. PICK row \in LinkRows : link' = [link EXCEPT ![n] = row]
    BY <1>2, ExpiryShape
  <2>2. UNCHANGED <<address, imported, cases, files, checks, req, left>>
    BY <1>2, ExpiryShape
  <2>3. link' \in Seq(LinkRows) /\ DOMAIN link' = DOMAIN link
    BY <2>1, LinkChanged DEF TInv, StateTyped
  <2>4. StateTyped'
    BY <2>2, <2>3 DEF TInv, StateTyped, cases, files, checks
  <2>5. QED
    BY <2>2, <2>3, <2>4, StayTyped
<1>3. ASSUME NEW p \in Persons, Scored(p) \/ Age(p)
      PROVE  TInv'
  <2>1. /\ UNCHANGED <<people, reviews, files, checks, req, left>>
        /\ app' \in [Persons -> Statuses] /\ aged' \in [Persons -> BOOLEAN]
    BY <1>3 DEF Scored, Age, Statuses, TInv, StateTyped
  <2>2. StateTyped' /\ link' = link
    BY <2>1 DEF TInv, StateTyped, people, files, checks
  <2>3. QED
    BY <2>1, <2>2, StayTyped
<1>4. CASE UNCHANGED vars
  BY <1>4, StayTyped DEF vars, TInv, StateTyped
<1>5. QED
  BY <1>1, <1>2, <1>3, <1>4, IntakeTyped, StagesTyped, ReviewingTyped, RetentionTyped DEF Next

LEMMA InitTyped ==
    ASSUME Init, CaseworkAssumption
    PROVE  TInv
<1>1. NoDocument \in DocumentRows
  BY DEF NoDocument, DocumentRows
<1>2. link \in Seq(LinkRows)
  BY DEF Init
<1>3. reviews \in [Persons -> Seq(Decisions)]
  BY DEF Init
<1>4. left \in [Ops -> Nat]
  BY DEF Init, CaseworkAssumption
<1>5. StateTyped
  BY <1>1, <1>2, <1>3, <1>4 DEF Init, StateTyped, Statuses
<1>6. QED
  BY <1>5, IdleTyped, IdleNames DEF Init, TInv

LEMMA TypeInvariant == Spec => []TInv
<1>1. Init => TInv
  BY InitTyped, CaseworkAssumption
<1>2. TInv /\ [Next]_vars => TInv'
  BY NextTyped, CaseworkAssumption
<1>3. QED
  BY <1>1, <1>2, PTL DEF Spec

\* Every variable keeps to its domain, whatever fails or is rolled back.
THEOREM TypeCorrect == Spec => []TypeOK
BY TypeInvariant, TypesImplied, PTL

-----------------------------------------------------------------------------
(* Decisions.                                                               *)

\* One decision settles a person's application, and its status is the last one's.
Consistent(p) == LET n == Len(reviews[p]) IN
    /\ \A i \in 1..(n - 1) : NextStatus(reviews[p][i]) \notin Settled
    /\ IF n = 0 THEN app[p] \in {"none", "submitted", "ready_for_review"}
                ELSE app[p] = NextStatus(reviews[p][n])

\* What stays true of applications while a request is under way.
CaseHeld(r) ==
    /\ r.mine # {} => r.op \in {"submit", "import"}
    /\ r.op = "submit" => app[r.who] = "none" /\ Email[r.who] \in r.mine
    /\ r.op = "import" => \A p \in r.new : app[p] = "none" /\ Email[p] \in r.mine
    /\ r.op = "review" => app[r.who] # "none" /\ app[r.who] \notin Settled
    /\ r.op = "retention" => \A p \in r.batch : app[p] \in Settled /\ aged[p]

\* Two requests lock different applicants, and decide different applications.
CasesApart(r, s) ==
    /\ r.mine \cap s.mine = {}
    /\ r.op = "review" /\ s.op = "review" => r.who # s.who

CInv ==
    /\ \A p \in Persons : Consistent(p)
    /\ \A h \in Handlers : CaseHeld(req[h])
    /\ \A g, h \in Handlers : g # h => CasesApart(req[g], req[h])

\* Nothing was decided of what was never applied for.
LEMMA Unreviewed ==
    ASSUME TInv, CInv, NEW p \in Persons, app[p] = "none"
    PROVE  Len(reviews[p]) = 0
<1>1. SUFFICES ASSUME Len(reviews[p]) # 0 PROVE FALSE
  OBVIOUS
<1>2. reviews[p] \in Seq(Decisions) /\ Len(reviews[p]) \in Nat
  BY DEF TInv, StateTyped
<1>3. reviews[p][Len(reviews[p])] \in Decisions
  BY <1>1, <1>2
<1>4. app[p] = NextStatus(reviews[p][Len(reviews[p])])
  BY <1>1 DEF CInv, Consistent
<1>5. QED
  BY <1>3, <1>4, DecisionsSettle

LEMMA CasesMoved ==
    ASSUME TInv, CInv, NEW h \in Handlers, NEW r \in Requests, Moves(h, r),
           \A p \in Persons : Consistent(p)', CaseHeld(r)',
           \A g \in Handlers : g # h => CaseHeld(req[g])',
           \A g \in Handlers : g # h => CasesApart(r, req[g])
    PROVE  CInv'
<1>1. /\ req' \in [Handlers -> Requests] /\ req'[h] = r
      /\ \A g \in Handlers : g # h => req'[g] = req[g]
  BY Moved DEF TInv
<1>2. \A g \in Handlers : CaseHeld(req[g])'
  <2>1. CaseHeld(req[h])'
    BY <1>1 DEF CaseHeld
  <2>2. QED
    BY <2>1
<1>3. ASSUME NEW g \in Handlers, NEW k \in Handlers, g # k
      PROVE  CasesApart(req'[g], req'[k])
  <2>1. CASE g = h
    BY <1>1, <1>3, <2>1
  <2>2. CASE k = h
    BY <1>1, <1>3, <2>2 DEF CasesApart
  <2>3. CASE g # h /\ k # h
    BY <1>1, <1>3, <2>3 DEF CInv
  <2>4. QED
    BY <2>1, <2>2, <2>3
<1>4. \A g, k \in Handlers : g # k => CasesApart(req[g], req[k])'
  BY <1>3 DEF CasesApart
<1>5. QED
  BY <1>2, <1>4 DEF CInv

\* Applications stay as they are; so does what other requests hold.
LEMMA CasesStay ==
    ASSUME TInv, CInv, UNCHANGED cases
    PROVE  /\ \A p \in Persons : Consistent(p)'
           /\ \A r \in Requests : CaseHeld(r) => CaseHeld(r)'
           /\ req' = req => CInv'
<1>1. UNCHANGED <<app, reviews, aged>>
  BY DEF cases
<1>2. \A p \in Persons : Consistent(p)'
  BY <1>1 DEF CInv, Consistent
<1>3. \A r \in Requests : CaseHeld(r) => CaseHeld(r)'
  BY <1>1 DEF CaseHeld
<1>4. ASSUME req' = req
      PROVE  CInv'
  <2>1. \A h \in Handlers : CaseHeld(req[h])'
    BY <1>1, <1>4 DEF CInv, CaseHeld
  <2>2. \A g, h \in Handlers : g # h => CasesApart(req[g], req[h])'
    BY <1>4 DEF CInv, CasesApart
  <2>3. QED
    BY <1>2, <2>1, <2>2 DEF CInv
<1>5. QED
  BY <1>2, <1>3, <1>4

LEMMA CasesQuiet ==
    ASSUME TInv, CInv, UNCHANGED cases, NEW h \in Handlers, NEW r \in Requests, Moves(h, r),
           CaseHeld(r), \A g \in Handlers : g # h => CasesApart(r, req[g])
    PROVE  CInv'
<1>1. \A g \in Handlers : g # h => req'[g] = req[g] /\ req[g] \in Requests
  BY Moved DEF TInv
<1>2. UNCHANGED <<app, reviews, aged>>
  BY DEF cases
<1>3. \A g \in Handlers : g # h => CaseHeld(req[g])'
  BY <1>1, <1>2 DEF CInv, CaseHeld
<1>4. CaseHeld(r)'
  BY CasesStay
<1>5. QED
  BY <1>3, <1>4, CasesStay, CasesMoved

\* A request that holds nothing, and one that holds no more than before.
HoldsNothing(r) ==
    r.mine = {} /\ r.new = {} /\ r.batch = {} /\ r.op \notin {"submit", "review"}

LEMMA HoldingNothing ==
    ASSUME TInv, CInv, UNCHANGED cases, NEW h \in Handlers, NEW r \in Requests, Moves(h, r),
           HoldsNothing(r)
    PROVE  CInv'
<1>1. CaseHeld(r) /\ \A g \in Handlers : CasesApart(r, req[g])
  BY DEF HoldsNothing, CaseHeld, CasesApart
<1>2. QED
  BY <1>1, CasesQuiet

LEMMA IdleHoldsNothing == HoldsNothing(Idle)
BY IdleTyped DEF HoldsNothing

LEMMA HoldingNoMore ==
    ASSUME TInv, CInv, UNCHANGED cases, NEW h \in Handlers, NEW r \in Requests, Moves(h, r),
           r.op = req[h].op, r.mine = req[h].mine, r.new = req[h].new,
           r.batch \subseteq req[h].batch, r.op # "retention" => r.who = req[h].who
    PROVE  CInv'
<1>1. CaseHeld(req[h]) /\ \A g \in Handlers : g # h => CasesApart(req[h], req[g])
  BY DEF CInv
<1>2. CaseHeld(r) /\ \A g \in Handlers : g # h => CasesApart(r, req[g])
  BY <1>1 DEF CaseHeld, CasesApart
<1>3. QED
  BY <1>2, CasesQuiet

LEMMA IntakeKeepsCases ==
    ASSUME TInv, CInv, CaseworkAssumption, NEW h \in Handlers, Intake(h)
    PROVE  CInv'
<1>1. ASSUME NEW p \in Persons, Submit(h, p)
      PROVE  CInv'
  <2>1. UNCHANGED cases
    BY <1>1, SubmitShape DEF State
  <2>2. CASE req' = req
    BY <2>1, <2>2, CasesStay
  <2>3. ASSUME NEW r \in Requests, Moves(h, r), r.op = "submit", r.who = p, r.mine = {Email[p]},
               app[p] = "none", AddressFree(h, Email[p])
        PROVE  CInv'
    <3>1. CaseHeld(r)
      BY <2>3 DEF CaseHeld
    <3>2. \A g \in Handlers : g # h => CasesApart(r, req[g])
      BY <2>3 DEF CasesApart, AddressFree, Holds
    <3>3. QED
      BY <2>1, <2>3, <3>1, <3>2, CasesQuiet
  <2>4. QED
    BY <1>1, <2>2, <2>3, SubmitShape
<1>2. CASE PutCertificate(h)
  <2>1. UNCHANGED cases /\ req[h].op = "submit"
    BY <1>2, PutShape
  <2>2. PICK r \in Requests :
            /\ Moves(h, r) /\ r.op = "submit" /\ r.who = req[h].who
            /\ r.mine = req[h].mine /\ r.new = req[h].new /\ r.batch = req[h].batch
    BY <1>2, PutShape
  <2>3. QED
    BY <2>1, <2>2, HoldingNoMore
<1>3. CASE CommitSubmission(h)
  <2> DEFINE p == req[h].who
  <2>1. /\ req[h].op = "submit" /\ p \in Persons /\ Moves(h, Idle) /\ UNCHANGED <<reviews, aged>>
        /\ app' = [app EXCEPT ![p] = "submitted"]
    BY <1>3, CommitShape
  <2>2. app[p] = "none" /\ Email[p] \in req[h].mine
    BY <2>1 DEF CInv, CaseHeld
  <2> HIDE DEF p
  <2>3. app'[p] = "submitted" /\ \A q \in Persons : q # p => app'[q] = app[q]
    BY <2>1 DEF TInv, StateTyped
  <2>4. \A q \in Persons : Consistent(q)'
    <3>1. ASSUME NEW q \in Persons
          PROVE  Consistent(q)'
      <4>1. CASE q # p
        BY <2>1, <2>3, <4>1 DEF CInv, Consistent
      <4>2. CASE q = p
        <5>1. Len(reviews[p]) = 0
          BY <2>1, <2>2, <4>2, Unreviewed
        <5>2. QED
          BY <2>1, <2>3, <4>2, <5>1 DEF Consistent
      <4>3. QED
        BY <4>1, <4>2
    <3>2. QED
      BY <3>1
  <2>5. ASSUME NEW g \in Handlers, g # h
        PROVE  CaseHeld(req[g])'
    <3>1. CaseHeld(req[g]) /\ req'[g] = req[g] /\ req[g] \in Requests
      BY <2>1, <2>5, Moved, IdleTyped DEF CInv, TInv
    <3>2. req[g].mine \cap req[h].mine = {}
      BY <2>5 DEF CInv, CasesApart
    <3>3. req[g].op = "submit" => req[g].who # p
      BY <2>2, <3>1, <3>2 DEF CaseHeld
    <3>4. req[g].op = "import" => p \notin req[g].new
      BY <2>2, <3>1, <3>2 DEF CaseHeld
    <3>5. req[g].op = "review" => req[g].who # p
      BY <2>2, <3>1 DEF CaseHeld
    <3>6. req[g].op = "retention" => p \notin req[g].batch
      BY <2>2, <3>1 DEF CaseHeld, Settled
    <3>7. /\ req[g].op \in {"submit", "review"} => req[g].who \in Persons
          /\ req[g].new \subseteq Persons /\ req[g].batch \subseteq Persons
      BY <3>1 DEF TInv, Names, Requests
    <3>8. QED
      BY <2>1, <2>3, <3>1, <3>3, <3>4, <3>5, <3>6, <3>7 DEF CaseHeld
  <2>6. CaseHeld(Idle)' /\ \A g \in Handlers : CasesApart(Idle, req[g])
    BY IdleTyped DEF CaseHeld, CasesApart
  <2>7. QED
    BY <2>1, <2>4, <2>5, <2>6, IdleTyped, CasesMoved
<1>4. ASSUME NEW file \in Files, Import(h, file)
      PROVE  CInv'
  <2>1. UNCHANGED cases
    BY <1>4, ImportShape DEF State
  <2>2. PICK r \in Requests : Moves(h, r) /\ r.op = "import" /\ r.mine = {} /\ r.new = {} /\ r.batch = {}
    BY <1>4, ImportShape
  <2>3. HoldsNothing(r)
    BY <2>2 DEF HoldsNothing
  <2>4. QED
    BY <2>1, <2>2, <2>3, HoldingNothing
<1>5. CASE ImportRow(h)
  <2>1. UNCHANGED cases /\ req[h].op = "import"
    BY <1>5, ImportRowShape DEF State
  <2>2. CASE Moves(h, Idle)
    BY <2>1, <2>2, HoldingNothing, IdleHoldsNothing, IdleTyped
  <2>3. ASSUME NEW p \in Persons, NEW r \in Requests, Moves(h, r), r.op = "import",
               r.mine = req[h].mine \cup {Email[p]}, r.new = req[h].new \cup {p},
               app[p] = "none", AddressFree(h, Email[p])
        PROVE  CInv'
    <3>1. CaseHeld(req[h]) /\ \A g \in Handlers : g # h => CasesApart(req[h], req[g])
      BY DEF CInv
    <3>2. CaseHeld(r)
      BY <2>1, <2>3, <3>1 DEF CaseHeld
    <3>3. \A g \in Handlers : g # h => CasesApart(r, req[g])
      BY <2>3, <3>1 DEF CasesApart, AddressFree, Holds
    <3>4. QED
      BY <2>1, <2>3, <3>2, <3>3, CasesQuiet
  <2>4. QED
    BY <1>5, <2>2, <2>3, ImportRowShape
<1>6. CASE CommitImport(h)
  <2> DEFINE new == req[h].new
  <2>1. /\ req[h].op = "import" /\ Moves(h, Idle) /\ UNCHANGED <<reviews, aged>>
        /\ app' = [p \in Persons |-> IF p \in new THEN "submitted" ELSE app[p]]
    BY <1>6 DEF CommitImport, Ends, Becomes, Moves
  <2>2. \A p \in new : app[p] = "none" /\ Email[p] \in req[h].mine
    BY <2>1 DEF CInv, CaseHeld
  <2>3. \A q \in Persons : Consistent(q)'
    <3>1. ASSUME NEW q \in Persons
          PROVE  Consistent(q)'
      <4>1. CASE q \notin new
        BY <2>1, <4>1 DEF CInv, Consistent
      <4>2. CASE q \in new
        <5>1. Len(reviews[q]) = 0
          BY <2>1, <2>2, <4>2, Unreviewed
        <5>2. QED
          BY <2>1, <4>2, <5>1 DEF Consistent
      <4>3. QED
        BY <4>1, <4>2
    <3>2. QED
      BY <3>1
  <2>4. ASSUME NEW g \in Handlers, g # h
        PROVE  CaseHeld(req[g])'
    <3>1. CaseHeld(req[g]) /\ req'[g] = req[g] /\ req[g] \in Requests
      BY <2>1, <2>4, Moved, IdleTyped DEF CInv, TInv
    <3>2. req[g].mine \cap req[h].mine = {}
      BY <2>4 DEF CInv, CasesApart
    <3>3. req[g].op = "submit" => req[g].who \notin new
      BY <2>2, <3>1, <3>2 DEF CaseHeld
    <3>4. req[g].op = "import" => req[g].new \cap new = {}
      BY <2>2, <3>1, <3>2 DEF CaseHeld
    <3>5. req[g].op = "review" => req[g].who \notin new
      BY <2>2, <3>1 DEF CaseHeld
    <3>6. req[g].op = "retention" => req[g].batch \cap new = {}
      BY <2>2, <3>1 DEF CaseHeld, Settled
    <3>7. /\ req[g].op \in {"submit", "review"} => req[g].who \in Persons
          /\ req[g].new \subseteq Persons /\ req[g].batch \subseteq Persons
      BY <3>1 DEF TInv, Names, Requests
    <3>8. \A p \in Persons : p \notin new => app'[p] = app[p]
      BY <2>1
    <3> HIDE DEF new
    <3>9. QED
      BY <2>1, <3>1, <3>3, <3>4, <3>5, <3>6, <3>7, <3>8 DEF CaseHeld
  <2>5. CaseHeld(Idle)' /\ \A g \in Handlers : CasesApart(Idle, req[g])
    BY IdleTyped DEF CaseHeld, CasesApart
  <2>6. QED
    BY <2>1, <2>3, <2>4, <2>5, IdleTyped, CasesMoved
<1>7. ASSUME NEW e \in Addresses, RequestLink(h, e)
      PROVE  CInv'
  BY <1>7, CasesStay DEF RequestLink
<1>8. ASSUME NEW n \in DOMAIN link, FollowLink(h, n)
      PROVE  CInv'
  <2>1. UNCHANGED cases
    BY <1>8, FollowShape DEF State
  <2>2. CASE req' = req
    BY <2>1, <2>2, CasesStay
  <2>3. ASSUME NEW r \in Requests, Moves(h, r), r.op = "follow", r.mine = {}, r.new = {}, r.batch = {}
        PROVE  CInv'
    BY <2>1, <2>3, HoldingNothing DEF HoldsNothing
  <2>4. QED
    BY <1>8, <2>2, <2>3, FollowShape
<1>9. CASE UseLink(h)
  BY <1>9, UseShape, HoldingNothing, IdleHoldsNothing, IdleTyped
<1>10. QED
  BY <1>1, <1>2, <1>3, <1>4, <1>5, <1>6, <1>7, <1>8, <1>9 DEF Intake

LEMMA StagesKeepCases ==
    ASSUME TInv, CInv, NEW h \in Handlers, Stages(h)
    PROVE  CInv'
<1>1. CASE StoreReading(h)
  BY <1>1, StoreShape, HoldingNothing, IdleHoldsNothing, IdleTyped
<1>2. CASE InsertCheck(h)
  BY <1>2, ResultShape, HoldingNothing, IdleHoldsNothing, IdleTyped
<1>3. ASSUME NEW p \in Persons, CheckSnapshot(h, p)
      PROVE  CInv'
  BY <1>3, CheckShape, HoldingNothing DEF HoldsNothing
<1>4. ASSUME NEW p \in Persons, NEW k \in {"fields", "forensics"}, ReadObject(h, p, k)
      PROVE  CInv'
  <2>1. UNCHANGED cases
    BY <1>4, ReadObjectShape DEF State
  <2>2. CASE req' = req
    BY <2>1, <2>2, CasesStay
  <2>3. CASE req' # req
    <3>1. PICK r \in Requests : /\ Moves(h, r) /\ r.op = "stage"
                                /\ r.mine = {} /\ r.new = {} /\ r.batch = {}
      <4>1. Opens(h, "stage", p)
        BY <1>4, <2>3, ReadObjectShape
      <4>2. QED
        BY <4>1 DEF Opens
    <3>2. QED
      BY <2>1, <3>1, HoldingNothing DEF HoldsNothing
  <2>4. QED
    BY <2>2, <2>3
<1>5. QED
  BY <1>1, <1>2, <1>3, <1>4 DEF Stages

\* A decision, in terms of the person and of what it makes of the application.
LEMMA DecideShape ==
    ASSUME TInv, NEW h \in Handlers, Decide(h)
    PROVE  /\ UNCHANGED <<people, files, checks, left>> /\ Moves(h, Idle)
           /\ req[h].op = "review" /\ req[h].who \in Persons /\ req[h].decision \in Decisions
           /\ reviews' = [reviews EXCEPT ![req[h].who] = Append(@, req[h].decision)]
           /\ app' = [app EXCEPT ![req[h].who] = NextStatus(req[h].decision)]
           /\ aged' = [aged EXCEPT ![req[h].who] = FALSE]
<1>1. req[h].op = "review" /\ req[h] \in Requests /\ Names(req[h])
  BY DEF Decide, TInv
<1>2. req[h].who \in Persons /\ req[h].decision \in Decisions
  BY <1>1 DEF Names, Requests
<1>3. QED
  BY <1>1, <1>2 DEF Decide, Ends, Becomes, Moves

LEMMA DecisionKeepsCases ==
    ASSUME TInv, CInv, NEW h \in Handlers, Decide(h)
    PROVE  CInv'
<1>0. req[h].who \in Persons /\ req[h].decision \in Decisions
  BY DecideShape
<1> PICK p \in Persons, d \in Decisions : p = req[h].who /\ d = req[h].decision
  BY <1>0
<1>1. /\ req[h].op = "review" /\ req[h].who = p /\ Moves(h, Idle)
      /\ reviews' = [reviews EXCEPT ![p] = Append(@, d)]
      /\ app' = [app EXCEPT ![p] = NextStatus(d)]
      /\ aged' = [aged EXCEPT ![p] = FALSE]
  BY DecideShape
<1>2. app[p] # "none" /\ app[p] \notin Settled /\ Consistent(p)
  BY <1>1 DEF CInv, CaseHeld
<1>3. \A g \in Handlers : g # h /\ req[g].op = "review" => req[g].who # p
  BY <1>1 DEF CInv, CasesApart
<1>4. app'[p] = NextStatus(d) /\ reviews'[p] = Append(reviews[p], d)
  BY <1>1 DEF TInv, StateTyped
<1>5. \A q \in Persons : q # p =>
          app'[q] = app[q] /\ reviews'[q] = reviews[q] /\ aged'[q] = aged[q]
  BY <1>1 DEF TInv, StateTyped
<1>6. Consistent(p)'
  <2> DEFINE n == Len(reviews[p])
  <2>1. reviews[p] \in Seq(Decisions) /\ n \in Nat
    BY <1>1 DEF TInv, StateTyped
  <2>2. /\ Len(reviews'[p]) = n + 1 /\ reviews'[p][n + 1] = d
        /\ \A i \in 1..n : reviews'[p][i] = reviews[p][i]
    BY <1>1, <1>4, <2>1
  <2>3. \A i \in 1..n : NextStatus(reviews[p][i]) \notin Settled
    <3>1. ASSUME NEW i \in 1..n
          PROVE  NextStatus(reviews[p][i]) \notin Settled
      <4>1. CASE i = n
        BY <1>2, <2>1, <4>1 DEF Consistent
      <4>2. CASE i # n
        BY <1>2, <2>1, <4>2 DEF Consistent
      <4>3. QED
        BY <4>1, <4>2
    <3>2. QED
      BY <3>1
  <2>4. QED
    BY <1>4, <2>1, <2>2, <2>3 DEF Consistent
<1>7. \A q \in Persons : Consistent(q)'
  <2>1. ASSUME NEW q \in Persons, q # p
        PROVE  Consistent(q)'
    BY <1>5, <2>1 DEF CInv, Consistent
  <2>2. QED
    BY <1>6, <2>1
<1>8. ASSUME NEW g \in Handlers, g # h
      PROVE  CaseHeld(req[g])'
  <2>1. CaseHeld(req[g]) /\ req'[g] = req[g] /\ req[g] \in Requests
    BY <1>1, <1>8, Moved, IdleTyped DEF CInv, TInv
  <2>2. req[g].op = "submit" => req[g].who # p
    BY <1>2, <2>1 DEF CaseHeld
  <2>3. req[g].op = "import" => p \notin req[g].new
    BY <1>2, <2>1 DEF CaseHeld
  <2>4. req[g].op = "retention" => p \notin req[g].batch
    BY <1>2, <2>1 DEF CaseHeld
  <2>5. /\ req[g].op \in {"submit", "review"} => req[g].who \in Persons
        /\ req[g].new \subseteq Persons /\ req[g].batch \subseteq Persons
    BY <2>1 DEF TInv, Names, Requests
  <2>6. QED
    BY <1>3, <1>5, <1>8, <2>1, <2>2, <2>3, <2>4, <2>5 DEF CaseHeld
<1>9. CaseHeld(Idle)' /\ \A g \in Handlers : CasesApart(Idle, req[g])
  BY IdleTyped DEF CaseHeld, CasesApart
<1>10. QED
  BY <1>1, <1>7, <1>8, <1>9, IdleTyped, CasesMoved

LEMMA ReviewingKeepsCases ==
    ASSUME TInv, CInv, NEW h \in Handlers, Reviewing(h)
    PROVE  CInv'
<1>1. CASE RecordVerification(h)
  BY <1>1, ResultShape, HoldingNothing, IdleHoldsNothing, IdleTyped
<1>2. ASSUME NEW p \in Persons, BeginRecord(h, p)
      PROVE  CInv'
  BY <1>2, RecordShape, HoldingNothing DEF HoldsNothing
<1>3. ASSUME NEW p \in Persons, NEW d \in Decisions, LockCase(h, p, d)
      PROVE  CInv'
  <2>1. UNCHANGED cases
    BY <1>3, LockCaseShape DEF State
  <2>2. CASE req' = req
    BY <2>1, <2>2, CasesStay
  <2>3. CASE req' # req
    <3>1. app[p] # "none" /\ CaseFree(p) /\ app[p] \notin Settled
      BY <1>3, <2>3, LockCaseShape
    <3>2. PICK r \in Requests : Moves(h, r) /\ r.op = "review" /\ r.who = p /\ r.mine = {}
      <4>1. Opens(h, "review", p)
        BY <1>3, <2>3, LockCaseMoves
      <4>2. QED
        BY <4>1 DEF Opens
    <3>3. CaseHeld(r)
      BY <3>1, <3>2 DEF CaseHeld
    <3>4. \A g \in Handlers : g # h => CasesApart(r, req[g])
      BY <3>1, <3>2 DEF CasesApart, CaseFree
    <3>5. QED
      BY <2>1, <3>2, <3>3, <3>4, CasesQuiet
  <2>4. QED
    BY <2>2, <2>3
<1>4. QED
  BY <1>1, <1>2, <1>3, DecisionKeepsCases DEF Reviewing

LEMMA RetentionKeepsCases ==
    ASSUME TInv, CInv, NEW h \in Handlers, Retention(h)
    PROVE  CInv'
<1>1. CASE SelectPurgeable(h)
  <2>1. UNCHANGED cases
    BY <1>1, SelectShape DEF State
  <2>2. PICK r \in Requests :
            /\ Moves(h, r) /\ r.op = "retention" /\ r.mine = {}
            /\ r.batch \subseteq {p \in Persons : Purgeable(p)}
    BY <1>1, SelectShape
  <2>3. CaseHeld(r) /\ \A g \in Handlers : CasesApart(r, req[g])
    BY <2>2 DEF CaseHeld, CasesApart, Purgeable
  <2>4. QED
    BY <2>1, <2>2, <2>3, CasesQuiet
<1>2. CASE MarkPurged(h)
  <2>1. UNCHANGED cases /\ req[h].op = "retention"
    BY <1>2, MarkShape
  <2>2. PICK r \in Requests :
            /\ Moves(h, r) /\ r.op = "retention" /\ r.mine = req[h].mine
            /\ r.new = req[h].new /\ r.batch \subseteq req[h].batch
    BY <1>2, MarkShape
  <2>3. QED
    BY <2>1, <2>2, HoldingNoMore
<1>3. CASE RetentionEnds(h)
  BY <1>3, HoldingNothing, IdleHoldsNothing, IdleTyped DEF RetentionEnds, Ends, Becomes, Moves
<1>4. ASSUME NEW p \in Persons, RemoveObject(h, p)
      PROVE  CInv'
  <2>1. UNCHANGED cases /\ req[h].op = "retention"
    BY <1>4, RemoveShape
  <2>2. PICK r \in Requests :
            /\ Moves(h, r) /\ r.op = "retention" /\ r.mine = req[h].mine
            /\ r.new = req[h].new /\ r.batch \subseteq req[h].batch
    BY <1>4, RemoveShape
  <2>3. QED
    BY <2>1, <2>2, HoldingNoMore
<1>5. QED
  BY <1>1, <1>2, <1>3, <1>4 DEF Retention

\* A promotion and the passing of time, which no request makes.
LEMMA ScoreKeepsCases ==
    ASSUME TInv, CInv, NEW p \in Persons, Scored(p) \/ Age(p)
    PROVE  CInv'
<1>1. req' = req /\ reviews' = reviews
  BY DEF Scored, Age
<1>2. \A q \in Persons : \/ app'[q] = app[q]
                         \/ app[q] = "submitted" /\ app'[q] = "ready_for_review"
  BY DEF Scored, Age, TInv, StateTyped
<1>3. \A q \in Persons : aged[q] => aged'[q]
  BY DEF Scored, Age, TInv, StateTyped
<1>4. ASSUME NEW q \in Persons
      PROVE  Consistent(q)'
  <2>1. CASE app'[q] = app[q]
    BY <1>1, <2>1 DEF CInv, Consistent
  <2>2. CASE app[q] = "submitted" /\ app'[q] = "ready_for_review"
    <3>1. Len(reviews[q]) = 0
      <4>1. SUFFICES ASSUME Len(reviews[q]) # 0 PROVE FALSE
        OBVIOUS
      <4>2. reviews[q] \in Seq(Decisions) /\ Len(reviews[q]) \in Nat
        BY DEF TInv, StateTyped
      <4>3. reviews[q][Len(reviews[q])] \in Decisions
        BY <4>1, <4>2
      <4>4. app[q] = NextStatus(reviews[q][Len(reviews[q])])
        BY <4>1 DEF CInv, Consistent
      <4>5. QED
        BY <2>2, <4>3, <4>4, DecisionsSettle
    <3>2. QED
      BY <1>1, <2>2, <3>1 DEF Consistent
  <2>3. QED
    BY <1>2, <2>1, <2>2
<1>5. ASSUME NEW g \in Handlers
      PROVE  CaseHeld(req[g])'
  <2>1. CaseHeld(req[g]) /\ req'[g] = req[g] /\ req[g] \in Requests
    BY <1>1 DEF CInv, TInv
  <2>2. /\ req[g].op \in {"submit", "review"} => req[g].who \in Persons
        /\ req[g].new \subseteq Persons /\ req[g].batch \subseteq Persons
    BY <2>1 DEF TInv, Names, Requests
  <2>3. \A q \in Persons : /\ app[q] = "none" => app'[q] = "none"
                           /\ app[q] # "none" => app'[q] # "none"
                           /\ app'[q] \in Settled <=> app[q] \in Settled
    BY <1>2 DEF Settled
  <2>4. QED
    BY <1>1, <1>3, <2>1, <2>2, <2>3 DEF CaseHeld
<1>6. \A g, h \in Handlers : g # h => CasesApart(req[g], req[h])'
  BY <1>1 DEF CInv, CasesApart
<1>7. QED
  BY <1>4, <1>5, <1>6 DEF CInv

LEMMA CasesKept ==
    ASSUME TInv, CInv, CaseworkAssumption, [Next]_vars
    PROVE  CInv'
<1>1. ASSUME NEW h \in Handlers, Fails(h)
      PROVE  CInv'
  BY <1>1, HoldingNothing, IdleHoldsNothing, IdleTyped DEF Fails, Ends, Becomes, Moves
<1>2. ASSUME NEW n \in DOMAIN link, LinkExpires(n)
      PROVE  CInv'
  BY <1>2, CasesStay DEF LinkExpires
<1>3. CASE UNCHANGED vars
  BY <1>3, CasesStay DEF vars, cases
<1>4. QED
  BY <1>1, <1>2, <1>3, IntakeKeepsCases, StagesKeepCases, ReviewingKeepsCases,
     RetentionKeepsCases, ScoreKeepsCases DEF Next

LEMMA InitCases ==
    ASSUME Init, CaseworkAssumption
    PROVE  CInv
<1>1. \A p \in Persons : Consistent(p)
  BY DEF Init, Consistent
<1>2. \A h \in Handlers : req[h] = Idle
  BY DEF Init
<1>3. CaseHeld(Idle) /\ CasesApart(Idle, Idle)
  BY IdleTyped DEF CaseHeld, CasesApart
<1>4. QED
  BY <1>1, <1>2, <1>3 DEF CInv

LEMMA CaseInvariant == Spec => [](TInv /\ CInv)
<1>1. Init => CInv
  BY InitCases, CaseworkAssumption
<1>2. TInv /\ CInv /\ [Next]_vars => CInv'
  BY CasesKept, CaseworkAssumption
<1>3. QED
  BY <1>1, <1>2, TypeInvariant, PTL DEF Spec

\* One decision settles an application and nothing is recorded after it, however many
\* reviewers decide at once; the status is what the last decision made it.
THEOREM OneDecisionSettles == Spec => []DecisionsAgree
<1>1. CInv => DecisionsAgree
  BY DEF CInv, Consistent, DecisionsAgree
<1>2. QED
  BY <1>1, CaseInvariant, PTL

-----------------------------------------------------------------------------
(* The links: one that is being followed is held by one request only, and   *)
(* was not used; a used one was used once.                                  *)

\* h's request stays, or becomes one of the operations ops.
Turns(h, ops) == req' = req \/ \E r \in Requests : Moves(h, r) /\ r.op \in ops

LEMMA IdleTurns ==
    ASSUME NEW h, Moves(h, Idle)
    PROVE  Turns(h, {"none"})
BY IdleTyped DEF Turns

LEMMA TurnsWider ==
    ASSUME NEW h, NEW A, NEW B, A \subseteq B, Turns(h, A)
    PROVE  Turns(h, B)
BY DEF Turns

LEMMA IntakeTurns ==
    ASSUME TInv, CaseworkAssumption, NEW h \in Handlers, Intake(h)
    PROVE  /\ UNCHANGED checks
           /\ \/ UNCHANGED people /\ Turns(h, {"none", "submit", "import"})
              \/ \E n \in DOMAIN link : FollowLink(h, n)
              \/ /\ Turns(h, {"none"})
                 /\ \/ CommitSubmission(h) \/ CommitImport(h) \/ UseLink(h)
                    \/ \E e \in Addresses : RequestLink(h, e)
<1>1. ASSUME NEW p \in Persons, Submit(h, p)
      PROVE  UNCHANGED <<people, checks>> /\ Turns(h, {"none", "submit", "import"})
  BY <1>1, SubmitShape DEF Turns, State
<1>2. CASE PutCertificate(h)
  <2>1. UNCHANGED <<people, checks>> /\ Turns(h, {"submit"})
    BY <1>2, PutShape DEF Turns
  <2>2. QED
    BY <2>1, TurnsWider
<1>3. CASE CommitSubmission(h)
  BY <1>3, CommitShape, IdleTurns DEF CommitSubmission
<1>4. CASE ImportRow(h)
  <2>1. UNCHANGED <<people, checks>> /\ Turns(h, {"none", "import"})
    <3>1. CASE Moves(h, Idle)
      BY <1>4, <3>1, ImportRowShape, IdleTyped DEF Turns, State
    <3>2. CASE ~Moves(h, Idle)
      BY <1>4, <3>2, ImportRowShape DEF Turns, State
    <3>3. QED
      BY <3>1, <3>2
  <2>2. QED
    BY <2>1, TurnsWider
<1>5. CASE CommitImport(h)
  BY <1>5, IdleTurns DEF CommitImport, Ends, Becomes, Moves
<1>6. CASE UseLink(h)
  BY <1>6, UseShape, IdleTurns DEF UseLink
<1>7. ASSUME NEW file \in Files, Import(h, file)
      PROVE  UNCHANGED <<people, checks>> /\ Turns(h, {"none", "submit", "import"})
  BY <1>7, ImportShape DEF Turns, State
<1>8. ASSUME NEW e \in Addresses, RequestLink(h, e)
      PROVE  UNCHANGED checks /\ Turns(h, {"none"})
  BY <1>8 DEF RequestLink, Turns
<1>9. ASSUME NEW n \in DOMAIN link, FollowLink(h, n)
      PROVE  UNCHANGED checks
  BY <1>9 DEF FollowLink
<1>10. QED
  BY <1>1, <1>2, <1>3, <1>4, <1>5, <1>6, <1>7, <1>8, <1>9 DEF Intake

LEMMA StagesTurns ==
    ASSUME TInv, NEW h \in Handlers, Stages(h)
    PROVE  /\ UNCHANGED <<people, cases>>
           /\ \/ UNCHANGED checks /\ Turns(h, {"none", "stage"})
              \/ InsertCheck(h)
              \/ \E p \in Persons : CheckSnapshot(h, p)
<1>1. ASSUME NEW p \in Persons, NEW k \in {"fields", "forensics"}, ReadObject(h, p, k)
      PROVE  UNCHANGED <<people, cases, checks>> /\ Turns(h, {"none", "stage"})
  BY <1>1, ReadObjectShape DEF Turns, Opens, State
<1>2. CASE StoreReading(h)
  <2>1. UNCHANGED <<people, cases, checks>> /\ Turns(h, {"none"})
    BY <1>2, StoreShape, IdleTurns
  <2>2. QED
    BY <2>1, TurnsWider
<1>3. CASE InsertCheck(h)
  BY <1>3, ResultShape
<1>4. ASSUME NEW p \in Persons, CheckSnapshot(h, p)
      PROVE  UNCHANGED <<people, cases>>
  BY <1>4 DEF CheckSnapshot
<1>5. QED
  BY <1>1, <1>2, <1>3, <1>4 DEF Stages

LEMMA ReviewingTurns ==
    ASSUME TInv, NEW h \in Handlers, Reviewing(h)
    PROVE  /\ UNCHANGED <<people, files>>
           /\ \/ UNCHANGED checks /\ Turns(h, {"none", "review"})
              \/ RecordVerification(h)
              \/ \E p \in Persons : BeginRecord(h, p)
<1>1. ASSUME NEW p \in Persons, NEW d \in Decisions, LockCase(h, p, d)
      PROVE  UNCHANGED <<people, files, checks>> /\ Turns(h, {"none", "review"})
  <2>1. req' = req \/ Opens(h, "review", p)
    BY <1>1, LockCaseMoves
  <2>2. UNCHANGED <<people, files, checks>>
    BY <1>1, LockCaseShape DEF State
  <2>3. QED
    BY <2>1, <2>2 DEF Turns, Opens
<1>2. CASE Decide(h)
  <2>1. UNCHANGED <<people, files, checks>> /\ Turns(h, {"none"})
    BY <1>2, DecideShape, IdleTurns
  <2>2. QED
    BY <2>1, TurnsWider
<1>3. CASE RecordVerification(h)
  BY <1>3, ResultShape
<1>4. ASSUME NEW p \in Persons, BeginRecord(h, p)
      PROVE  UNCHANGED <<people, files>>
  BY <1>4 DEF BeginRecord
<1>5. QED
  BY <1>1, <1>2, <1>3, <1>4 DEF Reviewing

LEMMA RetentionTurns ==
    ASSUME TInv, NEW h \in Handlers, Retention(h)
    PROVE  UNCHANGED <<people, cases, checks>> /\ Turns(h, {"none", "retention"})
<1>1. CASE SelectPurgeable(h)
  BY <1>1, SelectShape DEF Turns, State
<1>2. CASE MarkPurged(h)
  BY <1>2, MarkShape DEF Turns
<1>3. CASE RetentionEnds(h)
  <2>1. UNCHANGED <<people, cases, checks>> /\ Turns(h, {"none"})
    BY <1>3, IdleTurns DEF RetentionEnds, Ends, Becomes, Moves
  <2>2. QED
    BY <2>1, TurnsWider
<1>4. ASSUME NEW p \in Persons, RemoveObject(h, p)
      PROVE  UNCHANGED <<people, cases, checks>> /\ Turns(h, {"none", "retention"})
  BY <1>4, RemoveShape DEF Turns
<1>5. QED
  BY <1>1, <1>2, <1>3, <1>4 DEF Retention

Busy == {"submit", "import", "ask", "check", "record", "review", "stage", "retention", "none"}

Proved(e) == e \in imported \/ \E n \in DOMAIN link : link[n].email = e /\ link[n].uses > 0

\* A link being followed was not used yet, and no two requests follow one link.
Fresh(r) == r.op = "follow" => ~link[r.link].used
LinksApart(r, s) == r.op = "follow" /\ s.op = "follow" => r.link # s.link

LInv ==
    /\ \A n \in DOMAIN link : link[n].uses <= 1 /\ (~link[n].used => link[n].uses = 0)
    /\ \A e \in Addresses : address[e] = "confirmed" => Proved(e)
    /\ \A h \in Handlers : Fresh(req[h])
    /\ \A g, h \in Handlers : g # h => LinksApart(req[g], req[h])

\* The requests when one of them turns to something that follows no link.
LEMMA LinksTurn ==
    ASSUME TInv, LInv, NEW h \in Handlers, Turns(h, Busy)
    PROVE  /\ \A g \in Handlers : req'[g].op = "follow" => req'[g] = req[g]
           /\ \A g, k \in Handlers : g # k => LinksApart(req'[g], req'[k])
<1>1. CASE req' = req
  BY <1>1 DEF LInv
<1>2. CASE req' # req
  <2>1. PICK r \in Requests : Moves(h, r) /\ r.op \in Busy
    BY <1>2 DEF Turns
  <2>2. req'[h] = r /\ r.op # "follow" /\ \A g \in Handlers : g # h => req'[g] = req[g]
    BY <2>1, Moved DEF TInv, Busy
  <2>3. \A g \in Handlers : req'[g].op = "follow" => req'[g] = req[g]
    BY <2>2
  <2>4. QED
    BY <2>2, <2>3 DEF LInv, LinksApart
<1>3. QED
  BY <1>1, <1>2

LEMMA LinksQuiet ==
    ASSUME TInv, LInv, NEW h \in Handlers, Turns(h, Busy), UNCHANGED people
    PROVE  LInv'
<1>1. /\ \A g \in Handlers : req'[g].op = "follow" => req'[g] = req[g]
      /\ \A g, k \in Handlers : g # k => LinksApart(req'[g], req'[k])
  BY LinksTurn
<1>2. link' = link /\ address' = address /\ imported' = imported
  BY DEF people
<1>3. \A g \in Handlers : Fresh(req[g])'
  BY <1>1, <1>2 DEF LInv, Fresh
<1>4. \A g, k \in Handlers : g # k => LinksApart(req[g], req[k])'
  BY <1>1 DEF LinksApart
<1>5. QED
  BY <1>2, <1>3, <1>4 DEF LInv, Proved

\* A new link, and addresses that stay as confirmed as they were.
LEMMA LinksGrow ==
    ASSUME TInv, LInv, NEW h \in Handlers, Turns(h, Busy),
           link' = link \/ \E e \in Addresses : link' = Append(link, Link(e)),
           imported \subseteq imported',
           \A a \in Addresses : address'[a] = "confirmed" =>
               address[a] = "confirmed" \/ a \in imported'
    PROVE  LInv'
<1>1. /\ \A g \in Handlers : req'[g].op = "follow" => req'[g] = req[g]
      /\ \A g, k \in Handlers : g # k => LinksApart(req'[g], req'[k])
  BY LinksTurn
<1>2. /\ DOMAIN link \subseteq DOMAIN link'
      /\ \A n \in DOMAIN link : link'[n] = link[n]
      /\ \A n \in DOMAIN link' : n \in DOMAIN link \/ (~link'[n].used /\ link'[n].uses = 0)
  <2>1. CASE link' = link
    BY <2>1
  <2>2. ASSUME NEW e \in Addresses, link' = Append(link, Link(e))
        PROVE  /\ DOMAIN link \subseteq DOMAIN link'
               /\ \A n \in DOMAIN link : link'[n] = link[n]
               /\ \A n \in DOMAIN link' :
                      n \in DOMAIN link \/ (~link'[n].used /\ link'[n].uses = 0)
    BY <2>2, LinkAppended DEF TInv, StateTyped
  <2>3. QED
    BY <2>1, <2>2
<1>3. \A n \in DOMAIN link' : link'[n].uses <= 1 /\ (~link'[n].used => link'[n].uses = 0)
  BY <1>2 DEF LInv
<1>4. \A a \in Addresses : address'[a] = "confirmed" => Proved(a)'
  <2>1. \A a \in Addresses : Proved(a) => Proved(a)'
    BY <1>2 DEF Proved
  <2>2. \A a \in Addresses : a \in imported' => Proved(a)'
    BY DEF Proved
  <2>3. QED
    BY <2>1, <2>2 DEF LInv
<1>5. \A g \in Handlers : Fresh(req[g])'
  <2>1. \A g \in Handlers : req[g].op = "follow" => req[g].link \in DOMAIN link
    BY DEF TInv, Names
  <2>2. QED
    BY <1>1, <1>2, <2>1 DEF LInv, Fresh
<1>6. \A g, k \in Handlers : g # k => LinksApart(req[g], req[k])'
  BY <1>1 DEF LinksApart
<1>7. QED
  BY <1>3, <1>4, <1>5, <1>6 DEF LInv

\* One row of a link changes: it expires, or it is used by the request that holds it.
LEMMA LinkUsed ==
    ASSUME TInv, LInv, NEW h \in Handlers, UseLink(h)
    PROVE  LInv'
<1> DEFINE n == req[h].link
<1>1. /\ n \in DOMAIN link /\ req[h].op = "follow" /\ Moves(h, Idle) /\ imported' = imported
      /\ address' = [address EXCEPT ![link[n].email] = "confirmed"]
      /\ link[n].email \in Addresses
  BY UseShape
<1>2. PICK row \in LinkRows :
          /\ link' = [link EXCEPT ![n] = row]
          /\ row.email = link[n].email /\ row.used /\ row.uses = link[n].uses + 1
  BY UseShape
<1>3. /\ DOMAIN link' = DOMAIN link /\ link'[n] = row
      /\ \A m \in DOMAIN link : m # n => link'[m] = link[m]
  BY <1>1, <1>2, LinkChanged DEF TInv, StateTyped
<1>4. link[n].uses = 0
  BY <1>1 DEF LInv, Fresh
<1> HIDE DEF n
<1>5. \A m \in DOMAIN link' : link'[m].uses <= 1 /\ (~link'[m].used => link'[m].uses = 0)
  <2>1. row.uses = 1 /\ row.used
    BY <1>2, <1>4
  <2>2. QED
    BY <1>3, <2>1 DEF LInv
<1>6. \A a \in Addresses : address'[a] = "confirmed" => Proved(a)'
  <2>1. link'[n].email = link[n].email /\ link'[n].uses = 1
    BY <1>2, <1>3, <1>4
  <2>2. \A a \in Addresses : Proved(a) => Proved(a)'
    BY <1>1, <1>3, <1>4, <2>1 DEF Proved
  <2>3. \A a \in Addresses : a = link[n].email => Proved(a)'
    BY <1>1, <1>3, <2>1 DEF Proved
  <2>4. \A a \in Addresses : a # link[n].email => address'[a] = address[a]
    <3>1. address \in [Addresses -> {"none", "unconfirmed", "confirmed"}]
      BY DEF TInv, StateTyped
    <3>2. QED
      BY <1>1, <3>1
  <2>5. QED
    BY <2>2, <2>3, <2>4 DEF LInv
<1>7. req'[h] = Idle /\ \A g \in Handlers : g # h => req'[g] = req[g]
  BY <1>1, Moved, IdleTyped DEF TInv
<1>8. \A g \in Handlers : Fresh(req[g])'
  <2>1. ASSUME NEW g \in Handlers, req'[g].op = "follow"
        PROVE  ~link'[req'[g].link].used
    <3>1. g # h /\ req'[g] = req[g]
      BY <1>7, <2>1, IdleTyped
    <3>2. req[g].link # n /\ req[g].link \in DOMAIN link /\ ~link[req[g].link].used
      BY <1>1, <2>1, <3>1 DEF LInv, LinksApart, Fresh, TInv, Names, n
    <3>3. QED
      BY <1>3, <3>1, <3>2
  <2>2. QED
    BY <2>1 DEF Fresh
<1>9. \A g, k \in Handlers : g # k => LinksApart(req[g], req[k])'
  BY <1>7, IdleTyped DEF LInv, LinksApart
<1>10. QED
  BY <1>5, <1>6, <1>8, <1>9 DEF LInv

LEMMA LinkExpired ==
    ASSUME TInv, LInv, NEW n \in DOMAIN link, LinkExpires(n)
    PROVE  LInv'
<1>1. address' = address /\ imported' = imported /\ req' = req
  BY ExpiryShape
<1>2. PICK row \in LinkRows :
          /\ link' = [link EXCEPT ![n] = row]
          /\ row.email = link[n].email /\ row.used = link[n].used /\ row.uses = link[n].uses
  BY ExpiryShape
<1>3. /\ DOMAIN link' = DOMAIN link /\ link'[n] = row
      /\ \A m \in DOMAIN link : m # n => link'[m] = link[m]
  BY <1>2, LinkChanged DEF TInv, StateTyped
<1>4. \A m \in DOMAIN link : /\ link'[m].email = link[m].email
                             /\ link'[m].used = link[m].used /\ link'[m].uses = link[m].uses
  BY <1>2, <1>3
<1>5. \A g \in Handlers : Fresh(req[g])'
  <2>1. \A g \in Handlers : req[g].op = "follow" => req[g].link \in DOMAIN link
    BY DEF TInv, Names
  <2>2. QED
    BY <1>1, <1>4, <2>1 DEF LInv, Fresh
<1>6. \A e \in Addresses : address'[e] = "confirmed" => Proved(e)'
  BY <1>1, <1>3, <1>4 DEF LInv, Proved
<1>7. \A m \in DOMAIN link' : link'[m].uses <= 1 /\ (~link'[m].used => link'[m].uses = 0)
  BY <1>3, <1>4 DEF LInv
<1>8. \A g, k \in Handlers : g # k => LinksApart(req[g], req[k])'
  BY <1>1 DEF LInv, LinksApart
<1>9. QED
  BY <1>5, <1>6, <1>7, <1>8 DEF LInv

LEMMA LinkFollowed ==
    ASSUME TInv, LInv, NEW h \in Handlers, NEW n \in DOMAIN link, FollowLink(h, n)
    PROVE  LInv'
<1>1. UNCHANGED people /\ req[h].op = "none"
  BY FollowShape DEF State
<1>2. CASE req' = req
  BY <1>1, <1>2, LinksQuiet DEF Turns
<1>3. CASE req' # req
  <2>1. PICK r \in Requests : /\ Moves(h, r) /\ r.op = "follow" /\ r.link = n
                              /\ ~link[n].used /\ LinkFree(n)
    BY <1>3, FollowShape
  <2>2. req'[h] = r /\ \A g \in Handlers : g # h => req'[g] = req[g]
    BY <2>1, Moved DEF TInv
  <2>3. \A g \in Handlers : Fresh(req[g])'
    BY <1>1, <2>1, <2>2 DEF LInv, Fresh, people
  <2>4. \A g, k \in Handlers : g # k => LinksApart(req[g], req[k])'
    BY <2>1, <2>2 DEF LInv, LinksApart, LinkFree
  <2>5. QED
    BY <1>1, <2>3, <2>4 DEF LInv, Proved, people
<1>4. QED
  BY <1>2, <1>3

LEMMA IntakeKeepsLinks ==
    ASSUME TInv, LInv, CaseworkAssumption, NEW h \in Handlers, Intake(h)
    PROVE  LInv'
<1>1. CASE UNCHANGED people /\ Turns(h, {"none", "submit", "import"})
  BY <1>1, TurnsWider, LinksQuiet DEF Busy
<1>2. ASSUME NEW n \in DOMAIN link, FollowLink(h, n)
      PROVE  LInv'
  BY <1>2, LinkFollowed
<1>3. CASE Turns(h, {"none"}) /\ CommitSubmission(h)
  <2>1. Turns(h, Busy)
    BY <1>3, TurnsWider DEF Busy
  <2>2. req[h].who \in Persons /\ Email[req[h].who] \in Addresses
    BY <1>3, CommitShape DEF CaseworkAssumption
  <2>3. link' = link \/ link' = Append(link, Link(Email[req[h].who]))
    BY <1>3 DEF CommitSubmission
  <2>4. imported' = imported
        /\ \A a \in Addresses : address'[a] = "confirmed" => address[a] = "confirmed"
    BY <1>3, <2>2 DEF CommitSubmission, Applied, TInv, StateTyped
  <2>5. QED
    BY <2>1, <2>2, <2>3, <2>4, LinksGrow
<1>4. CASE Turns(h, {"none"}) /\ CommitImport(h)
  <2>1. Turns(h, Busy)
    BY <1>4, TurnsWider DEF Busy
  <2>2. link' = link /\ imported \subseteq imported'
    BY <1>4 DEF CommitImport
  <2>3. \A a \in Addresses : address'[a] = "confirmed" =>
            address[a] = "confirmed" \/ a \in imported'
    <3>1. /\ \A a \in Addresses : Holds(h, a) /\ address[a] = "none" => a \in imported'
          /\ \A a \in Addresses : ~(Holds(h, a) /\ address[a] = "none") =>
                 address'[a] = address[a]
      BY <1>4 DEF CommitImport
    <3>2. QED
      BY <3>1
  <2>4. QED
    BY <2>1, <2>2, <2>3, LinksGrow
<1>5. CASE UseLink(h)
  BY <1>5, LinkUsed
<1>6. ASSUME NEW e \in Addresses, RequestLink(h, e), Turns(h, {"none"})
      PROVE  LInv'
  <2>1. Turns(h, Busy)
    BY <1>6, TurnsWider DEF Busy
  <2>2. link' = Append(link, Link(e)) /\ imported' = imported
    BY <1>6 DEF RequestLink
  <2>3. \A a \in Addresses : address'[a] = "confirmed" => address[a] = "confirmed"
    BY <1>6 DEF RequestLink, Applied, TInv, StateTyped
  <2>4. QED
    BY <2>1, <2>2, <2>3, LinksGrow
<1>7. QED
  BY <1>1, <1>2, <1>3, <1>4, <1>5, <1>6, IntakeTurns

LEMMA LinksKept ==
    ASSUME TInv, LInv, CaseworkAssumption, [Next]_vars
    PROVE  LInv'
<1>1. ASSUME NEW h \in Handlers, Stages(h)
      PROVE  LInv'
  <2>1. UNCHANGED people
    BY <1>1, StagesTurns
  <2>2. CASE Turns(h, {"none", "stage"})
    BY <2>1, <2>2, TurnsWider, LinksQuiet DEF Busy
  <2>3. CASE InsertCheck(h)
    <3>1. Turns(h, {"none"})
      BY <2>3, ResultShape, IdleTurns
    <3>2. QED
      BY <2>1, <3>1, TurnsWider, LinksQuiet DEF Busy
  <2>4. ASSUME NEW p \in Persons, CheckSnapshot(h, p)
        PROVE  LInv'
    <3>1. Turns(h, {"check"})
      BY <2>4, CheckShape DEF Turns
    <3>2. QED
      BY <2>1, <3>1, TurnsWider, LinksQuiet DEF Busy
  <2>5. QED
    BY <1>1, <2>2, <2>3, <2>4, StagesTurns
<1>2. ASSUME NEW h \in Handlers, Reviewing(h)
      PROVE  LInv'
  <2>1. UNCHANGED people
    BY <1>2, ReviewingTurns
  <2>2. CASE Turns(h, {"none", "review"})
    BY <2>1, <2>2, TurnsWider, LinksQuiet DEF Busy
  <2>3. CASE RecordVerification(h)
    <3>1. Turns(h, {"none"})
      BY <2>3, ResultShape, IdleTurns
    <3>2. QED
      BY <2>1, <3>1, TurnsWider, LinksQuiet DEF Busy
  <2>4. ASSUME NEW p \in Persons, BeginRecord(h, p)
        PROVE  LInv'
    <3>1. Turns(h, {"record"})
      BY <2>4, RecordShape DEF Turns
    <3>2. QED
      BY <2>1, <3>1, TurnsWider, LinksQuiet DEF Busy
  <2>5. QED
    BY <1>2, <2>2, <2>3, <2>4, ReviewingTurns
<1>3. ASSUME NEW h \in Handlers, Retention(h)
      PROVE  LInv'
  BY <1>3, RetentionTurns, TurnsWider, LinksQuiet DEF Busy
<1>4. ASSUME NEW h \in Handlers, Fails(h)
      PROVE  LInv'
  <2>1. UNCHANGED people /\ Turns(h, {"none"})
    BY <1>4, IdleTurns DEF Fails, Ends, Becomes, Moves
  <2>2. QED
    BY <2>1, TurnsWider, LinksQuiet DEF Busy
<1>5. ASSUME UNCHANGED <<people, req>>
      PROVE  LInv'
  BY <1>5 DEF LInv, Proved, Fresh, LinksApart, people
<1>6. ASSUME NEW p \in Persons, Scored(p) \/ Age(p)
      PROVE  LInv'
  <2>1. UNCHANGED <<people, req>>
    BY <1>6 DEF Scored, Age
  <2>2. QED
    BY <1>5, <2>1
<1>7. CASE UNCHANGED vars
  BY <1>5, <1>7 DEF vars, people
<1>8. QED
  BY <1>1, <1>2, <1>3, <1>4, <1>6, <1>7, IntakeKeepsLinks, LinkExpired DEF Next

LEMMA InitLinks == Init => LInv
<1>1. SUFFICES ASSUME Init PROVE LInv
  OBVIOUS
<1>2. link = <<>>
  BY <1>1 DEF Init
<1>3. req = [h \in Handlers |-> Idle]
  BY <1>1 DEF Init
<1>4. address = [e \in Addresses |-> "none"]
  BY <1>1 DEF Init
<1>5. /\ DOMAIN link = {} /\ \A h \in Handlers : req[h] = Idle
      /\ \A e \in Addresses : address[e] # "confirmed"
  BY <1>2, <1>3, <1>4
<1>6. QED
  BY <1>5, IdleTyped DEF LInv, Fresh, LinksApart

\* A link signs in once, however often it is followed at the same time, and an address
\* is confirmed only by an import that made its applicant or by one of its links.
THEOREM LinksProveAddresses == Spec => []LinksProve
<1>1. TInv /\ LInv /\ [Next]_vars => LInv'
  BY LinksKept, CaseworkAssumption
<1>2. LInv => LinksProve
  BY DEF LInv, Proved, LinksProve
<1>3. QED
  BY <1>1, <1>2, InitLinks, TypeInvariant, PTL DEF Spec

-----------------------------------------------------------------------------
(* The results: a stage's row is older than what any reviewer recorded or   *)
(* is recording, because it is inserted only by a snapshot that saw none.   *)

Unrelated == {"submit", "import", "ask", "follow", "review", "stage", "retention", "none"}

\* A reviewer's row is the latest of p's rows, if there is one.
Stands(p) ==
    (\E r \in results[p] : r.by = "reviewer") =>
        \E r \in results[p] : r.by = "reviewer" /\ \A s \in results[p] : s.at <= r.at

RowsOrdered(p) ==
    /\ \A s \in results[p] : s.at < clock
    /\ \A s, r \in results[p] : s.by = "stage" /\ r.by = "reviewer" => s.at < r.at

\* What a request that writes a row knows of the rows there are ...
Timely(r) ==
    /\ r.op \in {"check", "record"} => r.at < clock
    /\ r.op = "record" => /\ results[r.who] # {}
                          /\ \A s \in results[r.who] : s.by = "stage" => s.at < r.at
    /\ r.op = "check" /\ r.missing => \A s \in results[r.who] : s.by = "reviewer" => r.at < s.at

\* ... and of the rows other requests will write.
Precedes(r, s) ==
    r.op = "check" /\ r.missing /\ s.op = "record" /\ s.who = r.who => r.at < s.at

RInv ==
    /\ \A p \in Persons : RowsOrdered(p) /\ Stands(p)
    /\ \A h \in Handlers : Timely(req[h])
    /\ \A g, h \in Handlers : g # h => Precedes(req[g], req[h])

LEMMA ResultsQuiet ==
    ASSUME TInv, RInv, NEW h \in Handlers, Turns(h, Unrelated), UNCHANGED checks
    PROVE  RInv'
<1>1. results' = results /\ clock' = clock
  BY DEF checks
<1>2. CASE req' = req
  BY <1>1, <1>2 DEF RInv, RowsOrdered, Stands, Timely, Precedes
<1>3. CASE req' # req
  <2>1. PICK r \in Requests : Moves(h, r) /\ r.op \in Unrelated
    BY <1>3 DEF Turns
  <2>2. /\ req'[h] = r /\ r.op \notin {"check", "record"}
        /\ \A g \in Handlers : g # h => req'[g] = req[g]
    BY <2>1, Moved DEF TInv, Unrelated
  <2>3. \A p \in Persons : RowsOrdered(p)' /\ Stands(p)'
    BY <1>1 DEF RInv, RowsOrdered, Stands
  <2>4. \A g \in Handlers : Timely(req[g])'
    BY <1>1, <2>2 DEF RInv, Timely
  <2>5. \A g, k \in Handlers : g # k => Precedes(req[g], req[k])'
    BY <2>2 DEF RInv, Precedes
  <2>6. QED
    BY <2>3, <2>4, <2>5 DEF RInv
<1>4. QED
  BY <1>2, <1>3

\* Time passes with the request that read it.
LEMMA ClockTicks ==
    ASSUME TInv, RInv, NEW h \in Handlers, NEW r \in Requests, Moves(h, r),
           results' = results, clock' = clock + 1, Timely(r)',
           \A g \in Handlers : g # h => Precedes(r, req[g]) /\ Precedes(req[g], r)
    PROVE  RInv'
<1>1. req'[h] = r /\ \A g \in Handlers : g # h => req'[g] = req[g]
  BY Moved DEF TInv
<1>2. clock \in Nat /\ clock < clock'
  BY DEF TInv, StateTyped
<1>3. ASSUME NEW p \in Persons
      PROVE  RowsOrdered(p)' /\ Stands(p)'
  <2>1. RowsOrdered(p) /\ Stands(p) /\ results[p] \subseteq ResultRows
    BY DEF RInv, TInv, StateTyped
  <2>2. \A s \in results[p] : s.at \in Nat
    BY <2>1 DEF ResultRows
  <2>3. QED
    BY <1>2, <2>1, <2>2 DEF RowsOrdered, Stands
<1>4. ASSUME NEW g \in Handlers
      PROVE  Timely(req[g])'
  <2>1. CASE g = h
    BY <1>1, <2>1 DEF Timely
  <2>2. CASE g # h
    <3>1. Timely(req[g]) /\ req'[g] = req[g] /\ req[g].at \in Nat
      BY <1>1, <2>2 DEF RInv, TInv, Requests
    <3>2. QED
      BY <1>2, <3>1 DEF Timely
  <2>3. QED
    BY <2>1, <2>2
<1>5. \A g, k \in Handlers : g # k => Precedes(req[g], req[k])'
  BY <1>1 DEF RInv, Precedes
<1>6. QED
  BY <1>3, <1>4, <1>5 DEF RInv

LEMMA SnapshotKeepsResults ==
    ASSUME TInv, RInv, NEW h \in Handlers, NEW p \in Persons, CheckSnapshot(h, p)
    PROVE  RInv'
<1>1. results' = results /\ clock' = clock + 1 /\ clock \in Nat
  BY CheckShape DEF TInv, StateTyped
<1>2. PICK r \in Requests : /\ Moves(h, r) /\ r.op = "check" /\ r.who = p /\ r.at = clock
                            /\ r.missing => results[p] = {}
  BY CheckShape
<1>3. Timely(r)'
  BY <1>1, <1>2 DEF Timely
<1>4. ASSUME NEW g \in Handlers, g # h
      PROVE  Precedes(r, req[g]) /\ Precedes(req[g], r)
  BY <1>2 DEF Precedes, RInv, Timely
<1>5. QED
  BY <1>1, <1>2, <1>3, <1>4, ClockTicks

LEMMA RecordKeepsResults ==
    ASSUME TInv, RInv, NEW h \in Handlers, NEW p \in Persons, BeginRecord(h, p)
    PROVE  RInv'
<1>1. results' = results /\ clock' = clock + 1 /\ clock \in Nat /\ results[p] # {}
  BY RecordShape DEF TInv, StateTyped
<1>2. PICK r \in Requests : Moves(h, r) /\ r.op = "record" /\ r.who = p /\ r.at = clock
  BY RecordShape
<1>3. Timely(r)'
  BY <1>1, <1>2 DEF Timely, RInv, RowsOrdered
<1>4. ASSUME NEW g \in Handlers, g # h
      PROVE  Precedes(r, req[g]) /\ Precedes(req[g], r)
  BY <1>2 DEF Precedes, RInv, Timely
<1>5. QED
  BY <1>1, <1>2, <1>3, <1>4, ClockTicks

\* One row more: it is in time for the rows there are and the requests in flight.
LEMMA RowAdded ==
    ASSUME TInv, RInv, NEW h \in Handlers, Moves(h, Idle), clock' = clock,
           NEW p \in Persons, NEW row \in ResultRows,
           results' = [results EXCEPT ![p] = @ \cup {row}],
           row.at < clock,
           row.by = "stage" =>
               /\ \A s \in results[p] : s.by = "reviewer" => row.at < s.at
               /\ \A g \in Handlers : g # h /\ req[g].op = "record" /\ req[g].who = p =>
                      row.at < req[g].at,
           row.by = "reviewer" =>
               /\ \A s \in results[p] : s.by = "stage" => s.at < row.at
               /\ \A g \in Handlers :
                      g # h /\ req[g].op = "check" /\ req[g].missing /\ req[g].who = p =>
                          req[g].at < row.at
    PROVE  RInv'
<1>1. req'[h] = Idle /\ \A g \in Handlers : g # h => req'[g] = req[g]
  BY Moved, IdleTyped DEF TInv
<1>2. /\ results'[p] = results[p] \cup {row}
      /\ \A q \in Persons : q # p => results'[q] = results[q]
      /\ \A s \in results[p] \cup {row} : s.at \in Nat /\ s.by \in {"stage", "reviewer"}
      /\ clock \in Nat
  BY DEF TInv, StateTyped, ResultRows
<1>3. RowsOrdered(p)'
  BY <1>2 DEF RowsOrdered, RInv
<1>4. Stands(p)'
  <2>1. CASE row.by = "stage"
    <3>1. SUFFICES ASSUME \E r \in results[p] : r.by = "reviewer"
                   PROVE  \E r \in results[p] : /\ r.by = "reviewer"
                                                /\ \A s \in results[p] \cup {row} : s.at <= r.at
      BY <1>2, <2>1 DEF Stands
    <3>2. PICK r \in results[p] : r.by = "reviewer" /\ \A s \in results[p] : s.at <= r.at
      BY <3>1 DEF RInv, Stands
    <3>3. row.at < r.at
      BY <2>1, <3>2
    <3>4. QED
      BY <1>2, <3>2, <3>3
  <2>2. CASE row.by = "reviewer"
    <3>1. SUFFICES \E r \in results[p] \cup {row} :
                       r.by = "reviewer" /\ \A s \in results[p] \cup {row} : s.at <= r.at
      BY <1>2 DEF Stands
    <3>2. CASE \A s \in results[p] : s.at <= row.at
      BY <1>2, <2>2, <3>2
    <3>3. CASE ~ \A s \in results[p] : s.at <= row.at
      <4>1. PICK s \in results[p] : ~(s.at <= row.at)
        BY <3>3
      <4>2. s.by = "reviewer" /\ s.at > row.at
        BY <1>2, <2>2, <4>1
      <4>3. PICK r \in results[p] : r.by = "reviewer" /\ \A t \in results[p] : t.at <= r.at
        BY <4>2 DEF RInv, Stands
      <4>4. row.at <= r.at
        BY <1>2, <4>2, <4>3
      <4>5. QED
        BY <1>2, <4>3, <4>4
    <3>4. QED
      BY <3>2, <3>3
  <2>3. QED
    BY <1>2, <2>1, <2>2
<1>5. \A q \in Persons : RowsOrdered(q)' /\ Stands(q)'
  BY <1>2, <1>3, <1>4 DEF RInv, RowsOrdered, Stands
<1>6. ASSUME NEW g \in Handlers, g # h
      PROVE  Timely(req[g])'
  <2>1. Timely(req[g]) /\ req'[g] = req[g] /\ req[g] \in Requests /\ Names(req[g])
    BY <1>1, <1>6 DEF RInv, TInv
  <2>2. req[g].op \in {"check", "record"} => req[g].who \in Persons
    BY <2>1 DEF Names
  <2>3. CASE req[g].op = "check"
    <3>1. /\ req[g].at < clock /\ req[g].who \in Persons
          /\ req[g].missing => \A s \in results[req[g].who] : s.by = "reviewer" => req[g].at < s.at
      BY <2>1, <2>2, <2>3 DEF Timely
    <3>2. req[g].missing => \A s \in results'[req[g].who] : s.by = "reviewer" => req[g].at < s.at
      BY <1>2, <1>6, <2>3, <3>1
    <3>3. QED
      BY <2>1, <2>3, <3>1, <3>2 DEF Timely
  <2>4. CASE req[g].op = "record"
    <3>1. /\ req[g].at < clock /\ req[g].who \in Persons /\ results[req[g].who] # {}
          /\ \A s \in results[req[g].who] : s.by = "stage" => s.at < req[g].at
      BY <2>1, <2>2, <2>4 DEF Timely
    <3>2. /\ results'[req[g].who] # {}
          /\ \A s \in results'[req[g].who] : s.by = "stage" => s.at < req[g].at
      BY <1>2, <1>6, <2>4, <3>1
    <3>3. QED
      BY <2>1, <2>4, <3>1, <3>2 DEF Timely
  <2>5. CASE req[g].op \notin {"check", "record"}
    BY <2>1, <2>5 DEF Timely
  <2>6. QED
    BY <2>3, <2>4, <2>5
<1>7. Timely(req[h])'
  BY <1>1, IdleTyped DEF Timely
<1>8. \A g, k \in Handlers : g # k => Precedes(req[g], req[k])'
  BY <1>1, IdleTyped DEF RInv, Precedes
<1>9. QED
  BY <1>5, <1>6, <1>7, <1>8 DEF RInv

LEMMA InsertKeepsResults ==
    ASSUME TInv, RInv, NEW h \in Handlers, InsertCheck(h) \/ RecordVerification(h)
    PROVE  RInv'
<1>1. /\ UNCHANGED clock /\ Moves(h, Idle) /\ req[h].who \in Persons
      /\ \/ results' = results
         \/ \E row \in ResultRows :
               /\ results' = [results EXCEPT ![req[h].who] = @ \cup {row}]
               /\ row.at = req[h].at
               /\ \/ req[h].op = "check" /\ req[h].missing /\ row.by = "stage"
                  \/ req[h].op = "record" /\ row.by = "reviewer"
  BY ResultShape
<1>2. CASE results' = results
  BY <1>1, <1>2, IdleTurns, TurnsWider, ResultsQuiet DEF Unrelated, checks
<1>3. ASSUME NEW row \in ResultRows,
             results' = [results EXCEPT ![req[h].who] = @ \cup {row}], row.at = req[h].at,
             \/ req[h].op = "check" /\ req[h].missing /\ row.by = "stage"
             \/ req[h].op = "record" /\ row.by = "reviewer"
      PROVE  RInv'
  <2>1. row.at < clock
    BY <1>3 DEF RInv, Timely
  <2>2. PICK p \in Persons : p = req[h].who
    BY <1>1
  <2>3. row.by = "stage" =>
            /\ \A s \in results[p] : s.by = "reviewer" => row.at < s.at
            /\ \A g \in Handlers : g # h /\ req[g].op = "record" /\ req[g].who = p =>
                   row.at < req[g].at
    BY <1>3, <2>2 DEF RInv, Timely, Precedes
  <2>4. row.by = "reviewer" =>
            /\ \A s \in results[p] : s.by = "stage" => s.at < row.at
            /\ \A g \in Handlers :
                   g # h /\ req[g].op = "check" /\ req[g].missing /\ req[g].who = p =>
                       req[g].at < row.at
    BY <1>3, <2>2 DEF RInv, Timely, Precedes
  <2>5. results' = [results EXCEPT ![p] = @ \cup {row}]
    BY <1>3, <2>2
  <2>6. clock' = clock /\ Moves(h, Idle)
    BY <1>1
  <2>7. QED
    BY <2>1, <2>3, <2>4, <2>5, <2>6, RowAdded
<1>4. QED
  BY <1>1, <1>2, <1>3

LEMMA ResultsKept ==
    ASSUME TInv, RInv, CaseworkAssumption, [Next]_vars
    PROVE  RInv'
<1>1. ASSUME NEW h \in Handlers, Intake(h)
      PROVE  RInv'
  <2>1. UNCHANGED checks
    BY <1>1, IntakeTurns
  <2>2. CASE Turns(h, {"none", "submit", "import"}) \/ Turns(h, {"none"})
    BY <2>1, <2>2, TurnsWider, ResultsQuiet DEF Unrelated
  <2>3. ASSUME NEW n \in DOMAIN link, FollowLink(h, n)
        PROVE  RInv'
    <3>1. Turns(h, {"follow"})
      <4>1. CASE req' = req
        BY <4>1 DEF Turns
      <4>2. CASE req' # req
        BY <2>3, <4>2, FollowShape DEF Turns
      <4>3. QED
        BY <4>1, <4>2
    <3>2. QED
      BY <2>1, <3>1, TurnsWider, ResultsQuiet DEF Unrelated
  <2>4. QED
    BY <1>1, <2>2, <2>3, IntakeTurns
<1>2. ASSUME NEW h \in Handlers, Stages(h)
      PROVE  RInv'
  <2>1. CASE UNCHANGED checks /\ Turns(h, {"none", "stage"})
    BY <2>1, TurnsWider, ResultsQuiet DEF Unrelated
  <2>2. QED
    BY <1>2, <2>1, StagesTurns, InsertKeepsResults, SnapshotKeepsResults
<1>3. ASSUME NEW h \in Handlers, Reviewing(h)
      PROVE  RInv'
  <2>1. CASE UNCHANGED checks /\ Turns(h, {"none", "review"})
    BY <2>1, TurnsWider, ResultsQuiet DEF Unrelated
  <2>2. QED
    BY <1>3, <2>1, ReviewingTurns, InsertKeepsResults, RecordKeepsResults
<1>4. ASSUME NEW h \in Handlers, Retention(h)
      PROVE  RInv'
  BY <1>4, RetentionTurns, TurnsWider, ResultsQuiet DEF Unrelated
<1>5. ASSUME NEW h \in Handlers, Fails(h)
      PROVE  RInv'
  <2>1. UNCHANGED checks /\ Turns(h, {"none"})
    BY <1>5, IdleTurns DEF Fails, Ends, Becomes, Moves
  <2>2. QED
    BY <2>1, TurnsWider, ResultsQuiet DEF Unrelated
<1>6. ASSUME UNCHANGED <<checks, req>>
      PROVE  RInv'
  BY <1>6 DEF RInv, RowsOrdered, Stands, Timely, Precedes, checks
<1>7. ASSUME NEW n \in DOMAIN link, LinkExpires(n)
      PROVE  RInv'
  BY <1>6, <1>7 DEF LinkExpires
<1>8. ASSUME NEW p \in Persons, Scored(p) \/ Age(p)
      PROVE  RInv'
  <2>1. UNCHANGED <<checks, req>>
    BY <1>8 DEF Scored, Age
  <2>2. QED
    BY <1>6, <2>1
<1>9. CASE UNCHANGED vars
  BY <1>6, <1>9 DEF vars, checks
<1>10. QED
  BY <1>1, <1>2, <1>3, <1>4, <1>5, <1>7, <1>8, <1>9 DEF Next

LEMMA InitResults == Init => RInv
<1> SUFFICES ASSUME Init PROVE RInv
  OBVIOUS
<1>1. (\A p \in Persons : results[p] = {}) /\ \A h \in Handlers : req[h] = Idle
  BY DEF Init
<1>2. QED
  BY <1>1, IdleTyped DEF RInv, RowsOrdered, Stands, Timely, Precedes

\* Once a reviewer has recorded what the portal said, the latest row of the person is a
\* reviewer's: no run of the verification stage, however late it inserts, hides it.
THEOREM RecordedResultStands == Spec => []VerificationStands
<1>1. TInv /\ RInv /\ [Next]_vars => RInv'
  BY ResultsKept, CaseworkAssumption
<1>2. RInv => VerificationStands
  BY DEF RInv, Stands, VerificationStands
<1>3. QED
  BY <1>1, <1>2, InitResults, TypeInvariant, PTL DEF Spec

-----------------------------------------------------------------------------
(* The documents: every key is one document's or one upload's, so a purge   *)
(* removes no object but that of the document it is about to mark.          *)

Calm == {"import", "ask", "follow", "check", "record", "review", "stage", "none"}

\* What a person's document promises of the storage and of the application.
Filed(p) ==
    /\ app[p] = "none" => document[p].state = "none"
    /\ document[p].state # "none" => document[p].key \in 1..keys
    /\ document[p].state = "purged" => document[p].key \notin objects /\ app[p] \in Settled
    /\ document[p].state = "kept" /\ ~(app[p] \in Settled /\ aged[p]) =>
           document[p].key \in objects

KeysApart ==
    \A p, q \in Persons :
        p # q /\ document[p].state # "none" /\ document[q].state # "none" =>
            document[p].key # document[q].key

\* An upload that is not committed yet is stored under a key no document has; a purge
\* marks the document whose object it removed.
Uploaded(r) == r.op = "submit" /\ r.put
Kept(r) ==
    /\ Uploaded(r) =>
           /\ r.key \in 1..keys /\ r.key \in objects
           /\ \A p \in Persons : document[p].state # "none" => document[p].key # r.key
    /\ r.op = "retention" =>
           /\ \A p \in r.batch : document[p].state # "none"
           /\ r.who # None => r.who \in r.batch /\ document[r.who].key \notin objects
UploadsApart(r, s) == Uploaded(r) /\ Uploaded(s) => r.key # s.key

DInv ==
    /\ \A p \in Persons : Filed(p)
    /\ KeysApart
    /\ \A h \in Handlers : Kept(req[h])
    /\ \A g, h \in Handlers : g # h => UploadsApart(req[g], req[h])

LEMMA FilesMoved ==
    ASSUME TInv, DInv, NEW h \in Handlers, NEW r \in Requests, Moves(h, r),
           \A p \in Persons : Filed(p)', KeysApart', Kept(r)',
           \A g \in Handlers : g # h => Kept(req[g])',
           \A g \in Handlers : g # h => UploadsApart(r, req[g])
    PROVE  DInv'
<1>1. req'[h] = r /\ \A g \in Handlers : g # h => req'[g] = req[g]
  BY Moved DEF TInv
<1>2. \A g \in Handlers : Kept(req[g])'
  <2>1. Kept(req[h])'
    BY <1>1 DEF Kept, Uploaded
  <2>2. QED
    BY <2>1
<1>3. \A g, k \in Handlers : g # k => UploadsApart(req[g], req[k])'
  BY <1>1 DEF DInv, UploadsApart, Uploaded
<1>4. QED
  BY <1>2, <1>3 DEF DInv

\* How an application moves, whoever moves it: it is not withdrawn, and one that may be
\* purged stays so.
Onward ==
    \A p \in Persons :
        /\ app'[p] = "none" => app[p] = "none"
        /\ app[p] \in Settled => app'[p] \in Settled
        /\ app[p] \in Settled /\ aged[p] => aged'[p]

LEMMA OnwardWhenUnchanged == UNCHANGED cases => Onward
BY DEF cases, Onward

LEMMA DecidedOnward ==
    ASSUME TInv, CInv, NEW h \in Handlers, Decide(h)
    PROVE  Onward
<1>1. /\ req[h].op = "review" /\ req[h].who \in Persons
      /\ app' = [app EXCEPT ![req[h].who] = NextStatus(req[h].decision)]
      /\ aged' = [aged EXCEPT ![req[h].who] = FALSE]
      /\ req[h].decision \in Decisions
  BY DecideShape
<1>2. app[req[h].who] \notin Settled
  BY <1>1 DEF CInv, CaseHeld
<1>3. NextStatus(req[h].decision) # "none"
  BY <1>1, DecisionsSettle
<1>4. app \in [Persons -> Statuses] /\ aged \in [Persons -> BOOLEAN]
  BY DEF TInv, StateTyped
<1>5. QED
  BY <1>1, <1>2, <1>3, <1>4 DEF Onward

LEMMA SubmittedOnward ==
    ASSUME TInv, CInv, CaseworkAssumption, NEW h \in Handlers,
           CommitSubmission(h) \/ CommitImport(h)
    PROVE  Onward
<1>1. app \in [Persons -> Statuses]
  BY DEF TInv, StateTyped
<1>2. CASE CommitSubmission(h)
  <2>1. /\ app' = [app EXCEPT ![req[h].who] = "submitted"] /\ aged' = aged
        /\ app[req[h].who] = "none"
    BY <1>2, CommitShape DEF CInv, CaseHeld
  <2>2. QED
    BY <1>1, <2>1 DEF Onward, Settled
<1>3. CASE CommitImport(h)
  <2>1. /\ \A p \in Persons : app'[p] = IF p \in req[h].new THEN "submitted" ELSE app[p]
        /\ aged' = aged /\ \A p \in req[h].new : app[p] = "none"
    BY <1>3 DEF CommitImport, CInv, CaseHeld
  <2>2. QED
    BY <2>1 DEF Onward, Settled
<1>4. QED
  BY <1>2, <1>3

\* The files stay: what was said of the documents and by the requests stays true.
LEMMA FilesStay ==
    ASSUME TInv, DInv, UNCHANGED files, Onward
    PROVE  /\ \A p \in Persons : Filed(p)'
           /\ KeysApart'
           /\ \A g \in Handlers : Kept(req[g]) /\ req'[g] = req[g] => Kept(req[g])'
           /\ \A r \in Requests : Kept(r) => Kept(r)'
<1>1. document' = document /\ objects' = objects /\ keys' = keys
  BY DEF files
<1>2. \A p \in Persons : Filed(p)'
  BY <1>1 DEF DInv, Filed, Onward
<1>3. KeysApart'
  BY <1>1 DEF DInv, KeysApart
<1>4. \A r \in Requests : Kept(r) => Kept(r)'
  BY <1>1 DEF Kept
<1>5. \A g \in Handlers : Kept(req[g]) /\ req'[g] = req[g] => Kept(req[g])'
  BY <1>1 DEF Kept, Uploaded
<1>6. QED
  BY <1>2, <1>3, <1>4, <1>5

LEMMA FilesSame ==
    ASSUME TInv, DInv, UNCHANGED files, Onward, req' = req
    PROVE  DInv'
<1>1. \A g \in Handlers : Kept(req[g])'
  BY FilesStay DEF DInv
<1>2. \A g, k \in Handlers : g # k => UploadsApart(req[g], req[k])'
  BY DEF DInv, UploadsApart, Uploaded
<1>3. QED
  BY <1>1, <1>2, FilesStay DEF DInv

LEMMA FilesQuiet ==
    ASSUME TInv, DInv, UNCHANGED files, Onward, NEW h \in Handlers, NEW r \in Requests,
           Moves(h, r), Kept(r), ~Uploaded(r)
    PROVE  DInv'
<1>1. \A g \in Handlers : g # h => req'[g] = req[g] /\ Kept(req[g])
  BY Moved DEF TInv, DInv
<1>2. \A g \in Handlers : g # h => Kept(req[g])'
  BY <1>1, FilesStay
<1>3. Kept(r)'
  BY FilesStay
<1>4. \A g \in Handlers : UploadsApart(r, req[g])
  BY DEF UploadsApart
<1>5. QED
  BY <1>2, <1>3, <1>4, FilesStay, FilesMoved

LEMMA FilesCalm ==
    ASSUME TInv, DInv, UNCHANGED files, Onward, NEW h \in Handlers, Turns(h, Calm)
    PROVE  DInv'
<1>1. CASE req' = req
  BY <1>1, FilesSame
<1>2. CASE req' # req
  <2>1. PICK r \in Requests : Moves(h, r) /\ r.op \in Calm
    BY <1>2 DEF Turns
  <2>2. Kept(r) /\ ~Uploaded(r)
    BY <2>1 DEF Kept, Uploaded, Calm
  <2>3. QED
    BY <2>1, <2>2, FilesQuiet
<1>3. QED
  BY <1>1, <1>2

\* An object is stored under a new key, before any row points at it.
LEMMA PutKeepsFiles ==
    ASSUME TInv, CInv, DInv, NEW h \in Handlers, PutCertificate(h)
    PROVE  DInv'
<1>1. /\ UNCHANGED <<people, cases, document, checks, left>> /\ keys' = keys + 1
      /\ objects' = objects \cup {keys'} /\ keys \in Nat
  BY PutShape DEF TInv, StateTyped
<1>2. PICK r \in Requests : Moves(h, r) /\ r.op = "submit" /\ r.put /\ r.key = keys'
  BY PutShape
<1>3. 1..keys \subseteq 1..keys' /\ keys' \notin 1..keys /\ keys' \in 1..keys'
  BY <1>1
<1>4. UNCHANGED <<app, aged, document>>
  BY <1>1 DEF cases
<1>5. \A p \in Persons : Filed(p)'
  BY <1>1, <1>3, <1>4 DEF DInv, Filed
<1>6. KeysApart'
  BY <1>4 DEF DInv, KeysApart
<1>7. \A p \in Persons : document[p].state # "none" => document[p].key # keys'
  BY <1>3 DEF DInv, Filed
<1>8. Kept(r)'
  BY <1>1, <1>2, <1>3, <1>4, <1>7 DEF Kept, Uploaded
<1>9. ASSUME NEW g \in Handlers, g # h
      PROVE  Kept(req[g])' /\ UploadsApart(r, req[g])
  <2>1. req'[g] = req[g] /\ Kept(req[g]) /\ req[g] \in Requests
    BY <1>2, <1>9, Moved DEF DInv, TInv
  <2>2. req[g].op = "retention" /\ req[g].who # None => document[req[g].who].key \in 1..keys
    <3>1. req[g].batch \subseteq Persons
      BY <2>1 DEF Requests
    <3>2. QED
      BY <2>1, <3>1 DEF Kept, DInv, Filed
  <2>3. Kept(req[g])'
    BY <1>1, <1>3, <1>4, <2>1, <2>2 DEF Kept, Uploaded
  <2>4. UploadsApart(r, req[g])
    BY <1>2, <1>3, <2>1 DEF UploadsApart, Uploaded, Kept
  <2>5. QED
    BY <2>3, <2>4
<1>10. QED
  BY <1>2, <1>5, <1>6, <1>8, <1>9, FilesMoved

\* The commit of a submission points the person's row at the object it stored.
LEMMA CommitKeepsFiles ==
    ASSUME TInv, CInv, DInv, CaseworkAssumption, NEW h \in Handlers, CommitSubmission(h)
    PROVE  DInv'
<1> DEFINE k == req[h].key
<1>1. PICK q \in Persons : q = req[h].who
  BY CommitShape
<1>2. /\ req[h].op = "submit" /\ req[h].put /\ Moves(h, Idle)
      /\ objects' = objects /\ keys' = keys /\ aged' = aged
      /\ app' = [app EXCEPT ![q] = "submitted"]
  BY <1>1, CommitShape
<1>3. PICK row \in DocumentRows : /\ document' = [document EXCEPT ![q] = row]
                                  /\ row.state = "kept" /\ row.key = k
  BY <1>1, CommitShape
<1>4. /\ k \in 1..keys /\ k \in objects
      /\ \A p \in Persons : document[p].state # "none" => document[p].key # k
  BY <1>2 DEF DInv, Kept, Uploaded
<1>5. app[q] = "none" /\ document[q].state = "none"
  BY <1>1, <1>2 DEF CInv, CaseHeld, DInv, Filed
<1>6. /\ document'[q] = row /\ app'[q] = "submitted"
      /\ \A p \in Persons : p # q => document'[p] = document[p] /\ app'[p] = app[p]
  BY <1>2, <1>3 DEF TInv, StateTyped
<1> HIDE DEF k
<1>7. \A p \in Persons : Filed(p)'
  BY <1>2, <1>3, <1>4, <1>6 DEF DInv, Filed
<1>8. KeysApart'
  BY <1>3, <1>4, <1>6 DEF DInv, KeysApart
<1>9. Kept(Idle)' /\ \A g \in Handlers : UploadsApart(Idle, req[g])
  BY IdleTyped DEF Kept, Uploaded, UploadsApart
<1>10. ASSUME NEW g \in Handlers, g # h
       PROVE  Kept(req[g])'
  <2>1. req'[g] = req[g] /\ Kept(req[g]) /\ req[g] \in Requests
    BY <1>2, <1>10, Moved, IdleTyped DEF DInv, TInv
  <2>2. CASE Uploaded(req[g])
    <3>1. req[g].key # k
      BY <1>2, <1>10, <2>2 DEF DInv, UploadsApart, Uploaded, k
    <3>2. QED
      BY <1>2, <1>3, <1>6, <2>1, <2>2, <3>1 DEF Kept, Uploaded
  <2>3. CASE req[g].op = "retention"
    <3>1. req[g].batch \subseteq Persons
      BY <2>1 DEF Requests
    <3>2. q \notin req[g].batch
      BY <1>5, <2>1, <2>3 DEF Kept
    <3>3. \A p \in req[g].batch : document'[p] = document[p]
      BY <1>6, <3>1, <3>2
    <3>4. QED
      BY <1>2, <2>1, <2>3, <3>3 DEF Kept, Uploaded
  <2>4. CASE ~Uploaded(req[g]) /\ req[g].op # "retention"
    BY <2>1, <2>4 DEF Kept, Uploaded
  <2>5. QED
    BY <2>2, <2>3, <2>4
<1>11. QED
  BY <1>2, <1>7, <1>8, <1>9, <1>10, IdleTyped, FilesMoved

\* A document's row changes, not its key nor whether there is one.
LEMMA RowChanged ==
    ASSUME TInv, DInv, UNCHANGED <<cases, objects, keys>>,
           NEW q \in Persons, NEW row \in DocumentRows,
           document' = [document EXCEPT ![q] = row],
           row.key = document[q].key, document[q].state # "none", row.state # "none",
           row.state # document[q].state =>
               /\ row.state = "purged" /\ app[q] \in Settled
               /\ document[q].key \notin objects
    PROVE  /\ \A p \in Persons : Filed(p)'
           /\ KeysApart'
           /\ \A r \in Requests : Kept(r) => Kept(r)'
           /\ \A g \in Handlers : Kept(req[g]) /\ req'[g] = req[g] => Kept(req[g])'
<1>1. /\ document'[q] = row /\ \A p \in Persons : p # q => document'[p] = document[p]
      /\ objects' = objects /\ keys' = keys /\ app' = app /\ aged' = aged
  BY DEF TInv, StateTyped, cases
<1>2. \A p \in Persons : Filed(p)'
  BY <1>1 DEF DInv, Filed
<1>3. \A p \in Persons : /\ document'[p].key = document[p].key
                         /\ document'[p].state # "none" <=> document[p].state # "none"
  BY <1>1
<1>4. KeysApart'
  BY <1>3 DEF DInv, KeysApart
<1>5. ASSUME NEW r \in Requests, Kept(r)
      PROVE  Kept(r)'
  <2>1. r.batch \subseteq Persons
    BY DEF Requests
  <2>2. CASE Uploaded(r)
    BY <1>1, <1>3, <1>5, <2>2 DEF Kept, Uploaded
  <2>3. CASE r.op = "retention"
    BY <1>1, <1>3, <1>5, <2>1, <2>3 DEF Kept, Uploaded
  <2>4. CASE ~Uploaded(r) /\ r.op # "retention"
    BY <1>5, <2>4 DEF Kept, Uploaded
  <2>5. QED
    BY <2>2, <2>3, <2>4
<1>6. ASSUME NEW g \in Handlers, Kept(req[g]), req'[g] = req[g]
      PROVE  Kept(req[g])'
  <2>1. PICK r \in Requests : r = req[g]
    BY DEF TInv
  <2>2. Kept(r)' /\ req'[g] = r
    BY <1>5, <1>6, <2>1
  <2>3. QED
    BY <2>2 DEF Kept, Uploaded
<1>7. QED
  BY <1>2, <1>4, <1>5, <1>6

LEMMA StoreKeepsFiles ==
    ASSUME TInv, DInv, NEW h \in Handlers, StoreReading(h)
    PROVE  DInv'
<1>1. PICK q \in Persons : q = req[h].who
  BY StoreShape
<1>2. PICK row \in DocumentRows : /\ document' = [document EXCEPT ![q] = row]
                                  /\ row.state = document[q].state /\ row.key = document[q].key
  BY <1>1, StoreShape
<1>3. UNCHANGED <<cases, objects, keys>> /\ Moves(h, Idle)
  BY StoreShape
<1>4. Kept(Idle) /\ Kept(Idle)' /\ \A g \in Handlers : UploadsApart(Idle, req[g])
  BY IdleTyped DEF Kept, Uploaded, UploadsApart
<1>5. \A g \in Handlers : g # h => req'[g] = req[g] /\ Kept(req[g])
  BY <1>3, Moved, IdleTyped DEF DInv, TInv
<1>6. CASE document[q].state # "none"
  <2>1. /\ \A p \in Persons : Filed(p)'
        /\ KeysApart'
        /\ \A g \in Handlers : Kept(req[g]) /\ req'[g] = req[g] => Kept(req[g])'
    BY <1>2, <1>3, <1>6, RowChanged
  <2>2. QED
    BY <1>3, <1>4, <1>5, <2>1, IdleTyped, FilesMoved
<1>7. CASE document[q].state = "none"
  <2>1. \A p \in Persons : /\ document'[p].state = document[p].state
                           /\ document'[p].key = document[p].key
    BY <1>2 DEF TInv, StateTyped
  <2>2. objects' = objects /\ keys' = keys /\ app' = app /\ aged' = aged
    BY <1>3 DEF cases
  <2>3. (\A p \in Persons : Filed(p)') /\ KeysApart'
    BY <2>1, <2>2 DEF DInv, Filed, KeysApart
  <2>4. ASSUME NEW g \in Handlers, g # h
        PROVE  Kept(req[g])'
    <3>1. req'[g] = req[g] /\ Kept(req[g]) /\ req[g].batch \subseteq Persons
      BY <1>5, <2>4 DEF TInv, Requests
    <3>2. QED
      BY <2>1, <2>2, <3>1 DEF Kept, Uploaded
  <2>5. QED
    BY <1>3, <1>4, <2>3, <2>4, IdleTyped, FilesMoved
<1>8. QED
  BY <1>6, <1>7

\* The object of a document that may be purged goes; no other document has its key.
LEMMA RemoveKeepsFiles ==
    ASSUME TInv, CInv, DInv, NEW h \in Handlers, NEW p \in Persons, RemoveObject(h, p)
    PROVE  DInv'
<1>1. /\ UNCHANGED <<cases, document, keys>>
      /\ req[h].op = "retention" /\ req[h].who = None /\ p \in req[h].batch
  BY RemoveShape
<1>2. PICK r \in Requests :
          /\ Moves(h, r) /\ r.op = "retention" /\ r.batch \subseteq req[h].batch
          /\ \/ objects' = objects \ {document[p].key} /\ r.who = p /\ r.batch = req[h].batch
             \/ objects' = objects /\ r.who = None
  BY RemoveShape
<1>3. \A q \in req[h].batch : document[q].state # "none"
  BY <1>1 DEF DInv, Kept
<1>4. app[p] \in Settled /\ aged[p] /\ document[p].state # "none"
  BY <1>1, <1>3 DEF CInv, CaseHeld
<1>5. CASE objects' = objects
  <2>1. Kept(r) /\ ~Uploaded(r)
    <3>1. CASE r.who = None
      BY <1>2, <1>3, <3>1 DEF Kept, Uploaded
    <3>2. CASE r.who = p
      BY <1>1, <1>2, <1>3, <1>5, <3>2 DEF Kept, Uploaded
    <3>3. QED
      BY <1>2, <3>1, <3>2
  <2>2. QED
    BY <1>1, <1>2, <1>5, <2>1, OnwardWhenUnchanged, FilesQuiet DEF files
<1>6. CASE objects' = objects \ {document[p].key} /\ r.who = p /\ r.batch = req[h].batch
  <2>1. UNCHANGED <<app, aged, document, keys>>
    BY <1>1 DEF cases
  <2>2. \A q \in Persons : Filed(q)'
    BY <1>4, <1>6, <2>1 DEF DInv, Filed, KeysApart
  <2>3. KeysApart'
    BY <2>1 DEF DInv, KeysApart
  <2>4. Kept(r)'
    BY <1>1, <1>2, <1>3, <1>6, <2>1 DEF Kept, Uploaded
  <2>5. ASSUME NEW g \in Handlers, g # h
        PROVE  Kept(req[g])' /\ UploadsApart(r, req[g])
    <3>1. req'[g] = req[g] /\ Kept(req[g])
      BY <1>2, <2>5, Moved DEF DInv, TInv
    <3>2. Uploaded(req[g]) => req[g].key # document[p].key
      BY <1>4, <3>1 DEF Kept
    <3>3. Kept(req[g])'
      BY <1>6, <2>1, <3>1, <3>2 DEF Kept, Uploaded
    <3>4. QED
      BY <1>2, <3>3 DEF UploadsApart, Uploaded
  <2>6. QED
    BY <1>2, <2>2, <2>3, <2>4, <2>5, FilesMoved
<1>7. QED
  BY <1>2, <1>5, <1>6

LEMMA MarkKeepsFiles ==
    ASSUME TInv, CInv, DInv, NEW h \in Handlers, MarkPurged(h)
    PROVE  DInv'
<1>1. PICK q \in Persons : q = req[h].who
  BY MarkShape
<1>2. PICK row \in DocumentRows : /\ document' = [document EXCEPT ![q] = row]
                                  /\ row.state = "purged" /\ row.key = document[q].key
  BY <1>1, MarkShape
<1>3. PICK r \in Requests : /\ Moves(h, r) /\ r.op = "retention" /\ r.who = None
                            /\ r.batch \subseteq req[h].batch
  BY MarkShape
<1>4. UNCHANGED <<cases, objects, keys>> /\ req[h].op = "retention" /\ q # None
  BY <1>1, MarkShape, CaseworkAssumption DEF CaseworkAssumption
<1>5. q \in req[h].batch /\ document[q].key \notin objects
      /\ \A p \in req[h].batch : document[p].state # "none"
  BY <1>1, <1>4 DEF DInv, Kept
<1>6. app[q] \in Settled
  BY <1>4, <1>5 DEF CInv, CaseHeld
<1>7. /\ \A p \in Persons : Filed(p)'
      /\ KeysApart'
      /\ \A s \in Requests : Kept(s) => Kept(s)'
      /\ \A g \in Handlers : Kept(req[g]) /\ req'[g] = req[g] => Kept(req[g])'
  BY <1>2, <1>4, <1>5, <1>6, RowChanged
<1>8. Kept(r) /\ \A g \in Handlers : UploadsApart(r, req[g])
  BY <1>3, <1>5 DEF Kept, Uploaded, UploadsApart
<1>9. \A g \in Handlers : g # h => req'[g] = req[g] /\ Kept(req[g])
  BY <1>3, Moved DEF DInv, TInv
<1>10. QED
  BY <1>3, <1>7, <1>8, <1>9, FilesMoved

LEMMA SubmitKeepsFiles ==
    ASSUME TInv, DInv, CaseworkAssumption, NEW h \in Handlers, NEW p \in Persons, Submit(h, p)
    PROVE  DInv'
<1>1. UNCHANGED files /\ Onward
  BY SubmitShape, OnwardWhenUnchanged DEF State
<1>2. CASE req' = req
  BY <1>1, <1>2, FilesSame
<1>3. CASE req' # req
  <2>1. PICK r \in Requests : Moves(h, r) /\ r.op = "submit" /\ ~r.put
    BY <1>3, SubmitShape
  <2>2. Kept(r) /\ ~Uploaded(r)
    BY <2>1 DEF Kept, Uploaded
  <2>3. QED
    BY <1>1, <2>1, <2>2, FilesQuiet
<1>4. QED
  BY <1>2, <1>3

LEMMA IntakeKeepsFiles ==
    ASSUME TInv, CInv, DInv, CaseworkAssumption, NEW h \in Handlers, Intake(h)
    PROVE  DInv'
<1>1. ASSUME NEW file \in Files, Import(h, file)
      PROVE  DInv'
  <2>1. UNCHANGED files /\ Onward /\ Turns(h, {"import"})
    BY <1>1, ImportShape, OnwardWhenUnchanged DEF State, Turns
  <2>2. QED
    BY <2>1, TurnsWider, FilesCalm DEF Calm
<1>2. CASE ImportRow(h)
  <2>1. UNCHANGED files /\ Onward
    BY <1>2, ImportRowShape, OnwardWhenUnchanged DEF State
  <2>2. Turns(h, Calm)
    <3>1. CASE Moves(h, Idle)
      BY <3>1, IdleTurns, TurnsWider DEF Calm
    <3>2. CASE ~Moves(h, Idle)
      BY <1>2, <3>2, ImportRowShape DEF Turns, Calm
    <3>3. QED
      BY <3>1, <3>2
  <2>3. QED
    BY <2>1, <2>2, FilesCalm
<1>3. CASE CommitImport(h)
  <2>1. UNCHANGED files /\ Turns(h, {"none"})
    BY <1>3, IdleTurns DEF CommitImport, Ends, Becomes, Moves
  <2>2. QED
    BY <1>3, <2>1, SubmittedOnward, TurnsWider, FilesCalm DEF Calm
<1>4. CASE UseLink(h)
  <2>1. UNCHANGED files /\ Onward /\ Turns(h, {"none"})
    BY <1>4, UseShape, IdleTurns, OnwardWhenUnchanged
  <2>2. QED
    BY <2>1, TurnsWider, FilesCalm DEF Calm
<1>5. ASSUME NEW e \in Addresses, RequestLink(h, e)
      PROVE  DInv'
  BY <1>5, OnwardWhenUnchanged, FilesSame DEF RequestLink
<1>6. ASSUME NEW n \in DOMAIN link, FollowLink(h, n)
      PROVE  DInv'
  <2>1. UNCHANGED files /\ Onward
    BY <1>6, FollowShape, OnwardWhenUnchanged DEF State
  <2>2. Turns(h, {"follow"})
    <3>1. CASE req' = req
      BY <3>1 DEF Turns
    <3>2. CASE req' # req
      BY <1>6, <3>2, FollowShape DEF Turns
    <3>3. QED
      BY <3>1, <3>2
  <2>3. QED
    BY <2>1, <2>2, TurnsWider, FilesCalm DEF Calm
<1>7. QED
  BY <1>1, <1>2, <1>3, <1>4, <1>5, <1>6, SubmitKeepsFiles, PutKeepsFiles, CommitKeepsFiles
     DEF Intake

LEMMA StagesKeepFiles ==
    ASSUME TInv, DInv, NEW h \in Handlers, Stages(h)
    PROVE  DInv'
<1>1. ASSUME NEW p \in Persons, NEW k \in {"fields", "forensics"}, ReadObject(h, p, k)
      PROVE  DInv'
  <2>1. UNCHANGED files /\ Onward
    BY <1>1, ReadObjectShape, OnwardWhenUnchanged DEF State
  <2>2. req' = req \/ Opens(h, "stage", p)
    BY <1>1, ReadObjectShape
  <2>3. Turns(h, {"stage"})
    BY <2>2 DEF Turns, Opens
  <2>4. QED
    BY <2>1, <2>3, TurnsWider, FilesCalm DEF Calm
<1>2. CASE InsertCheck(h)
  <2>1. UNCHANGED files /\ Onward /\ Turns(h, {"none"})
    BY <1>2, ResultShape, IdleTurns, OnwardWhenUnchanged
  <2>2. QED
    BY <2>1, TurnsWider, FilesCalm DEF Calm
<1>3. ASSUME NEW p \in Persons, CheckSnapshot(h, p)
      PROVE  DInv'
  <2>1. UNCHANGED files /\ Onward /\ Turns(h, {"check"})
    BY <1>3, CheckShape, OnwardWhenUnchanged DEF Turns
  <2>2. QED
    BY <2>1, TurnsWider, FilesCalm DEF Calm
<1>4. QED
  BY <1>1, <1>2, <1>3, StoreKeepsFiles DEF Stages

LEMMA ReviewingKeepsFiles ==
    ASSUME TInv, CInv, DInv, NEW h \in Handlers, Reviewing(h)
    PROVE  DInv'
<1>1. ASSUME NEW p \in Persons, NEW d \in Decisions, LockCase(h, p, d)
      PROVE  DInv'
  <2>1. UNCHANGED files /\ Onward
    BY <1>1, LockCaseShape, OnwardWhenUnchanged DEF State
  <2>2. req' = req \/ Opens(h, "review", p)
    BY <1>1, LockCaseMoves
  <2>3. Turns(h, {"review"})
    BY <2>2 DEF Turns, Opens
  <2>4. QED
    BY <2>1, <2>3, TurnsWider, FilesCalm DEF Calm
<1>2. CASE Decide(h)
  <2>1. UNCHANGED files /\ Turns(h, {"none"}) /\ Onward
    BY <1>2, DecideShape, IdleTurns, DecidedOnward
  <2>2. QED
    BY <2>1, TurnsWider, FilesCalm DEF Calm
<1>3. CASE RecordVerification(h)
  <2>1. UNCHANGED files /\ Onward /\ Turns(h, {"none"})
    BY <1>3, ResultShape, IdleTurns, OnwardWhenUnchanged
  <2>2. QED
    BY <2>1, TurnsWider, FilesCalm DEF Calm
<1>4. ASSUME NEW p \in Persons, BeginRecord(h, p)
      PROVE  DInv'
  <2>1. UNCHANGED files /\ Onward /\ Turns(h, {"record"})
    BY <1>4, RecordShape, OnwardWhenUnchanged DEF Turns
  <2>2. QED
    BY <2>1, TurnsWider, FilesCalm DEF Calm
<1>5. QED
  BY <1>1, <1>2, <1>3, <1>4 DEF Reviewing

LEMMA RetentionKeepsFiles ==
    ASSUME TInv, CInv, DInv, NEW h \in Handlers, Retention(h)
    PROVE  DInv'
<1>1. CASE SelectPurgeable(h)
  <2>1. UNCHANGED files /\ Onward
    BY <1>1, SelectShape, OnwardWhenUnchanged DEF State
  <2>2. PICK r \in Requests :
            /\ Moves(h, r) /\ r.op = "retention" /\ r.who = None
            /\ r.batch \subseteq {p \in Persons : Purgeable(p)}
    BY <1>1, SelectShape
  <2>3. Kept(r) /\ ~Uploaded(r)
    BY <2>2 DEF Kept, Uploaded, Purgeable
  <2>4. QED
    BY <2>1, <2>2, <2>3, FilesQuiet
<1>2. CASE RetentionEnds(h)
  <2>1. UNCHANGED files /\ Onward /\ Turns(h, {"none"})
    BY <1>2, IdleTurns, OnwardWhenUnchanged DEF RetentionEnds, Ends, Becomes, Moves
  <2>2. QED
    BY <2>1, TurnsWider, FilesCalm DEF Calm
<1>3. QED
  BY <1>1, <1>2, RemoveKeepsFiles, MarkKeepsFiles DEF Retention

LEMMA FilesKept ==
    ASSUME TInv, CInv, DInv, CaseworkAssumption, [Next]_vars
    PROVE  DInv'
<1>1. ASSUME NEW h \in Handlers, Fails(h)
      PROVE  DInv'
  <2>1. UNCHANGED files /\ Onward /\ Turns(h, {"none"})
    BY <1>1, IdleTurns, OnwardWhenUnchanged DEF Fails, Ends, Becomes, Moves
  <2>2. QED
    BY <2>1, TurnsWider, FilesCalm DEF Calm
<1>2. ASSUME NEW n \in DOMAIN link, LinkExpires(n)
      PROVE  DInv'
  BY <1>2, OnwardWhenUnchanged, FilesSame DEF LinkExpires
<1>3. ASSUME NEW p \in Persons, Scored(p) \/ Age(p)
      PROVE  DInv'
  <2>1. UNCHANGED files /\ req' = req
    BY <1>3 DEF Scored, Age
  <2>2. app \in [Persons -> Statuses] /\ aged \in [Persons -> BOOLEAN]
    BY DEF TInv, StateTyped
  <2>3. Onward
    BY <1>3, <2>2 DEF Scored, Age, Onward, Settled
  <2>4. QED
    BY <2>1, <2>3, FilesSame
<1>4. CASE UNCHANGED vars
  BY <1>4, OnwardWhenUnchanged, FilesSame DEF vars, cases, files
<1>5. QED
  BY <1>1, <1>2, <1>3, <1>4, IntakeKeepsFiles, StagesKeepFiles, ReviewingKeepsFiles,
     RetentionKeepsFiles DEF Next

LEMMA InitFiles == Init => DInv
<1> SUFFICES ASSUME Init PROVE DInv
  OBVIOUS
<1>1. \A p \in Persons : app[p] = "none" /\ document[p].state = "none"
  BY DEF Init, NoDocument
<1>2. \A h \in Handlers : req[h] = Idle
  BY DEF Init
<1>3. QED
  BY <1>1, <1>2, IdleTyped DEF DInv, Filed, KeysApart, Kept, Uploaded, UploadsApart

\* A document said to be purged is gone and its application settled; any other is in the
\* storage until the window after the decision has passed, whatever fails in between.
THEOREM DocumentsStayHonest == Spec => []DocumentsHonest
<1>1. TInv /\ CInv /\ DInv /\ [Next]_vars => DInv'
  BY FilesKept, CaseworkAssumption
<1>2. DInv => DocumentsHonest
  BY DEF DInv, Filed, DocumentsHonest
<1>3. QED
  BY <1>1, <1>2, InitFiles, CaseInvariant, PTL DEF Spec
=============================================================================
