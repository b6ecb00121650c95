------------------------------ MODULE Scoring ------------------------------
(***************************************************************************)
(* scoreApplications (apps/api/src/household/service.ts): an evaluation of *)
(* the whole cycle is written application by application, each in its own  *)
(* transaction, for the applications that were asked for and for those     *)
(* whose stored flags or score it contradicts.  Meanwhile documents are    *)
(* read, results are recorded, merges rejected, applications trashed and   *)
(* new rule versions deployed.                                             *)
(*                                                                         *)
(* Runs on one cycle exclude each other (CycleEngine), so there is one run *)
(* at a time here; what CycleEngine calls a finding is spelled out.        *)
(***************************************************************************)
EXTENDS Rules

CONSTANTS
    Apps,           \* the confirmed applications of the cycle
    Populations,    \* [form, sim, cert, readings]: what they declare, how similar they are,
                    \* what was read of their certificates before they were confirmed and
                    \* what OCR and forensics may read of the others
    Configs,        \* the rule configurations, oldest first
    NotRunning,
    MaxChanges      \* how many inputs change

ASSUME ScoringAssumption ==
    /\ IsFiniteSet(Apps)
    /\ Len(Configs) \in Nat \ {0} /\ MaxChanges \in Nat /\ NotRunning \notin Nat
    /\ \A p \in Populations :
          /\ DOMAIN p.cert = Apps
          /\ \A a \in Apps : p.form[a].income \in Nat
          /\ \A a \in Apps : p.form[a].number # None => p.form[a].number.value \in Nat
          /\ \A a \in Apps : \A b \in Apps \ {a} : p.sim[{a, b}] \in [MatchFields -> 0..One]
    \* Every published configuration asks for corroboration; the check against the
    \* government record exists, enabled, since the third.
    /\ \A v \in 1..Len(Configs) :
          /\ Configs[v].requiresCorroboration
          /\ "GOVERNMENT_RECORD_MISMATCH" \in Configs[v].enabled
          /\ Configs[v].tolerancePercent \in Nat /\ Configs[v].toleranceAbsolute \in Nat
          /\ Configs[v].maxSerialSpan \in Nat /\ Configs[v].minDistinctHouseholds \in Nat

VARIABLES
    given,       \* the population: forms and similarities
    rejected,    \* the edges <<pair, field>> a reviewer rejected
    trashed,     \* applications taken out of the population
    cert,        \* cert[a]: what was read of the certificate of a, or None
    verdict,     \* verdict[a]: the latest recorded result, or None
    version,     \* the active configuration
    flags,       \* flags[a]: the rows of risk_flags
    score,       \* score[a]: applications.risk_score
    run,         \* the run in progress, or NotRunning
    scored,      \* the changes the last complete run had seen, or NotRunning
    changes      \* how many inputs have changed

inputs == <<given, rejected, trashed, cert, verdict, version>>
stored == <<flags, score>>
vars == <<inputs, stored, run, scored, changes>>

Population == Apps \ trashed

\* Two applications are joined while a field that links them has not been rejected.
Joined(a, b) ==
    /\ Linked(given.sim[{a, b}])
    /\ \E f \in MatchedBy(given.sim[{a, b}]) : <<{a, b}, f>> \notin rejected

Household(a) ==
    LET closed == {S \in SUBSET Population : \A x \in S, y \in Population \ S : ~Joined(x, y)}
    IN {b \in Population : \A S \in closed : a \in S => b \in S}

\* What an evaluation reads, as one step (a run that reads while an input changes is not
\* the last, see Settled): the population, its households and the configuration.
Cycle ==
    [apps |-> [a \in Population |-> [form |-> given.form[a], cert |-> cert[a], verdict |-> verdict[a]]],
     components |-> {Household(a) : a \in Population},
     sim |-> given.sim,
     cfg |-> Configs[version]]

Init ==
    /\ given \in Populations
    /\ rejected = {} /\ trashed = {}
    /\ cert = given.cert
    /\ verdict = [a \in Apps |-> None]
    /\ version = 1
    /\ flags = [a \in Apps |-> {}]
    /\ score = [a \in Apps |-> 0]
    /\ run = NotRunning /\ scored = NotRunning
    /\ changes = 0

-----------------------------------------------------------------------------
(* The inputs.  Each is one transaction; a rescore follows, sooner or      *)
(* later.                                                                  *)

Change ==
    /\ changes < MaxChanges
    /\ changes' = changes + 1
    /\ UNCHANGED <<given, stored, run, scored>>

\* OCR: forensics has not run yet.
ReadDocument(a) ==
    /\ Change /\ cert[a] = None
    /\ \E reading \in given.readings : cert' = [cert EXCEPT ![a] = [reading EXCEPT !.forensics = FALSE]]
    /\ UNCHANGED <<rejected, trashed, verdict, version>>

AnalyseDocument(a) ==
    /\ Change /\ cert[a] # None /\ ~cert[a].forensics
    /\ cert' = [cert EXCEPT ![a].forensics = TRUE]
    /\ UNCHANGED <<rejected, trashed, verdict, version>>

\* A result can be recorded once the pipeline has made the link to the portal.
RecordVerification(a) ==
    /\ Change /\ ForensicsRead(cert[a])
    /\ \E result \in {"verified", "mismatch", "unavailable"} :
          result # verdict[a] /\ verdict' = [verdict EXCEPT ![a] = result]
    /\ UNCHANGED <<rejected, trashed, cert, version>>

RejectEdge ==
    /\ Change
    /\ \E a \in Population : \E b \in Population \ {a} : \E f \in MatchedBy(given.sim[{a, b}]) :
          /\ Linked(given.sim[{a, b}]) /\ <<{a, b}, f>> \notin rejected
          /\ rejected' = rejected \cup {<<{a, b}, f>>}
    /\ UNCHANGED <<trashed, cert, verdict, version>>

RestoreEdge ==
    /\ Change
    /\ \E e \in rejected : rejected' = rejected \ {e}
    /\ UNCHANGED <<trashed, cert, verdict, version>>

Trash(a) ==
    /\ Change /\ a \notin trashed
    /\ trashed' = trashed \cup {a}
    /\ UNCHANGED <<rejected, cert, verdict, version>>

\* A release with the next rule version.
Deploy ==
    /\ Change /\ version < Len(Configs)
    /\ version' = version + 1
    /\ UNCHANGED <<rejected, trashed, cert, verdict>>

-----------------------------------------------------------------------------
(* The run.                                                                *)

Row(finding, v) ==
    [rule |-> finding.rule, cause |-> finding.cause,
     version |-> v, weight |-> Configs[v].weight[finding.rule]]

\* Mutant of Signature: only the number is compared.
SignatureOfScore(rows, total) == total

\* What a stored score claims: its flags as written, and the number.
Signature(rows, total) == <<total, rows>>

Contradicted(a, found, v) ==
    Signature({Row(f, v) : f \in found}, Total(found, Configs[v])) # Signature(flags[a], score[a])

Requested(asked) == asked \cap Population

\* scoreApplications: the rules are evaluated over the whole cycle, and what has to be
\* written is worked out: what was asked for (a household or a cycle, as a reconcile of
\* some time ago saw it) and what the evaluation contradicts.
Evaluate ==
    /\ run = NotRunning
    /\ LET c == Cycle
           due == {a \in Population : Contradicted(a, Findings(c, a), version)}
       IN \E todo \in {due \cup Requested(asked) : asked \in SUBSET Apps} :
          run' = [seen |-> changes, version |-> version,
                  findings |-> [a \in Population |-> Findings(c, a)],
                  todo |-> todo]
    /\ scored' = NotRunning
    /\ UNCHANGED <<inputs, stored, changes>>

\* Mutant of Outdated: rows of other versions stay.
OutdatedRule(row, rules, v) == row.version = v /\ row.rule \notin rules

\* The rows the DELETE takes away.
Outdated(row, rules, v) == ~(row.version = v /\ row.rule \in rules)

\* The row an upsert overwrites: that of the same rule and version.
Upserted(row, last, v) == row.version = v /\ \E f \in last : row.rule = f.rule

\* One transaction: outdated rows go, every finding is upserted - one row for each rule
\* and version, the last finding of a rule wins - and the total is stored.
Write(a) ==
    /\ run # NotRunning /\ a \in run.todo
    /\ LET v == run.version
           found == run.findings[a]
           rules == {f.rule : f \in found}
           several == {f \in found : \E g \in found : g.rule = f.rule /\ g # f}
       IN \E S \in SUBSET several :
          LET last == (found \ several) \cup S IN
          /\ {f.rule : f \in last} = rules
          /\ \A f, g \in last : f.rule = g.rule => f = g
          /\ flags' = [flags EXCEPT ![a] =
                {row \in @ : ~Outdated(row, rules, v) /\ ~Upserted(row, last, v)}
                \cup {Row(f, v) : f \in last}]
          /\ score' = [score EXCEPT ![a] = Total(found, Configs[v])]
    /\ run' = [run EXCEPT !.todo = @ \ {a}]
    /\ UNCHANGED <<inputs, scored, changes>>

Finish ==
    /\ run # NotRunning /\ run.todo = {}
    /\ run' = NotRunning /\ scored' = run.seen
    /\ UNCHANGED <<inputs, stored, changes>>

\* The process dies, or a statement fails: what was written stays.
Die ==
    /\ run # NotRunning
    /\ run' = NotRunning
    /\ UNCHANGED <<inputs, stored, scored, changes>>

Next ==
    \/ \E a \in Apps : ReadDocument(a) \/ AnalyseDocument(a) \/ RecordVerification(a) \/ Trash(a)
    \/ RejectEdge \/ RestoreEdge \/ Deploy
    \/ Evaluate \/ \E a \in Apps : Write(a)
    \/ Finish \/ Die

Spec == Init /\ [][Next]_vars
-----------------------------------------------------------------------------
(* The reviewer's checklist (checklist.ts).                                *)

\* Mutant of FieldRule: the district counts as the holder's.
FieldRuleHolder(f) ==
    CASE f \in HolderFields \cup {"district"} -> "CERTIFICATE_HOLDER_MISMATCH"
      [] f \in NumberFields -> "CERTIFICATE_NUMBER_MISMATCH"
      [] f \in DetailFields -> "CERTIFICATE_DETAILS_MISMATCH"

FieldRule(f) ==
    CASE f \in HolderFields -> "CERTIFICATE_HOLDER_MISMATCH"
      [] f \in NumberFields -> "CERTIFICATE_NUMBER_MISMATCH"
      [] f \in DetailFields -> "CERTIFICATE_DETAILS_MISMATCH"

\* A row: what is checked, for which rule, and how it came out.  A rule that is not
\* enabled has skipped rows.
ChecklistRow(c, of, rule, outcome) ==
    [of |-> of, rule |-> rule, outcome |-> IF rule \in c.cfg.enabled THEN outcome ELSE "skipped"]

\* The rows on the certificate, which is compared anew.
CertificateRows(a, c) ==
    {ChecklistRow(c, f, FieldRule(f), CompareField(cert[a], f)) : f \in ComparedFields} \cup
    {ChecklistRow(c, "income", "DECLARED_INCOME_BELOW_CERTIFICATE",
                  IF DeclaredBelow(c, a) # {} THEN "fail" ELSE "pass"),
     ChecklistRow(c, "income_words", "CERTIFICATE_INCOME_WORDS_MISMATCH", IncomeWordsCheck(cert[a])),
     ChecklistRow(c, "metadata", "DOCUMENT_TAMPER_SIGNAL", EditingSoftwareCheck(cert[a])),
     ChecklistRow(c, "ela", "DOCUMENT_TAMPER_SIGNAL", ElaCheck(cert[a], c.cfg)),
     ChecklistRow(c, "identity", "DOCUMENT_NOT_A_CERTIFICATE", DocumentIdentityCheck(cert[a]))}

\* The recorded result is shown in any case; without one, a reviewer's answer is awaited.
GovernmentRow(a) ==
    [of |-> "record", rule |-> "GOVERNMENT_RECORD_MISMATCH",
     outcome |-> CASE verdict[a] = "verified" -> "pass"
                   [] verdict[a] = "mismatch" -> "fail"
                   [] OTHER -> "pending"]

\* What a rule on other applications needs before it can say anything.
Comparable(c, a, rule) ==
    CASE rule \in {"SIBLING_INCOME_CONTRADICTION", "FAMILY_SIZE_CONTRADICTION",
                   "ISSUING_OFFICE_MISMATCH"} -> Cardinality(Home(c, a)) >= 2
      [] rule = "DUPLICATE_CERTIFICATE_ID" -> Form(c, a).number # None
      [] rule = "SHARED_CONTACT_UNRELATED_HOUSEHOLDS" -> Form(c, a).phone # None
      [] rule = "DEADLINE_PROXIMITY" -> Form(c, a).issued # None
      [] OTHER -> TRUE

\* The rows on other applications: the stored flag of the active version decides.
\* everScored: has a run ever written the application (scored_at)?
HouseholdRows(a, c, everScored) ==
    {ChecklistRow(c, "household", rule,
        IF \E row \in flags[a] : row.rule = rule /\ row.version = version THEN "fail"
        ELSE IF ~everScored THEN "pending"
        ELSE IF Comparable(c, a, rule) THEN "pass" ELSE "skipped")
     : rule \in HouseholdRules \cup {"DEADLINE_PROXIMITY"}}

\* applicationChecklist.  The rows without a rule are left out; the population rules
\* have no row.
Checklist(a, c, everScored) ==
    CertificateRows(a, c) \cup {GovernmentRow(a)} \cup HouseholdRows(a, c, everScored)

\* The rules the checklist shows as failed.
FailsOnChecklist(a, c, everScored) ==
    {row.rule : row \in {r \in Checklist(a, c, everScored) : r.outcome = "fail"}}

-----------------------------------------------------------------------------
(* Properties.                                                             *)

FlaggedRules(a) == {row.rule : row \in flags[a]}

\* No input has changed since the last complete run read the cycle.
Settled == scored = changes

\* Type invariant.
TypeOK ==
    /\ given \in Populations
    /\ trashed \in SUBSET Apps
    /\ DOMAIN cert = Apps
    /\ verdict \in [Apps -> {None, "verified", "mismatch", "unavailable"}]
    /\ version \in 1..Len(Configs)
    /\ DOMAIN flags = Apps /\ \A a \in Apps : \A row \in flags[a] : row.rule \in RuleIds
    /\ DOMAIN score = Apps
    /\ changes \in Nat /\ scored \in Nat \cup {NotRunning}
    /\ run # NotRunning =>
          /\ DOMAIN run = {"seen", "version", "findings", "todo"}
          /\ run.seen \in 0..changes /\ run.version \in 1..version
          /\ run.todo \subseteq DOMAIN run.findings

StoredAs(a, found, v) ==
    /\ FlaggedRules(a) = {f.rule : f \in found}
    /\ flags[a] \subseteq {Row(f, v) : f \in found}
    /\ score[a] = Total(found, Configs[v])

\* After a complete run, and while no input changes, every application's flags and score
\* are those of the cycle as it stands, also where the run skipped an application because
\* nothing seemed to have changed, and whatever runs died before it
\* (service.ts, "Which applications to write").
SettledScores ==
    Settled => LET c == Cycle IN \A a \in Population : StoredAs(a, Findings(c, a), version)

\* A rule never has two rows on an application, so a version bump counts nothing twice
\* (service.ts, "would otherwise keep a v1 row beside its new v2 row").
OneRowEach == \A a \in Apps : \A r1, r2 \in flags[a] : r1.rule = r2.rule => r1 = r2

\* DEADLINE_PROXIMITY never stands alone, and a population's shape is not company: at all
\* times, in the middle of a run as well (rules.ts, corroboration pass).
DeadlineCorroborated ==
    \A a \in Apps : "DEADLINE_PROXIMITY" \in FlaggedRules(a) =>
        FlaggedRules(a) \ (PopulationRules \cup {"DEADLINE_PROXIMITY"}) # {}

\* Nobody is in a household for one matching field: not a surname, not an address, not a
\* phone, whatever chain of links the household consists of and whichever edges were
\* rejected (resolve.ts, "A NOTE ON CONSERVATISM").
LinkNeedsTwo ==
    \A a \in Population : Household(a) # {a} =>
        \E b \in Household(a) \ {a} : Cardinality(MatchedBy(given.sim[{a, b}])) >= 2

\* Both sides of a contradiction are flagged: neither application is presumed honest
\* (rules.ts, siblingIncomeContradiction).
BothSidesFlagged ==
    Settled =>
        \A a \in Population : \A row \in flags[a] :
            row.rule \in {"SIBLING_INCOME_CONTRADICTION", "GUARDIAN_INCOME_CONTRADICTION",
                         "DUPLICATE_CERTIFICATE_ID"} =>
                \A b \in row.cause : row.rule \in FlaggedRules(b)

\* The certificates of the series of a whose serials are in the span that starts at low.
SerialSpan(c, a, low) ==
    {b \in Series(c, a) : Serial(c, b) - Serial(c, low) \in 0..c.cfg.maxSerialSpan}

\* Some such span has a in it and is held by enough households.
InSerialRun(c, a) ==
    \E low \in Series(c, a) :
        /\ a \in SerialSpan(c, a, low)
        /\ Households(c, SerialSpan(c, a, low)) >= c.cfg.minDistinctHouseholds

\* The sliding window misses no run of serials and invents none: once settled, and while
\* the rule is enabled, an application is flagged for its serial exactly when some span it
\* lies in is narrow enough and held by enough households, wherever the window stood
\* (rules.ts, certificateSerialAdjacency).
SerialsAreRuns ==
    Settled =>
        LET c == Cycle IN
        \A a \in Population :
            "CERTIFICATE_SERIAL_ADJACENCY" \in FlaggedRules(a) <=>
                "CERTIFICATE_SERIAL_ADJACENCY" \in c.cfg.enabled /\ InSerialRun(c, a)

\* "keeps the checklist and the flags from ever disagreeing about the same document"
\* (certificate.ts), and "cannot report a pass where the queue carries a flag"
\* (checklist.ts): once settled, the checklist shows a failed row of a rule exactly when the
\* rule has a flag, but for the rules on the population, which it does not show.
ChecklistAgrees ==
    Settled =>
        LET c == Cycle IN
        \A a \in Population : \A everScored \in BOOLEAN :
            FailsOnChecklist(a, c, everScored) = FlaggedRules(a) \ PopulationRules

\* "None may reach highSeverityScoreThreshold alone" (rules.ts, Tier 1b): an application
\* flagged by one population rule only stays below the threshold.
PopulationRuleAlone ==
    \A a \in Apps : \A rule \in PopulationRules :
        FlaggedRules(a) = {rule} => score[a] < Configs[version].highSeverityScoreThreshold
=============================================================================
