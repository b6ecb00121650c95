------------------------------- MODULE Rules -------------------------------
(***************************************************************************)
(* The contradiction rules (apps/api/src/household/rules.ts) and the       *)
(* certificate comparisons behind them (certificate.ts), over one cycle.   *)
(*                                                                         *)
(* A cycle c is a record:                                                  *)
(*   apps[a]   form: what the applicant declared                           *)
(*             cert: what was read of the certificate, or None             *)
(*             verdict: the government record, as a reviewer recorded it   *)
(*   components   the households: sets of applications                     *)
(*   sim[{a, b}]   the similarity of a and b in each field                 *)
(*   cfg       the rule configuration                                      *)
(* A rule maps an application to the set of its findings, each named by    *)
(* what its reason says.  Names of people stand for their applications;    *)
(* where a reason spells out the first of several partners, whichever the  *)
(* query returned first, the finding names them all.                       *)
(***************************************************************************)
EXTENDS Resolution, FiniteSetsExt, SequencesExt

CONSTANT None    \* a field left empty, a document not read, no result recorded

PopulationRules ==
    {"INCOME_THRESHOLD_BUNCHING", "CERTIFICATE_SERIAL_ADJACENCY",
     "IDENTICAL_ROUND_INCOME_CLUSTER", "HOUSEHOLD_FRAGMENTATION"}

HouseholdRules ==
    {"SIBLING_INCOME_CONTRADICTION", "ISSUING_OFFICE_MISMATCH", "FAMILY_SIZE_CONTRADICTION",
     "GUARDIAN_INCOME_CONTRADICTION", "ADDRESS_CLUSTER_UNRELATED", "DUPLICATE_CERTIFICATE_ID",
     "SHARED_CONTACT_UNRELATED_HOUSEHOLDS"}

CertificateRules ==
    {"DECLARED_INCOME_BELOW_CERTIFICATE", "CERTIFICATE_INCOME_WORDS_MISMATCH",
     "CERTIFICATE_HOLDER_MISMATCH", "CERTIFICATE_NUMBER_MISMATCH", "CERTIFICATE_DETAILS_MISMATCH",
     "DOCUMENT_TAMPER_SIGNAL", "DOCUMENT_NOT_A_CERTIFICATE", "GOVERNMENT_RECORD_MISMATCH"}

RuleIds == PopulationRules \cup HouseholdRules \cup CertificateRules \cup {"DEADLINE_PROXIMITY"}

Members(c) == DOMAIN c.apps
Form(c, a) == c.apps[a].form

\* The members of the household of a.
Home(c, a) == UNION {h \in c.components : a \in h}

\* How many households the applications of S are from.
Households(c, S) == Cardinality({Home(c, a) : a \in S})

\* One finding, whoever is involved.
Once(S) == IF S = {} THEN {} ELSE {S}

When(condition) == IF condition THEN {TRUE} ELSE {}

\* The members that give the same answer as a, when a gives one.
Sharing(c, a, field) ==
    {b \in Members(c) : Form(c, a)[field] # None /\ Form(c, b)[field] = Form(c, a)[field]}

\* Both tolerances must be exceeded.
ExceedsTolerance(x, y, cfg) ==
    LET gap == IF x > y THEN x - y ELSE y - x
        base == IF x > y THEN x ELSE y
    IN base # 0 /\ gap * 100 > cfg.tolerancePercent * base /\ gap > cfg.toleranceAbsolute

\* Mutant of Contradicts: only the application that declares less is flagged.
ContradictsBelow(c, a, b) ==
    /\ Form(c, a).income < Form(c, b).income
    /\ ExceedsTolerance(Form(c, a).income, Form(c, b).income, c.cfg)

Contradicts(c, a, b) == ExceedsTolerance(Form(c, a).income, Form(c, b).income, c.cfg)

-----------------------------------------------------------------------------
(* Within a household, and across households.                              *)

Siblings(c, a) == Once({b \in Home(c, a) : Contradicts(c, a, b)})

Offices(c, a) ==
    LET offices == {Form(c, b).office : b \in Home(c, a)} \ {None}
    IN IF Form(c, a).office # None /\ Cardinality(offices) >= 2 THEN {offices} ELSE {}

FamilySizes(c, a) ==
    LET sizes == {Form(c, b).size : b \in Home(c, a)}
    IN IF Cardinality(sizes) >= 2 THEN {sizes} ELSE {}

Guardians(c, a) ==
    Once({b \in Sharing(c, a, "guardian") \ Home(c, a) : Contradicts(c, a, b)})

Addresses(c, a) ==
    LET group == {b \in Sharing(c, a, "address") : Form(c, b).income <= c.cfg.ceiling}
    IN IF a \in group /\ Households(c, group) >= c.cfg.minDistinctHouseholds
       THEN {Households(c, group)} ELSE {}

Duplicates(c, a) == Once(Sharing(c, a, "number") \ {a})

Contacts(c, a) ==
    LET group == Sharing(c, a, "phone")
    IN IF Households(c, group) >= 2 THEN {group \ {a}} ELSE {}

-----------------------------------------------------------------------------
(* The certificate against the form.  cert.read are the fields that could  *)
(* be compared: declared, found and read with enough confidence.           *)

HolderFields == {"applicant_name", "guardian_name"}
NumberFields == {"certificate_id"}
DetailFields == {"district", "pincode", "family_size"}
ComparedFields == HolderFields \cup NumberFields \cup DetailFields

CompareField(cert, f) ==
    IF cert = None \/ f \notin cert.read THEN "skipped"
    ELSE IF f \in cert.differs THEN "fail" ELSE "pass"

Mismatches(cert, fields) ==
    Once({f \in fields : CompareField(cert, f) = "fail"})

\* income is a figure read with enough confidence, or None.
DeclaredBelow(c, a) ==
    LET cert == c.apps[a].cert IN
    IF /\ cert # None /\ cert.income # None
       /\ cert.income > Form(c, a).income
       /\ ExceedsTolerance(Form(c, a).income, cert.income, c.cfg)
    THEN {cert.income} ELSE {}

IncomeWordsCheck(cert) == IF cert = None THEN "skipped" ELSE cert.words

\* The certificate contradicts itself.
IncomeWords(c, a) == When(IncomeWordsCheck(c.apps[a].cert) = "fail")

\* Nothing is said of the file before forensics has run.
ForensicsRead(cert) == cert # None /\ cert.forensics

EditingSoftwareCheck(cert) ==
    IF ~ForensicsRead(cert) THEN "skipped" ELSE IF cert.editor THEN "fail" ELSE "pass"

\* Error level analysis counts when the configuration sets a threshold for it.
ElaCheck(cert, cfg) ==
    IF ~ForensicsRead(cert) \/ ~cfg.scoresEla THEN "skipped" ELSE IF cert.region THEN "fail" ELSE "pass"

\* A legible page without the fields of a certificate is another document.
DocumentIdentityCheck(cert) ==
    IF cert = None \/ (~cert.identified /\ ~cert.legible) THEN "skipped"
    ELSE IF cert.identified THEN "pass" ELSE "fail"

Tampered(c, a) ==
    LET check == [editor |-> EditingSoftwareCheck(c.apps[a].cert),
                  ela |-> ElaCheck(c.apps[a].cert, c.cfg)]
    IN Once({k \in DOMAIN check : check[k] = "fail"})

NotACertificate(c, a) == When(DocumentIdentityCheck(c.apps[a].cert) = "fail")

\* The one fact here that a person has confirmed.
GovernmentRecord(c, a) == When(c.apps[a].verdict = "mismatch")

-----------------------------------------------------------------------------
(* Rules about the shape of a whole cycle.                                 *)

Bunching(c, a) ==
    LET width == (c.cfg.ceiling * c.cfg.bandPercent) \div 100
        floor == c.cfg.ceiling - width
        Within(low, high) == {b \in Members(c) : low < Form(c, b).income /\ Form(c, b).income <= high}
        band == Within(floor, c.cfg.ceiling)
        below == Cardinality(Within(floor - width, floor))
    IN IF /\ a \in band /\ Cardinality(band) >= c.cfg.minBandCount
          /\ 10 * Cardinality(band) >= c.cfg.bandRatioTenths * (IF below > 1 THEN below ELSE 1)
       THEN {<<Cardinality(band), below>>} ELSE {}

\* Mutant of StartsAt: the window never lets go of what has fallen out of the span.
StartsAtStuck(serial, e, from, maxSpan) == from

\* While the window is too wide its start moves on.
StartsAt(serial, e, from, maxSpan) ==
    CHOOSE s \in from..e :
        /\ serial[e] - serial[s] <= maxSpan
        /\ \A t \in from..(s - 1) : serial[e] - serial[t] > maxSpan

\* Where the window to each serial starts, which the loop carries from one to the next.
WindowStarts(serial, maxSpan) ==
    LET start[e \in 1..Len(serial)] ==
            StartsAt(serial, e, IF e = 1 THEN 1 ELSE start[e - 1], maxSpan)
    IN start

\* The windows over the sorted serials that the loop reports: those the next serial
\* would not fit in.
Windows(serial, maxSpan) ==
    LET start == WindowStarts(serial, maxSpan)
    IN {<<start[e], e>> : e \in {x \in 1..Len(serial) :
            ~(x < Len(serial) /\ serial[x + 1] - serial[start[x]] <= maxSpan)}}

\* The certificates of one office and one numbering series.
Series(c, a) ==
    {b \in Members(c) : /\ None \notin {Form(c, x).office : x \in {a, b}}
                        /\ None \notin {Form(c, x).number : x \in {a, b}}
                        /\ Form(c, b).office = Form(c, a).office
                        /\ Form(c, b).number.series = Form(c, a).number.series}

Serial(c, a) == Form(c, a).number.value

\* The certificates sorted by serial, equal ones in any order.
InSerialOrder(c, S) ==
    CHOOSE s \in SetToSeqs(S) : \A i, j \in DOMAIN s : i < j => Serial(c, s[i]) <= Serial(c, s[j])

\* One finding for every reported window a certificate is in, also where two windows
\* have the same figures.
Serials(c, a) ==
    LET entries == InSerialOrder(c, Series(c, a))
        serial == [i \in DOMAIN entries |-> Serial(c, entries[i])]
        runs == {{entries[i] : i \in w[1]..w[2]} : w \in Windows(serial, c.cfg.maxSerialSpan)}
    IN IF Len(entries) < c.cfg.minDistinctHouseholds THEN {}
       ELSE {run \in runs : a \in run /\ Households(c, run) >= c.cfg.minDistinctHouseholds}

RoundIncomes(c, a) ==
    LET group == {b \in Sharing(c, a, "office") : Form(c, b).income = Form(c, a).income}
    IN IF /\ Form(c, a).income > 0 /\ Form(c, a).income % c.cfg.roundIncomeStep = 0
          /\ Households(c, group) >= c.cfg.minDistinctHouseholds
       THEN {Households(c, group)} ELSE {}

\* Close on several fields and over the line on none: one finding for every such partner.
Fragments(c, a) ==
    {b \in Members(c) \ {a} :
        LET sim == c.sim[{a, b}] IN
        /\ ~Linked(sim)
        /\ ShownScore(sim) >= c.cfg.nearMissFloor /\ 100 * ShownScore(sim) < LinkThreshold
        /\ Cardinality(MatchedBy(sim)) >= c.cfg.minNearMissFields}

DeadlineProximity(c, a) ==
    IF Form(c, a).issued # None /\ Form(c, a).issued \in 0..c.cfg.windowDays
    THEN {Form(c, a).issued} ELSE {}

-----------------------------------------------------------------------------
(* evaluateRules.                                                          *)

\* What a rule finds about a, whether or not it may be reported.
Reasons(c, a, rule) ==
    LET cert == c.apps[a].cert IN
    CASE rule = "SIBLING_INCOME_CONTRADICTION" -> Siblings(c, a)
      [] rule = "ISSUING_OFFICE_MISMATCH" -> Offices(c, a)
      [] rule = "FAMILY_SIZE_CONTRADICTION" -> FamilySizes(c, a)
      [] rule = "GUARDIAN_INCOME_CONTRADICTION" -> Guardians(c, a)
      [] rule = "ADDRESS_CLUSTER_UNRELATED" -> Addresses(c, a)
      [] rule = "DUPLICATE_CERTIFICATE_ID" -> Duplicates(c, a)
      [] rule = "SHARED_CONTACT_UNRELATED_HOUSEHOLDS" -> Contacts(c, a)
      [] rule = "DECLARED_INCOME_BELOW_CERTIFICATE" -> DeclaredBelow(c, a)
      [] rule = "CERTIFICATE_INCOME_WORDS_MISMATCH" -> IncomeWords(c, a)
      [] rule = "CERTIFICATE_HOLDER_MISMATCH" -> Mismatches(cert, HolderFields)
      [] rule = "CERTIFICATE_NUMBER_MISMATCH" -> Mismatches(cert, NumberFields)
      [] rule = "CERTIFICATE_DETAILS_MISMATCH" -> Mismatches(cert, DetailFields)
      [] rule = "DOCUMENT_TAMPER_SIGNAL" -> Tampered(c, a)
      [] rule = "DOCUMENT_NOT_A_CERTIFICATE" -> NotACertificate(c, a)
      [] rule = "GOVERNMENT_RECORD_MISMATCH" -> GovernmentRecord(c, a)
      [] rule = "INCOME_THRESHOLD_BUNCHING" -> Bunching(c, a)
      [] rule = "CERTIFICATE_SERIAL_ADJACENCY" -> Serials(c, a)
      [] rule = "IDENTICAL_ROUND_INCOME_CLUSTER" -> RoundIncomes(c, a)
      [] rule = "HOUSEHOLD_FRAGMENTATION" -> Fragments(c, a)
      [] rule = "DEADLINE_PROXIMITY" -> DeadlineProximity(c, a)

Found(c, a, rule) == IF rule \in c.cfg.enabled THEN Reasons(c, a, rule) ELSE {}

\* Mutant of Corroborating: any other finding is company enough.
CorroboratingAny == RuleIds \ {"DEADLINE_PROXIMITY"}

\* The rules whose findings are a second fact about the application itself.
Corroborating == RuleIds \ (PopulationRules \cup {"DEADLINE_PROXIMITY"})

\* The corroboration pass: proximity to the deadline is reported beside another fact only.
Reported(c, a, rule) ==
    IF /\ rule = "DEADLINE_PROXIMITY" /\ c.cfg.requiresCorroboration
       /\ \A other \in Corroborating : Found(c, a, other) = {}
    THEN {} ELSE Found(c, a, rule)

Findings(c, a) ==
    UNION {{[rule |-> rule, cause |-> cause] : cause \in Reported(c, a, rule)} : rule \in RuleIds}

\* The total weight: what becomes applications.risk_score.
Total(found, cfg) == MapThenSumSet(LAMBDA f : cfg.weight[f.rule], found)
=============================================================================
