----------------------------- MODULE MCScoring -----------------------------
(* Small instances of Scoring for TLC.  Money is in thousands. *)
EXTENDS Scoring, TLC

CONSTANTS a1, a2, a3

-----------------------------------------------------------------------------
(* Rule versions: v4 and v5 as published, and one that scores error level  *)
(* analysis.                                                               *)

Weights ==
    [SIBLING_INCOME_CONTRADICTION |-> 40, GUARDIAN_INCOME_CONTRADICTION |-> 35,
     ADDRESS_CLUSTER_UNRELATED |-> 20, ISSUING_OFFICE_MISMATCH |-> 8,
     DUPLICATE_CERTIFICATE_ID |-> 45, FAMILY_SIZE_CONTRADICTION |-> 18,
     SHARED_CONTACT_UNRELATED_HOUSEHOLDS |-> 22, DEADLINE_PROXIMITY |-> 6,
     DECLARED_INCOME_BELOW_CERTIFICATE |-> 45, CERTIFICATE_HOLDER_MISMATCH |-> 40,
     CERTIFICATE_NUMBER_MISMATCH |-> 30, CERTIFICATE_INCOME_WORDS_MISMATCH |-> 30,
     CERTIFICATE_DETAILS_MISMATCH |-> 15, DOCUMENT_TAMPER_SIGNAL |-> 15,
     GOVERNMENT_RECORD_MISMATCH |-> 50, INCOME_THRESHOLD_BUNCHING |-> 10,
     CERTIFICATE_SERIAL_ADJACENCY |-> 25, IDENTICAL_ROUND_INCOME_CLUSTER |-> 22,
     HOUSEHOLD_FRAGMENTATION |-> 28, DOCUMENT_NOT_A_CERTIFICATE |-> 40]

V5 == [enabled |-> RuleIds, weight |-> Weights, highSeverityScoreThreshold |-> 50, ceiling |-> 250,
       tolerancePercent |-> 15, toleranceAbsolute |-> 12, minDistinctHouseholds |-> 3,
       bandPercent |-> 8, minBandCount |-> 4, bandRatioTenths |-> 25, maxSerialSpan |-> 12,
       roundIncomeStep |-> 10, nearMissFloor |-> 3800, minNearMissFields |-> 2,
       windowDays |-> 14, requiresCorroboration |-> TRUE, scoresEla |-> FALSE]

V4 == [V5 EXCEPT !.enabled = RuleIds \ {"DOCUMENT_NOT_A_CERTIFICATE"}]

\* Three applications stand for a cycle: two households are a crowd.
Scaled(config) == [config EXCEPT !.minDistinctHouseholds = 2, !.minBandCount = 2, !.bandRatioTenths = 20]

ScaledVersions == <<Scaled(V4), Scaled([V5 EXCEPT !.scoresEla = TRUE])>>
PublishedVersions == <<V4, V5>>

-----------------------------------------------------------------------------
(* What may be read of a certificate.                                      *)

Agrees == [read |-> ComparedFields, differs |-> {}, income |-> 100, words |-> "pass",
           editor |-> FALSE, region |-> TRUE, identified |-> TRUE, legible |-> TRUE,
           forensics |-> FALSE]

Differs == [Agrees EXCEPT !.read = ComparedFields \ {"guardian_name"},
                          !.differs = {"applicant_name", "certificate_id"},
                          !.income = 200, !.words = "fail", !.editor = TRUE]

District == [Agrees EXCEPT !.differs = {"district"}, !.income = None, !.words = "skipped"]

Another == [Agrees EXCEPT !.read = {}, !.income = None, !.words = "skipped", !.identified = FALSE]

-----------------------------------------------------------------------------
(* Populations.                                                            *)

Form0 == [income |-> 100, size |-> 4, guardian |-> None, address |-> None, phone |-> None,
          office |-> None, number |-> None, issued |-> None]

Apart == [guardian_name |-> 0, applicant_name |-> 0, address |-> 0, phone |-> 0]

Pairwise(x, y, z) ==
    [p \in {{a1, a2}, {a2, a3}, {a1, a3}} |-> IF p = {a1, a2} THEN x ELSE IF p = {a2, a3} THEN y ELSE z]

Each(x, y, z) == [a \in {a1, a2, a3} |-> IF a = a1 THEN x ELSE IF a = a2 THEN y ELSE z]

Number(n) == [series |-> "TN", value |-> n]

\* One guardian, and siblings that disagree; a third application, of another household,
\* with a reused certificate number.
Family ==
    LET guardian == [Apart EXCEPT !.guardian_name = 10000] IN
    [form |-> Each([Form0 EXCEPT !.guardian = "g", !.office = "o", !.number = Number(7), !.issued = 3],
                   [Form0 EXCEPT !.guardian = "g", !.income = 150, !.size = 5, !.office = "q"],
                   [Form0 EXCEPT !.guardian = "g", !.income = 200, !.number = Number(7), !.issued = 20]),
     sim |-> Pairwise([guardian EXCEPT !.address = 6000], guardian, guardian),
     cert |-> Each(None, None, None),
     readings |-> {Agrees, Differs}]

\* One round income, close under the ceiling, from one office; one near the deadline; the
\* first two perhaps of one household, the others with one phone.  The serials are
\* on either side of a span of 12.
Mill(serial, between) ==
    [form |-> [a \in {a1, a2, a3} |->
                  [Form0 EXCEPT !.income = 240, !.office = "o", !.number = Number(serial[a]),
                                !.issued = IF a = a1 THEN 3 ELSE None,
                                !.phone = IF a = a1 THEN None ELSE "p"]],
     sim |-> Pairwise(between, [Apart EXCEPT !.phone = 10000], Apart),
     cert |-> Each(None, None, None),
     readings |-> {}]

Mills ==
    {Mill(Each(x, y, z), between) :
        between \in {Apart, [Apart EXCEPT !.guardian_name = 8000, !.applicant_name = 10000]},
        <<x, y, z>> \in {<<0, 0, 12>>, <<0, 12, 13>>, <<0, 12, 24>>, <<0, 13, 26>>}}

\* One address, and one household only through the one in the middle: the others just
\* miss the threshold.  Two certificates are read and analysed already.
Chain ==
    LET address == [Apart EXCEPT !.address = 10000]
        same == [address EXCEPT !.guardian_name = 8000]
    IN
    [form |-> Each([Form0 EXCEPT !.address = "x", !.issued = 3],
                   [Form0 EXCEPT !.address = "x", !.income = 105],
                   [Form0 EXCEPT !.address = "x", !.income = 115]),
     sim |-> Pairwise(same, same, [address EXCEPT !.applicant_name = 6500]),
     cert |-> Each([Another EXCEPT !.forensics = TRUE], None, [Agrees EXCEPT !.forensics = TRUE]),
     readings |-> {District, Another}]

SomePopulations == {Family, Chain} \cup Mills

\* One application close to two others, in other fields each time.
Fragments3 ==
    {[form |-> Each(Form0, Form0, Form0),
      sim |-> Pairwise([Apart EXCEPT !.address = 6000, !.applicant_name = 10000],
                       [Apart EXCEPT !.guardian_name = 5500, !.phone = 10000], Apart),
      cert |-> Each(None, None, None),
      readings |-> {}]}
=============================================================================
