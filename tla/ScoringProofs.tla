--------------------------- MODULE ScoringProofs ---------------------------
(***************************************************************************)
(* Theorems about Scoring.  The rules stay opaque where a proof needs only *)
(* that a run writes what it evaluated, and are opened where it is about   *)
(* what they find.                                                         *)
(***************************************************************************)
EXTENDS Scoring, FiniteSetTheorems, WellFoundedInduction, TLAPS

-----------------------------------------------------------------------------
(* Resolution.                                                             *)

\* What one field can bring in.
LEMMA PartBounds ==
    ASSUME NEW sim \in [MatchFields -> 0..One], NEW f \in MatchFields
    PROVE  /\ Part(sim, f) \in Int /\ Part(sim, f) <= 500000
           /\ f \notin MatchedBy(sim) => Part(sim, f) = 0
<1>1. sim[f] \in 0..One
  OBVIOUS
<1>2. sim[f] \in Int /\ 0 <= sim[f] /\ sim[f] <= 10000
  <2>1. \A n \in Int : \A x \in 0..n : x \in Int /\ 0 <= x /\ x <= n
    OBVIOUS
  <2>2. One \in Int
    BY DEF One
  <2>3. sim[f] \in Int /\ 0 <= sim[f] /\ sim[f] <= One
    BY <1>1, <2>1, <2>2
  <2>. QED  BY <2>3 DEF One
<1>3. FieldWeight["guardian_name"] = 50 /\ FieldWeight["address"] = 40
      /\ FieldWeight["applicant_name"] = 20 /\ FieldWeight["phone"] = 15
  BY DEF FieldWeight
<1>4. FieldWeight[f] * sim[f] \in Int /\ FieldWeight[f] * sim[f] <= 500000
  <2>1. CASE f = "guardian_name"
    BY <1>2, <1>3, <2>1
  <2>2. CASE f = "address"
    BY <1>2, <1>3, <2>2
  <2>3. CASE f = "applicant_name"
    BY <1>2, <1>3, <2>3
  <2>4. CASE f = "phone"
    BY <1>2, <1>3, <2>4
  <2>. QED  BY <2>1, <2>2, <2>3, <2>4 DEF MatchFields
<1>. QED  BY <1>4 DEF Part

\* A pair that links matches in two fields.
LEMMA LinkedMatchesTwo ==
    ASSUME NEW sim \in [MatchFields -> 0..One], Linked(sim)
    PROVE  Cardinality(MatchedBy(sim)) >= 2
<1>1. \A f \in MatchFields : Part(sim, f) \in Int /\ Part(sim, f) <= 500000
                              /\ (f \notin MatchedBy(sim) => Part(sim, f) = 0)
  BY PartBounds
<1>2. PICK f \in MatchedBy(sim), g \in MatchedBy(sim) : f # g
  <2>. SUFFICES ASSUME \A f, g \in MatchedBy(sim) : f = g
                PROVE  FALSE
    OBVIOUS
  <2>1. \A f, g \in MatchFields : f # g => Part(sim, f) = 0 \/ Part(sim, g) = 0
    BY <1>1
  <2>2. /\ "guardian_name" \in MatchFields /\ "applicant_name" \in MatchFields
        /\ "address" \in MatchFields /\ "phone" \in MatchFields
    BY DEF MatchFields
  <2>. DEFINE p1 == Part(sim, "guardian_name")
              p2 == Part(sim, "applicant_name")
              p3 == Part(sim, "address")
              p4 == Part(sim, "phone")
  <2>3. /\ p1 = 0 \/ p2 = 0
        /\ p1 = 0 \/ p3 = 0
        /\ p1 = 0 \/ p4 = 0
        /\ p2 = 0 \/ p3 = 0
        /\ p2 = 0 \/ p4 = 0
        /\ p3 = 0 \/ p4 = 0
    BY <2>1, <2>2
  <2>4. /\ p1 \in Int /\ p1 <= 500000 /\ p2 \in Int /\ p2 <= 500000
        /\ p3 \in Int /\ p3 <= 500000 /\ p4 \in Int /\ p4 <= 500000
    BY <1>1, <2>2
  <2>5. p1 + p2 + p3 + p4 >= 550000
    BY DEF Linked, Score, LinkThreshold
  <2>. HIDE DEF p1, p2, p3, p4
  <2>. QED  BY <2>3, <2>4, <2>5
<1>3. {f, g} \subseteq MatchedBy(sim) /\ MatchedBy(sim) \subseteq MatchFields
  BY <1>2 DEF MatchedBy
<1>4. IsFiniteSet(MatchedBy(sim))
  <2>1. MatchFields = ({"guardian_name"} \cup {"applicant_name"}) \cup ({"address"} \cup {"phone"})
    BY DEF MatchFields
  <2>2. /\ IsFiniteSet({"guardian_name"} \cup {"applicant_name"})
        /\ IsFiniteSet({"address"} \cup {"phone"})
    BY FS_Singleton, FS_Union
  <2>3. IsFiniteSet(MatchFields)
    BY <2>1, <2>2, FS_Union
  <2>. QED  BY <1>3, <2>3, FS_Subset
<1>5. Cardinality({f, g}) = 2
  <2>1. {f, g} = {f} \cup {g} /\ g \notin {f}
    BY <1>2
  <2>2. IsFiniteSet({f}) /\ Cardinality({f}) = 1
    BY FS_Singleton
  <2>3. Cardinality({f} \cup {g}) = Cardinality({f}) + 1
    BY <2>1, <2>2, FS_AddElement
  <2>. QED  BY <2>1, <2>2, <2>3
<1>6. Cardinality({f, g}) <= Cardinality(MatchedBy(sim)) /\ Cardinality(MatchedBy(sim)) \in Nat
  BY <1>3, <1>4, FS_Subset, FS_CardinalityType
<1>. QED  BY <1>5, <1>6

-----------------------------------------------------------------------------
(* What an evaluation returns.                                             *)

RulesOf(found) == {f.rule : f \in found}

\* Proximity to the deadline is beside a fact about the application itself.
Accompanied(rules) ==
    "DEADLINE_PROXIMITY" \in rules => rules \ (PopulationRules \cup {"DEADLINE_PROXIMITY"}) # {}

\* The rules with findings are those that report a reason.
LEMMA FindingsByRule ==
    ASSUME NEW c, NEW a
    PROVE  /\ RulesOf(Findings(c, a)) \subseteq RuleIds
           /\ \A r \in RuleIds : r \in RulesOf(Findings(c, a)) <=> Reported(c, a, r) # {}
<1>1. \A f : f \in Findings(c, a) <=>
        \E r \in RuleIds : \E cause \in Reported(c, a, r) : f = [rule |-> r, cause |-> cause]
  BY DEF Findings
<1>2. ASSUME NEW r \in RuleIds
      PROVE  r \in RulesOf(Findings(c, a)) <=> Reported(c, a, r) # {}
  <2>1. ASSUME r \in RulesOf(Findings(c, a))
        PROVE  Reported(c, a, r) # {}
    <3>1. PICK f \in Findings(c, a) : f.rule = r
      BY <2>1 DEF RulesOf
    <3>. QED  BY <1>1, <3>1
  <2>2. ASSUME NEW cause \in Reported(c, a, r)
        PROVE  r \in RulesOf(Findings(c, a))
    <3>1. [rule |-> r, cause |-> cause] \in Findings(c, a)
      BY <1>1
    <3>. QED  BY <3>1 DEF RulesOf
  <2>. QED  BY <2>1, <2>2
<1>3. RulesOf(Findings(c, a)) \subseteq RuleIds
  BY <1>1 DEF RulesOf
<1>. QED  BY <1>2, <1>3

\* Every finding is of a rule, and what is found about an application accompanies a
\* finding of DEADLINE_PROXIMITY, whatever the rules are.
LEMMA FindingsAccompanied ==
    ASSUME NEW c, NEW a, c.cfg.requiresCorroboration
    PROVE  /\ RulesOf(Findings(c, a)) \subseteq RuleIds
           /\ Accompanied(RulesOf(Findings(c, a)))
<1>1. \A r \in RuleIds : r \in RulesOf(Findings(c, a)) <=> Reported(c, a, r) # {}
  BY FindingsByRule
<1>2. RulesOf(Findings(c, a)) \subseteq RuleIds
  BY FindingsByRule
<1>3. ASSUME "DEADLINE_PROXIMITY" \in RulesOf(Findings(c, a))
      PROVE  RulesOf(Findings(c, a)) \ (PopulationRules \cup {"DEADLINE_PROXIMITY"}) # {}
  <2>1. Reported(c, a, "DEADLINE_PROXIMITY") # {}
    BY <1>1, <1>2, <1>3
  <2>2. PICK other \in Corroborating : Found(c, a, other) # {}
    BY <2>1 DEF Reported
  <2>3. other \in RuleIds /\ other \notin PopulationRules \cup {"DEADLINE_PROXIMITY"}
    BY DEF Corroborating
  <2>4. Reported(c, a, other) = Found(c, a, other)
    BY <2>3 DEF Reported
  <2>. QED  BY <1>1, <2>2, <2>3, <2>4
<1>. QED  BY <1>2, <1>3 DEF Accompanied

\* What an evaluation reads changes with the inputs only.
LEMMA CycleUnchanged ==
    ASSUME UNCHANGED inputs
    PROVE  Population' = Population /\ Cycle' = Cycle
<1>1. Population' = Population
  BY DEF inputs, Population
<1>2. \A a, b : Joined(a, b)' = Joined(a, b)
  BY DEF inputs, Joined
<1>3. \A a : Household(a)' = Household(a)
  BY <1>1, <1>2 DEF Household
<1>. QED  BY <1>1, <1>3 DEF inputs, Cycle

-----------------------------------------------------------------------------
(* A run writes what it evaluated.                                         *)

StoredRules == \A a \in Apps : FlaggedRules(a) \subseteq RuleIds

\* A run in progress: what it evaluated are findings of rules; if it has seen every
\* change, they are the findings of the cycle as it stands; and whoever is not waiting
\* to be written stands as evaluated.
RunOfCycle ==
    /\ DOMAIN run.findings \subseteq Apps
    /\ run.seen = changes =>
          /\ run.version = version
          /\ run.findings = [a \in Population |-> Findings(Cycle, a)]

RunEvaluated ==
    \A a \in DOMAIN run.findings :
        RulesOf(run.findings[a]) \subseteq RuleIds /\ Accompanied(RulesOf(run.findings[a]))

RunStored ==
    \A a \in DOMAIN run.findings \ run.todo : StoredAs(a, run.findings[a], run.version)

RunInv == run # NotRunning => RunOfCycle /\ RunEvaluated /\ RunStored /\ scored = NotRunning

Inv ==
    /\ TypeOK /\ DOMAIN given.cert = Apps
    /\ scored # NotRunning => scored <= changes
    /\ RunInv
    /\ OneRowEach
    /\ DeadlineCorroborated
    /\ SettledScores

LEMMA InvInit == Init => Inv
<1>. SUFFICES ASSUME Init PROVE Inv
  OBVIOUS
<1>. USE DEF Init
<1>1. DOMAIN given.cert = Apps
  BY ScoringAssumption
<1>2. TypeOK
  BY <1>1, ScoringAssumption DEF TypeOK
<1>3. OneRowEach
  BY DEF OneRowEach
<1>4. DeadlineCorroborated
  BY DEF DeadlineCorroborated, FlaggedRules
<1>5. SettledScores
  BY ScoringAssumption DEF SettledScores, Settled
<1>. QED  BY <1>1, <1>2, <1>3, <1>4, <1>5 DEF Inv, RunInv

\* A change of the inputs outdates the last run.
LEMMA InvChange ==
    ASSUME Inv, Change, TypeOK', DOMAIN cert' = Apps
    PROVE  Inv'
<1>1. changes \in Nat /\ changes' = changes + 1 /\ given' = given /\ flags' = flags /\ score' = score
      /\ run' = run /\ scored' = scored
  BY DEF Change, Inv, TypeOK, stored
<1>2. scored # NotRunning => scored \in Nat /\ scored <= changes
  BY DEF Inv, TypeOK
<1>3. SettledScores'
  BY <1>1, <1>2, ScoringAssumption DEF SettledScores, Settled
<1>4. RunInv'
  <2>. SUFFICES ASSUME run # NotRunning
                PROVE  RunOfCycle' /\ RunEvaluated' /\ RunStored' /\ scored' = NotRunning
    BY <1>1 DEF RunInv
  <2>1. RunOfCycle /\ RunEvaluated /\ RunStored /\ scored = NotRunning /\ run.seen \in 0..changes
    BY DEF Inv, RunInv, TypeOK
  <2>2. run.seen # changes'
    BY <1>1, <2>1
  <2>3. RunOfCycle'
    BY <1>1, <2>1, <2>2 DEF RunOfCycle
  <2>4. RunEvaluated'
    BY <1>1, <2>1 DEF RunEvaluated
  <2>5. RunStored'
    <3>1. \A a, found, v : StoredAs(a, found, v)' = StoredAs(a, found, v)
      BY <1>1 DEF StoredAs, FlaggedRules
    <3>. QED  BY <1>1, <2>1, <3>1 DEF RunStored
  <2>. QED  BY <1>1, <2>1, <2>3, <2>4, <2>5
<1>5. OneRowEach' /\ DeadlineCorroborated'
  BY <1>1 DEF Inv, OneRowEach, DeadlineCorroborated, FlaggedRules
<1>6. scored' # NotRunning => scored' <= changes'
  BY <1>1, <1>2
<1>. QED  BY <1>1, <1>3, <1>4, <1>5, <1>6 DEF Inv

\* The inputs keep their types.
LEMMA InputTypes ==
    ASSUME TypeOK,
           \/ \E a \in Apps : ReadDocument(a) \/ AnalyseDocument(a) \/ RecordVerification(a) \/ Trash(a)
           \/ RejectEdge \/ RestoreEdge \/ Deploy
    PROVE  TypeOK' /\ Change
<1>1. ASSUME Change, DOMAIN cert' = Apps, trashed' \subseteq Apps, version' \in version..Len(Configs),
             verdict' \in [Apps -> {None, "verified", "mismatch", "unavailable"}]
      PROVE  TypeOK'
  <2>1. given' = given /\ flags' = flags /\ score' = score /\ run' = run /\ scored' = scored
        /\ changes' = changes + 1
    BY <1>1 DEF Change, stored
  <2>2. version' \in 1..Len(Configs) /\ version \in Int /\ version' \in Int /\ version <= version'
    BY <1>1, ScoringAssumption DEF TypeOK
  <2>3. run # NotRunning => run.seen \in 0..changes' /\ run.version \in 1..version'
    BY <2>1, <2>2 DEF TypeOK
  <2>. QED  BY <1>1, <2>1, <2>2, <2>3 DEF TypeOK
<1>2. version \in version..Len(Configs)
  BY ScoringAssumption DEF TypeOK
<1>3. ASSUME NEW a \in Apps, ReadDocument(a) PROVE TypeOK' /\ Change
  <2>1. Change /\ DOMAIN cert' = Apps
    BY <1>3 DEF ReadDocument, TypeOK
  <2>. QED  BY <1>1, <1>2, <1>3, <2>1 DEF ReadDocument, TypeOK
<1>4. ASSUME NEW a \in Apps, AnalyseDocument(a) PROVE TypeOK' /\ Change
  <2>1. Change /\ DOMAIN cert' = Apps
    BY <1>4 DEF AnalyseDocument, TypeOK
  <2>. QED  BY <1>1, <1>2, <1>4, <2>1 DEF AnalyseDocument, TypeOK
<1>5. ASSUME NEW a \in Apps, RecordVerification(a) PROVE TypeOK' /\ Change
  <2>1. verdict' \in [Apps -> {None, "verified", "mismatch", "unavailable"}]
    BY <1>5 DEF RecordVerification, TypeOK
  <2>. QED  BY <1>1, <1>2, <1>5, <2>1 DEF RecordVerification, TypeOK
<1>6. ASSUME NEW a \in Apps, Trash(a) PROVE TypeOK' /\ Change
  BY <1>1, <1>2, <1>6 DEF Trash, TypeOK
<1>7. ASSUME RejectEdge PROVE TypeOK' /\ Change
  BY <1>1, <1>2, <1>7 DEF RejectEdge, TypeOK
<1>8. ASSUME RestoreEdge PROVE TypeOK' /\ Change
  BY <1>1, <1>2, <1>8 DEF RestoreEdge, TypeOK
<1>9. ASSUME Deploy PROVE TypeOK' /\ Change
  <2>1. version' \in version..Len(Configs)
    BY <1>9, ScoringAssumption DEF Deploy, TypeOK
  <2>. QED  BY <1>1, <1>9, <2>1 DEF Deploy, TypeOK
<1>. QED  BY <1>3, <1>4, <1>5, <1>6, <1>7, <1>8, <1>9

\* What a stored application's signature says is all that is compared.
LEMMA SameSignature ==
    ASSUME NEW a, NEW found, NEW v, ~Contradicted(a, found, v)
    PROVE  StoredAs(a, found, v)
<1>1. {Row(f, v) : f \in found} = flags[a] /\ Total(found, Configs[v]) = score[a]
  BY DEF Contradicted, Signature
<1>2. \A f : Row(f, v).rule = f.rule
  BY DEF Row
<1>. QED  BY <1>1, <1>2 DEF StoredAs, FlaggedRules

LEMMA InvEvaluate ==
    ASSUME Inv, Evaluate
    PROVE  Inv'
<1>1. PICK asked \in SUBSET Apps :
        LET todo == {a \in Population : Contradicted(a, Findings(Cycle, a), version)} \cup Requested(asked)
        IN run' = [seen |-> changes, version |-> version,
                   findings |-> [a \in Population |-> Findings(Cycle, a)],
                   todo |-> todo]
  BY DEF Evaluate
<1>2. scored' = NotRunning /\ UNCHANGED <<inputs, flags, score, changes>>
  BY DEF Evaluate, stored
<1>3. /\ run'.seen = changes /\ run'.version = version
      /\ run'.findings = [a \in Population |-> Findings(Cycle, a)]
      /\ run'.todo = {a \in Population : Contradicted(a, Findings(Cycle, a), version)} \cup Requested(asked)
      /\ DOMAIN run' = {"seen", "version", "findings", "todo"}
  BY <1>1
<1>4. run'.todo \subseteq Population /\ Population \subseteq Apps
  BY <1>3 DEF Requested, Population
<1>5. Population' = Population /\ Cycle' = Cycle
  BY <1>2, CycleUnchanged
<1>6. TypeOK' /\ DOMAIN given'.cert = Apps
  BY <1>2, <1>3, <1>4 DEF Inv, TypeOK, inputs
<1>7. RunOfCycle'
  BY <1>2, <1>3, <1>4, <1>5 DEF RunOfCycle, inputs
<1>8. RunEvaluated'
  <2>1. Cycle.cfg = Configs[version]
    BY DEF Cycle
  <2>2. Cycle.cfg.requiresCorroboration
    BY <2>1, ScoringAssumption DEF Inv, TypeOK
  <2>. QED  BY <1>3, <2>2, FindingsAccompanied DEF RunEvaluated
<1>9. RunStored'
  <2>. SUFFICES ASSUME NEW a \in Population, a \notin run'.todo
                PROVE  StoredAs(a, run.findings[a], run.version)'
    BY <1>3 DEF RunStored
  <2>0. ~Contradicted(a, Findings(Cycle, a), version)
    BY <1>3
  <2>1. StoredAs(a, Findings(Cycle, a), version)
    BY <2>0, SameSignature
  <2>2. \A found, v : StoredAs(a, found, v)' = StoredAs(a, found, v)
    BY <1>2 DEF StoredAs, FlaggedRules
  <2>. QED  BY <1>3, <2>1, <2>2
<1>10. OneRowEach' /\ DeadlineCorroborated'
  BY <1>2 DEF Inv, OneRowEach, DeadlineCorroborated, FlaggedRules
<1>11. SettledScores'
  BY <1>2, ScoringAssumption DEF Inv, TypeOK, SettledScores, Settled
<1>. QED  BY <1>2, <1>6, <1>7, <1>8, <1>9, <1>10, <1>11 DEF Inv, RunInv

\* Writing an application replaces its rows by one finding of each rule: the DELETE leaves
\* only rows that the upserts then overwrite.
LEMMA WriteReplaces ==
    ASSUME NEW a, Write(a)
    PROVE  \E last \in SUBSET run.findings[a] :
              /\ RulesOf(last) = RulesOf(run.findings[a])
              /\ \A f, g \in last : f.rule = g.rule => f = g
              /\ flags' = [flags EXCEPT ![a] = {Row(f, run.version) : f \in last}]
<1>. DEFINE found == run.findings[a]
            v == run.version
            rules == RulesOf(found)
            several == {f \in found : \E g \in found : g.rule = f.rule /\ g # f}
<1>1. PICK S \in SUBSET several :
        LET last == (found \ several) \cup S IN
        /\ RulesOf(last) = rules
        /\ \A f, g \in last : f.rule = g.rule => f = g
        /\ flags' = [flags EXCEPT ![a] =
              {row \in @ : ~Outdated(row, rules, v) /\ ~Upserted(row, last, v)}
              \cup {Row(f, v) : f \in last}]
  BY DEF Write, RulesOf
<1>. DEFINE last == (found \ several) \cup S
<1>2. last \in SUBSET found
  OBVIOUS
<1>3. \A row : ~Outdated(row, rules, v) => Upserted(row, last, v)
  BY <1>1 DEF Outdated, Upserted, RulesOf
<1>4. {row \in flags[a] : ~Outdated(row, rules, v) /\ ~Upserted(row, last, v)} = {}
  BY <1>3
<1>5. flags' = [flags EXCEPT ![a] = {Row(f, v) : f \in last}]
  BY <1>1, <1>4
<1>. QED  BY <1>1, <1>2, <1>5

LEMMA InvWrite ==
    ASSUME Inv, NEW a \in Apps, Write(a)
    PROVE  Inv'
<1>1. /\ run # NotRunning /\ a \in run.todo
      /\ score' = [score EXCEPT ![a] = Total(run.findings[a], Configs[run.version])]
      /\ run' = [run EXCEPT !.todo = @ \ {a}]
      /\ UNCHANGED <<inputs, scored, changes>>
  BY DEF Write
<1>2. PICK last \in SUBSET run.findings[a] :
        /\ RulesOf(last) = RulesOf(run.findings[a])
        /\ \A f, g \in last : f.rule = g.rule => f = g
        /\ flags' = [flags EXCEPT ![a] = {Row(f, run.version) : f \in last}]
  BY WriteReplaces
<1>3. RunOfCycle /\ RunEvaluated /\ RunStored /\ scored = NotRunning
  BY <1>1 DEF Inv, RunInv
<1>4. /\ DOMAIN flags = Apps /\ DOMAIN score = Apps /\ run.todo \subseteq DOMAIN run.findings
      /\ run.seen \in 0..changes /\ run.version \in 1..version
  BY <1>1 DEF Inv, TypeOK
<1>5. /\ flags'[a] = {Row(f, run.version) : f \in last}
      /\ score'[a] = Total(run.findings[a], Configs[run.version])
      /\ \A b \in Apps \ {a} : flags'[b] = flags[b] /\ score'[b] = score[b]
      /\ DOMAIN flags' = Apps /\ DOMAIN score' = Apps
  BY <1>1, <1>2, <1>4
<1>6. run'.findings = run.findings /\ run'.version = run.version /\ run'.seen = run.seen
  BY <1>1
<1>7. run'.todo = run.todo \ {a} /\ DOMAIN run' = DOMAIN run
  BY <1>1 DEF Inv, TypeOK
<1>8. \A f, v : Row(f, v).rule = f.rule
  BY DEF Row
<1>9. FlaggedRules(a)' = RulesOf(run.findings[a])
  BY <1>2, <1>5, <1>8 DEF FlaggedRules, RulesOf
<1>10. Population' = Population /\ Cycle' = Cycle
  BY <1>1, CycleUnchanged
<1>11. RulesOf(run.findings[a]) \subseteq RuleIds /\ Accompanied(RulesOf(run.findings[a]))
  BY <1>1, <1>3, <1>4 DEF RunEvaluated
<1>12. TypeOK' /\ DOMAIN given'.cert = Apps
  <2>1. \A b \in Apps : \A row \in flags'[b] : row.rule \in RuleIds
    <3>1. \A row \in flags'[a] : row.rule \in RuleIds
      BY <1>9, <1>11 DEF FlaggedRules
    <3>. QED  BY <1>5, <3>1 DEF Inv, TypeOK
  <2>. QED  BY <1>1, <1>4, <1>5, <1>6, <1>7, <2>1 DEF Inv, TypeOK, inputs
<1>13. RunOfCycle'
  BY <1>1, <1>3, <1>6, <1>10 DEF RunOfCycle, inputs
<1>14. RunEvaluated'
  BY <1>3, <1>6 DEF RunEvaluated
<1>15. RunStored'
  <2>. SUFFICES ASSUME NEW b \in DOMAIN run.findings, b \notin run.todo \/ b = a
                PROVE  StoredAs(b, run.findings[b], run.version)'
    BY <1>6, <1>7 DEF RunStored
  <2>1. CASE b = a
    <3>1. flags'[a] \subseteq {Row(f, run.version) : f \in run.findings[a]}
      BY <1>5
    <3>2. StoredAs(a, run.findings[a], run.version)'
      BY <1>5, <1>6, <1>9, <3>1 DEF StoredAs, RulesOf
    <3>. QED  BY <2>1, <3>2
  <2>2. CASE b # a
    <3>1. b \in Apps /\ StoredAs(b, run.findings[b], run.version)
      BY <1>3, <2>2 DEF RunStored, RunOfCycle
    <3>. QED  BY <1>5, <1>6, <2>2, <3>1 DEF StoredAs, FlaggedRules
  <2>. QED  BY <2>1, <2>2
<1>16. OneRowEach'
  <2>1. \A r1, r2 \in flags'[a] : r1.rule = r2.rule => r1 = r2
    BY <1>2, <1>5, <1>8
  <2>. QED  BY <1>5, <2>1 DEF Inv, OneRowEach
<1>17. DeadlineCorroborated'
  BY <1>5, <1>9, <1>11 DEF Inv, DeadlineCorroborated, FlaggedRules, Accompanied
<1>18. SettledScores'
  BY <1>1, <1>3, ScoringAssumption DEF Inv, TypeOK, SettledScores, Settled
<1>. QED  BY <1>1, <1>3, <1>12, <1>13, <1>14, <1>15, <1>16, <1>17, <1>18 DEF Inv, RunInv

\* A run that finishes has written everyone who was not as evaluated already.
LEMMA InvFinish ==
    ASSUME Inv, Finish
    PROVE  Inv'
<1>1. /\ run # NotRunning /\ run.todo = {} /\ run' = NotRunning /\ scored' = run.seen
      /\ UNCHANGED <<inputs, flags, score, changes>>
  BY DEF Finish, stored
<1>2. RunOfCycle /\ RunStored /\ run.seen \in 0..changes /\ changes \in Nat
  BY <1>1 DEF Inv, RunInv, TypeOK
<1>3. SettledScores'
  <2>. SUFFICES ASSUME run.seen = changes, NEW a \in Population
                PROVE  StoredAs(a, Findings(Cycle, a), version)'
    BY <1>1, CycleUnchanged DEF SettledScores, Settled
  <2>1. run.version = version /\ run.findings = [b \in Population |-> Findings(Cycle, b)]
    BY <1>2 DEF RunOfCycle
  <2>2. StoredAs(a, Findings(Cycle, a), version)
    BY <1>1, <1>2, <2>1 DEF RunStored
  <2>3. Cycle' = Cycle /\ version' = version
    BY <1>1, CycleUnchanged DEF inputs
  <2>. QED  BY <1>1, <2>2, <2>3 DEF StoredAs, FlaggedRules
<1>4. TypeOK' /\ DOMAIN given'.cert = Apps
  BY <1>1, <1>2 DEF Inv, TypeOK, inputs
<1>5. OneRowEach' /\ DeadlineCorroborated'
  BY <1>1 DEF Inv, OneRowEach, DeadlineCorroborated, FlaggedRules
<1>. QED  BY <1>1, <1>2, <1>3, <1>4, <1>5 DEF Inv, RunInv

\* A step that leaves the inputs and the stored flags alone.
LEMMA InvStutter ==
    ASSUME Inv, UNCHANGED <<inputs, stored, scored, changes>>, run' = run \/ run' = NotRunning
    PROVE  Inv'
<1>1. Population' = Population /\ Cycle' = Cycle
  BY CycleUnchanged
<1>2. UNCHANGED <<inputs, flags, score, scored, changes>>
  BY DEF stored
<1>3. \A a, found, v : StoredAs(a, found, v)' = StoredAs(a, found, v)
  BY <1>2 DEF StoredAs, FlaggedRules
<1>4. TypeOK' /\ DOMAIN given'.cert = Apps
  BY <1>2 DEF Inv, TypeOK, inputs
<1>5. RunInv'
  BY <1>1, <1>2, <1>3 DEF Inv, RunInv, RunOfCycle, RunEvaluated, RunStored, inputs
<1>6. OneRowEach' /\ DeadlineCorroborated'
  BY <1>2 DEF Inv, OneRowEach, DeadlineCorroborated, FlaggedRules
<1>7. SettledScores'
  BY <1>1, <1>2, <1>3 DEF Inv, SettledScores, Settled, inputs
<1>. QED  BY <1>2, <1>4, <1>5, <1>6, <1>7 DEF Inv

LEMMA InvNext == Inv /\ [Next]_vars => Inv'
<1>. SUFFICES ASSUME Inv, [Next]_vars PROVE Inv'
  OBVIOUS
<1>1. CASE \/ \E a \in Apps : ReadDocument(a) \/ AnalyseDocument(a) \/ RecordVerification(a) \/ Trash(a)
           \/ RejectEdge \/ RestoreEdge \/ Deploy
  <2>1. TypeOK' /\ Change
    BY <1>1, InputTypes DEF Inv
  <2>2. DOMAIN cert' = Apps
    BY <2>1 DEF TypeOK
  <2>. QED  BY <2>1, <2>2, InvChange
<1>2. CASE Evaluate
  BY <1>2, InvEvaluate
<1>3. ASSUME NEW a \in Apps, Write(a) PROVE Inv'
  BY <1>3, InvWrite
<1>4. CASE Finish
  BY <1>4, InvFinish
<1>5. CASE Die
  BY <1>5, InvStutter DEF Die
<1>6. CASE UNCHANGED vars
  BY <1>6, InvStutter DEF vars, inputs, stored
<1>. QED  BY <1>1, <1>2, <1>3, <1>4, <1>5, <1>6 DEF Next

LEMMA SpecInv == Spec => []Inv
  BY InvInit, InvNext, PTL DEF Spec

-----------------------------------------------------------------------------
(* The theorems.                                                           *)

\* The variables keep their types; a run only ever writes applications it evaluated, even
\* when others were asked for.
THEOREM TypeCorrect == Spec => []TypeOK
<1>1. Inv => TypeOK
  BY DEF Inv
<1>. QED  BY <1>1, SpecInv, PTL

\* Once a run is complete and while no input changes, the stored flags and scores are those
\* of the cycle as it stands, whatever the rules and however many runs died.
THEOREM ScoresSettle == Spec => []SettledScores
<1>1. Inv => SettledScores
  BY DEF Inv
<1>. QED  BY <1>1, SpecInv, PTL

\* A rule never has two rows on one application, of whatever versions.
THEOREM RowsAreOneEach == Spec => []OneRowEach
<1>1. Inv => OneRowEach
  BY DEF Inv
<1>. QED  BY <1>1, SpecInv, PTL

\* Proximity to the deadline is never the only thing against an application but for the
\* shape of the population.
THEOREM DeadlineNeverAlone == Spec => []DeadlineCorroborated
<1>1. Inv => DeadlineCorroborated
  BY DEF Inv
<1>. QED  BY <1>1, SpecInv, PTL

-----------------------------------------------------------------------------
(* The checklist.                                                          *)

\* Which comparison a certificate rule reports.
LEMMA CertificateReasons ==
    ASSUME NEW c, NEW a
    PROVE  /\ Reasons(c, a, "DECLARED_INCOME_BELOW_CERTIFICATE") = DeclaredBelow(c, a)
           /\ Reasons(c, a, "CERTIFICATE_INCOME_WORDS_MISMATCH") = IncomeWords(c, a)
           /\ Reasons(c, a, "CERTIFICATE_HOLDER_MISMATCH") = Mismatches(c.apps[a].cert, HolderFields)
           /\ Reasons(c, a, "CERTIFICATE_NUMBER_MISMATCH") = Mismatches(c.apps[a].cert, NumberFields)
           /\ Reasons(c, a, "CERTIFICATE_DETAILS_MISMATCH") = Mismatches(c.apps[a].cert, DetailFields)
           /\ Reasons(c, a, "DOCUMENT_TAMPER_SIGNAL") = Tampered(c, a)
           /\ Reasons(c, a, "DOCUMENT_NOT_A_CERTIFICATE") = NotACertificate(c, a)
           /\ Reasons(c, a, "GOVERNMENT_RECORD_MISMATCH") = GovernmentRecord(c, a)
  BY DEF Reasons

\* A rule of the certificate has a failed row on the checklist.
RowFails(a, c, r) == \E row \in CertificateRows(a, c) : row.rule = r /\ row.outcome = "fail"

LEMMA RowsByRule ==
    ASSUME NEW a, NEW c, NEW r
    PROVE  RowFails(a, c, r) <=>
              /\ r \in c.cfg.enabled
              /\ \/ \E f \in ComparedFields : FieldRule(f) = r /\ CompareField(cert[a], f) = "fail"
                 \/ r = "DECLARED_INCOME_BELOW_CERTIFICATE" /\ DeclaredBelow(c, a) # {}
                 \/ r = "CERTIFICATE_INCOME_WORDS_MISMATCH" /\ IncomeWordsCheck(cert[a]) = "fail"
                 \/ r = "DOCUMENT_TAMPER_SIGNAL" /\ EditingSoftwareCheck(cert[a]) = "fail"
                 \/ r = "DOCUMENT_TAMPER_SIGNAL" /\ ElaCheck(cert[a], c.cfg) = "fail"
                 \/ r = "DOCUMENT_NOT_A_CERTIFICATE" /\ DocumentIdentityCheck(cert[a]) = "fail"
<1>. DEFINE income == IF DeclaredBelow(c, a) # {} THEN "fail" ELSE "pass"
            Failed(row) == row.rule = r /\ row.outcome = "fail"
<1>1. \A of, rule, outcome : Failed(ChecklistRow(c, of, rule, outcome)) <=>
                                 rule = r /\ r \in c.cfg.enabled /\ outcome = "fail"
  BY DEF ChecklistRow
<1>2. income = "fail" <=> DeclaredBelow(c, a) # {}
  OBVIOUS
<1>3. RowFails(a, c, r) <=>
        \/ \E f \in ComparedFields : Failed(ChecklistRow(c, f, FieldRule(f), CompareField(cert[a], f)))
        \/ Failed(ChecklistRow(c, "income", "DECLARED_INCOME_BELOW_CERTIFICATE", income))
        \/ Failed(ChecklistRow(c, "income_words", "CERTIFICATE_INCOME_WORDS_MISMATCH", IncomeWordsCheck(cert[a])))
        \/ Failed(ChecklistRow(c, "metadata", "DOCUMENT_TAMPER_SIGNAL", EditingSoftwareCheck(cert[a])))
        \/ Failed(ChecklistRow(c, "ela", "DOCUMENT_TAMPER_SIGNAL", ElaCheck(cert[a], c.cfg)))
        \/ Failed(ChecklistRow(c, "identity", "DOCUMENT_NOT_A_CERTIFICATE", DocumentIdentityCheck(cert[a])))
  BY Zenon DEF RowFails, CertificateRows
<1>. HIDE DEF Failed, income
<1>. QED  BY <1>1, <1>2, <1>3

\* The checks on the certificate alone.
LEMMA PlainReasons ==
    ASSUME NEW c, NEW a
    PROVE  /\ IncomeWords(c, a) # {} <=> IncomeWordsCheck(c.apps[a].cert) = "fail"
           /\ NotACertificate(c, a) # {} <=> DocumentIdentityCheck(c.apps[a].cert) = "fail"
           /\ GovernmentRecord(c, a) # {} <=> c.apps[a].verdict = "mismatch"
<1>1. \A b \in BOOLEAN : When(b) # {} <=> b
  BY DEF When
<1>. DEFINE words == IncomeWordsCheck(c.apps[a].cert) = "fail"
            other == DocumentIdentityCheck(c.apps[a].cert) = "fail"
            record == c.apps[a].verdict = "mismatch"
<1>2. words \in BOOLEAN /\ other \in BOOLEAN /\ record \in BOOLEAN
  OBVIOUS
<1>3. IncomeWords(c, a) = When(words) /\ NotACertificate(c, a) = When(other)
      /\ GovernmentRecord(c, a) = When(record)
  BY Zenon DEF IncomeWords, NotACertificate, GovernmentRecord
<1>. HIDE DEF words, other, record
<1>4. /\ IncomeWords(c, a) # {} <=> words
      /\ NotACertificate(c, a) # {} <=> other
      /\ GovernmentRecord(c, a) # {} <=> record
  BY Zenon, <1>1, <1>2, <1>3
<1>. QED  BY Zenon, <1>4 DEF words, other, record

\* The rule a compared field belongs to is the one that reports the field.
LEMMA FieldRules ==
    /\ \A f \in ComparedFields :
          FieldRule(f) \in {"CERTIFICATE_HOLDER_MISMATCH", "CERTIFICATE_NUMBER_MISMATCH",
                            "CERTIFICATE_DETAILS_MISMATCH"}
    /\ \A f \in ComparedFields : FieldRule(f) = "CERTIFICATE_HOLDER_MISMATCH" <=> f \in HolderFields
    /\ \A f \in ComparedFields : FieldRule(f) = "CERTIFICATE_NUMBER_MISMATCH" <=> f \in NumberFields
    /\ \A f \in ComparedFields : FieldRule(f) = "CERTIFICATE_DETAILS_MISMATCH" <=> f \in DetailFields
  BY DEF FieldRule, ComparedFields, HolderFields, NumberFields, DetailFields

LEMMA MismatchesFail ==
    ASSUME NEW x, NEW fields
    PROVE  Mismatches(x, fields) # {} <=> \E f \in fields : CompareField(x, f) = "fail"
<1>1. {f \in fields : CompareField(x, f) = "fail"} # {} <=> \E f \in fields : CompareField(x, f) = "fail"
  OBVIOUS
<1>. QED  BY <1>1 DEF Mismatches, Once

\* The checklist fails a row of a certificate rule exactly when the rule has a reason.
LEMMA RowsAreReasons ==
    ASSUME NEW a, NEW c, c.apps[a].cert = cert[a],
           NEW r \in CertificateRules \ {"GOVERNMENT_RECORD_MISMATCH"}
    PROVE  RowFails(a, c, r) <=> r \in c.cfg.enabled /\ Reasons(c, a, r) # {}
<1>1. HolderFields \subseteq ComparedFields /\ NumberFields \subseteq ComparedFields
      /\ DetailFields \subseteq ComparedFields
  BY DEF ComparedFields
<1>3. CASE r = "CERTIFICATE_HOLDER_MISMATCH"
  BY <1>1, <1>3, RowsByRule, FieldRules, MismatchesFail, CertificateReasons
<1>4. CASE r = "CERTIFICATE_NUMBER_MISMATCH"
  BY <1>1, <1>4, RowsByRule, FieldRules, MismatchesFail, CertificateReasons
<1>5. CASE r = "CERTIFICATE_DETAILS_MISMATCH"
  BY <1>1, <1>5, RowsByRule, FieldRules, MismatchesFail, CertificateReasons
<1>6. CASE r = "DECLARED_INCOME_BELOW_CERTIFICATE"
  BY <1>6, RowsByRule, FieldRules, CertificateReasons
<1>7. CASE r = "CERTIFICATE_INCOME_WORDS_MISMATCH"
  BY <1>7, PlainReasons, CertificateReasons, RowsByRule, FieldRules
<1>8. CASE r = "DOCUMENT_TAMPER_SIGNAL"
  <2>1. Tampered(c, a) # {} <=>
          EditingSoftwareCheck(cert[a]) = "fail" \/ ElaCheck(cert[a], c.cfg) = "fail"
    <3>. DEFINE check == [editor |-> EditingSoftwareCheck(c.apps[a].cert),
                          ela |-> ElaCheck(c.apps[a].cert, c.cfg)]
                failed == {k \in {"editor", "ela"} : check[k] = "fail"}
    <3>1. c.apps[a].cert = cert[a]
      OBVIOUS
    <3>2. DOMAIN check = {"editor", "ela"}
      OBVIOUS
    <3>3. Tampered(c, a) = IF failed = {} THEN {} ELSE {failed}
      BY <3>2 DEF Tampered, Once
    <3>4. failed # {} <=> check.editor = "fail" \/ check.ela = "fail"
      OBVIOUS
    <3>. QED  BY <3>1, <3>3, <3>4
  <2>. QED  BY <1>8, <2>1, RowsByRule, FieldRules, CertificateReasons
<1>9. CASE r = "DOCUMENT_NOT_A_CERTIFICATE"
  BY <1>9, PlainReasons, CertificateReasons, RowsByRule, FieldRules
<1>. QED  BY <1>3, <1>4, <1>5, <1>6, <1>7, <1>8, <1>9 DEF CertificateRules

\* Once settled, an application is flagged by the rules that have a reason to.
LEMMA SettledRules ==
    ASSUME Inv, Settled, NEW a \in Population
    PROVE  /\ FlaggedRules(a) = RulesOf(Findings(Cycle, a))
           /\ \A row \in flags[a] : row.cause \in Reported(Cycle, a, row.rule)
           /\ \A r \in RuleIds \ {"DEADLINE_PROXIMITY"} :
                 r \in FlaggedRules(a) <=> r \in Configs[version].enabled /\ Reasons(Cycle, a, r) # {}
<1>1. StoredAs(a, Findings(Cycle, a), version)
  BY DEF Inv, SettledScores
<1>2. FlaggedRules(a) = RulesOf(Findings(Cycle, a))
  BY <1>1 DEF StoredAs, RulesOf
<1>3. ASSUME NEW row \in flags[a]
      PROVE  row.cause \in Reported(Cycle, a, row.rule)
  <2>1. PICK f \in Findings(Cycle, a) : row = Row(f, version)
    BY <1>1 DEF StoredAs
  <2>2. row.rule = f.rule /\ row.cause = f.cause
    BY <2>1 DEF Row
  <2>3. f.cause \in Reported(Cycle, a, f.rule)
    BY DEF Findings
  <2>. QED  BY <2>2, <2>3
<1>4. Cycle.cfg = Configs[version]
  BY DEF Cycle
<1>5. ASSUME NEW r \in RuleIds \ {"DEADLINE_PROXIMITY"}
      PROVE  r \in FlaggedRules(a) <=> r \in Configs[version].enabled /\ Reasons(Cycle, a, r) # {}
  <2>1. Reported(Cycle, a, r) = Found(Cycle, a, r)
    BY DEF Reported
  <2>. QED  BY <1>2, <1>4, <2>1, FindingsByRule DEF Found
<1>. QED  BY <1>2, <1>3, <1>5

\* A rule on other applications has a failed row; a flag of the active version is stored.
HouseholdRowFails(a, c, everScored, r) ==
    \E row \in HouseholdRows(a, c, everScored) : row.rule = r /\ row.outcome = "fail"
StoredNow(a, r) == \E row \in flags[a] : row.rule = r /\ row.version = version

\* The rows on other applications fail for the stored flags of the active version.
LEMMA HouseholdRowsFail ==
    ASSUME NEW a, NEW c, NEW everScored, NEW r
    PROVE  HouseholdRowFails(a, c, everScored, r) <=>
              r \in HouseholdRules \cup {"DEADLINE_PROXIMITY"} /\ r \in c.cfg.enabled /\ StoredNow(a, r)
<1>. DEFINE Stored(rule) == \E row \in flags[a] : row.rule = rule /\ row.version = version
            Outcome(rule) == IF Stored(rule) THEN "fail" ELSE IF ~everScored THEN "pending"
                             ELSE IF Comparable(c, a, rule) THEN "pass" ELSE "skipped"
            RowOf(rule) == ChecklistRow(c, "household", rule, Outcome(rule))
            Shown == HouseholdRules \cup {"DEADLINE_PROXIMITY"}
<1>1. HouseholdRows(a, c, everScored) = {RowOf(rule) : rule \in Shown}
  BY Zenon DEF HouseholdRows
<1>2. \A rule : Outcome(rule) = "fail" <=> Stored(rule)
  <2>. SUFFICES ASSUME NEW rule
                PROVE  Outcome(rule) = "fail" <=> Stored(rule)
    OBVIOUS
  <2>. HIDE DEF Stored
  <2>1. CASE Stored(rule)
    BY <2>1
  <2>2. CASE ~Stored(rule)
    BY <2>2
  <2>. QED  BY <2>1, <2>2
<1>. HIDE DEF Outcome, Stored
<1>3. \A rule : /\ RowOf(rule).rule = rule
                /\ RowOf(rule).outcome = "fail" <=> rule \in c.cfg.enabled /\ Outcome(rule) = "fail"
  BY DEF ChecklistRow
<1>. HIDE DEF RowOf
<1>4. (\E row \in HouseholdRows(a, c, everScored) : row.rule = r /\ row.outcome = "fail") <=>
         r \in Shown /\ r \in c.cfg.enabled /\ Stored(r)
  BY <1>1, <1>2, <1>3
<1>. QED  BY Zenon, <1>4 DEF Stored, StoredNow, HouseholdRowFails

\* A settled flag is of the active version and of a rule that is enabled.
LEMMA SettledFlagsCurrent ==
    ASSUME Inv, Settled, NEW a \in Population
    PROVE  /\ \A row \in flags[a] : row.version = version
           /\ FlaggedRules(a) \subseteq Configs[version].enabled \cap RuleIds
<1>1. StoredAs(a, Findings(Cycle, a), version) /\ Cycle.cfg = Configs[version]
  BY DEF Inv, SettledScores, Cycle
<1>2. ASSUME NEW row \in flags[a]
      PROVE  row.version = version
  <2>1. PICK f \in Findings(Cycle, a) : row = Row(f, version)
    BY <1>1 DEF StoredAs
  <2>. QED  BY <2>1 DEF Row
<1>3. ASSUME NEW r \in FlaggedRules(a)
      PROVE  r \in Configs[version].enabled /\ r \in RuleIds
  <2>1. PICK f \in Findings(Cycle, a) : f.rule = r
    BY <1>1 DEF StoredAs
  <2>2. r \in RuleIds /\ f.cause \in Reported(Cycle, a, r)
    BY <2>1 DEF Findings
  <2>3. f.cause \in Found(Cycle, a, r)
    BY <2>2 DEF Reported
  <2>. QED  BY <1>1, <2>2, <2>3 DEF Found
<1>. QED  BY <1>2, <1>3

LEMMA ChecklistInv == Inv => ChecklistAgrees
<1>. SUFFICES ASSUME Inv, Settled, NEW a \in Population, NEW everScored \in BOOLEAN
              PROVE  FailsOnChecklist(a, Cycle, everScored) = FlaggedRules(a) \ PopulationRules
  BY DEF ChecklistAgrees
<1>. DEFINE Others == HouseholdRules \cup {"DEADLINE_PROXIMITY"}
            record == "GOVERNMENT_RECORD_MISMATCH"
<1>1. Cycle.apps[a].cert = cert[a] /\ Cycle.apps[a].verdict = verdict[a] /\ Cycle.cfg = Configs[version]
  BY DEF Cycle
<1>2. /\ CertificateRules \subseteq RuleIds \ {"DEADLINE_PROXIMITY"}
      /\ record \in CertificateRules
      /\ CertificateRules \cap Others = {}
      /\ RuleIds \ PopulationRules = CertificateRules \cup Others
  BY DEF CertificateRules, RuleIds, HouseholdRules, PopulationRules
<1>3. \A r \in CertificateRules :
        r \in FlaggedRules(a) <=> r \in Configs[version].enabled /\ Reasons(Cycle, a, r) # {}
  BY <1>2, SettledRules
<1>4. record \in Configs[version].enabled
  BY ScoringAssumption DEF Inv, TypeOK
<1>5. Reasons(Cycle, a, record) # {} <=> verdict[a] = "mismatch"
  BY <1>1, PlainReasons, CertificateReasons
<1>6. \A r : RowFails(a, Cycle, r) => r \in CertificateRules \ {record}
  BY RowsByRule, FieldRules DEF CertificateRules
<1>7. \A r \in CertificateRules \ {record} :
        RowFails(a, Cycle, r) <=> r \in Configs[version].enabled /\ Reasons(Cycle, a, r) # {}
  BY <1>1, RowsAreReasons
<1>8. GovernmentRow(a).rule = record /\ (GovernmentRow(a).outcome = "fail" <=> verdict[a] = "mismatch")
  BY DEF GovernmentRow
<1>9. \A r : HouseholdRowFails(a, Cycle, everScored, r) <=>
                r \in Others /\ r \in Configs[version].enabled /\ StoredNow(a, r)
  BY <1>1, HouseholdRowsFail
<1>10. \A r : r \in FailsOnChecklist(a, Cycle, everScored) <=>
        \/ RowFails(a, Cycle, r)
        \/ r = record /\ verdict[a] = "mismatch"
        \/ r \in Others /\ r \in Configs[version].enabled /\ StoredNow(a, r)
  <2>1. \A r : r \in FailsOnChecklist(a, Cycle, everScored) <=>
          \E row \in Checklist(a, Cycle, everScored) : row.outcome = "fail" /\ row.rule = r
    BY Zenon DEF FailsOnChecklist
  <2>2. \A r : (\E row \in Checklist(a, Cycle, everScored) : row.outcome = "fail" /\ row.rule = r) <=>
          \/ RowFails(a, Cycle, r)
          \/ GovernmentRow(a).outcome = "fail" /\ GovernmentRow(a).rule = r
          \/ HouseholdRowFails(a, Cycle, everScored, r)
    BY Zenon DEF Checklist, RowFails, HouseholdRowFails
  <2>. QED  BY Zenon, <1>8, <1>9, <2>1, <2>2
<1>11. \A r : StoredNow(a, r) <=> r \in FlaggedRules(a)
  BY Zenon, SettledFlagsCurrent DEF FlaggedRules, StoredNow
<1>12. FlaggedRules(a) \subseteq Configs[version].enabled \cap RuleIds
  BY SettledFlagsCurrent
<1>13. \A r : r \in FailsOnChecklist(a, Cycle, everScored) <=> r \in FlaggedRules(a) /\ r \notin PopulationRules
  <2>. HIDE DEF Others, record
  <2>. QED  BY <1>2, <1>3, <1>4, <1>5, <1>6, <1>7, <1>10, <1>11, <1>12
<1>. QED  BY <1>13

\* For every population, every reading of a certificate and every configuration.
THEOREM ChecklistNeverDisagrees == Spec => []ChecklistAgrees
  BY ChecklistInv, SpecInv, PTL

-----------------------------------------------------------------------------
(* Both sides of a contradiction.                                          *)

LEMMA ToleranceSymmetric ==
    ASSUME NEW x \in Nat, NEW y \in Nat, NEW cfg, ExceedsTolerance(x, y, cfg)
    PROVE  ExceedsTolerance(y, x, cfg)
<1>1. CASE x > y
  BY <1>1 DEF ExceedsTolerance
<1>2. CASE y > x
  BY <1>2 DEF ExceedsTolerance
<1>3. CASE x = y
  BY <1>3 DEF ExceedsTolerance
<1>. QED  BY <1>1, <1>2, <1>3

\* Who is not alone is joined to somebody, and a joined pair matches in two fields.
LEMMA LinkNeedsTwoInv == TypeOK => LinkNeedsTwo
<1>. SUFFICES ASSUME TypeOK, NEW a \in Population, Household(a) # {a}
              PROVE  \E b \in Household(a) \ {a} : Cardinality(MatchedBy(given.sim[{a, b}])) >= 2
  BY DEF LinkNeedsTwo
<1>. DEFINE closed == {S \in SUBSET Population : \A x \in S, y \in Population \ S : ~Joined(x, y)}
<1>1. Household(a) = {b \in Population : \A S \in closed : a \in S => b \in S}
  BY DEF Household
<1>2. PICK b \in Population \ {a} : Joined(a, b)
  <2>. SUFFICES ASSUME \A b \in Population \ {a} : ~Joined(a, b)
                PROVE  Household(a) = {a}
    OBVIOUS
  <2>1. {a} \in closed
    OBVIOUS
  <2>. QED  BY <1>1, <2>1
<1>3. b \in Household(a) \ {a}
  BY <1>1, <1>2
<1>4. given.sim[{a, b}] \in [MatchFields -> 0..One] /\ Linked(given.sim[{a, b}])
  BY <1>2, ScoringAssumption DEF TypeOK, Population, Joined
<1>. QED  BY <1>3, <1>4, LinkedMatchesTwo

\* For any similarities, forms and rejections, nobody shares a household with others
\* without matching one of them in two fields.
THEOREM LinksNeedTwo == Spec => []LinkNeedsTwo
<1>1. Inv => LinkNeedsTwo
  BY LinkNeedsTwoInv DEF Inv
<1>. QED  BY <1>1, SpecInv, PTL

\* Households, shared fields and contradictions are symmetric.
LEMMA SharedBothWays ==
    ASSUME Inv, NEW a \in Population, NEW b
    PROVE  /\ b \in Home(Cycle, a) => b \in Population /\ a \in Home(Cycle, b)
           /\ \A field : b \in Sharing(Cycle, a, field) => b \in Population /\ a \in Sharing(Cycle, b, field)
           /\ b \in Population /\ Contradicts(Cycle, a, b) => Contradicts(Cycle, b, a)
<1>1. Members(Cycle) = Population /\ Cycle.components = {Household(x) : x \in Population}
  BY DEF Members, Cycle
<1>2. \A h \in Cycle.components : h \subseteq Population
  BY <1>1 DEF Household
<1>3. b \in Home(Cycle, a) => b \in Population /\ a \in Home(Cycle, b)
  BY <1>2 DEF Home
<1>4. \A field : b \in Sharing(Cycle, a, field) => b \in Population /\ a \in Sharing(Cycle, b, field)
  BY <1>1 DEF Sharing
<1>5. \A x \in Population : Form(Cycle, x).income \in Nat
  BY ScoringAssumption DEF Inv, TypeOK, Form, Cycle, Population
<1>6. b \in Population /\ Contradicts(Cycle, a, b) => Contradicts(Cycle, b, a)
  BY <1>5, ToleranceSymmetric DEF Contradicts
<1>. QED  BY <1>3, <1>4, <1>6

LEMMA BothSidesInv == Inv => BothSidesFlagged
<1>. SUFFICES ASSUME Inv, Settled, NEW a \in Population, NEW row \in flags[a], NEW b \in row.cause,
                     row.rule \in {"SIBLING_INCOME_CONTRADICTION", "GUARDIAN_INCOME_CONTRADICTION",
                                   "DUPLICATE_CERTIFICATE_ID"}
              PROVE  row.rule \in FlaggedRules(b)
  BY DEF BothSidesFlagged
<1>1. row.rule \in RuleIds \ {"DEADLINE_PROXIMITY"}
  BY DEF RuleIds, HouseholdRules
<1>2. row.cause \in Reasons(Cycle, a, row.rule) /\ row.rule \in Configs[version].enabled
  <2>1. row.cause \in Reported(Cycle, a, row.rule)
    BY SettledRules
  <2>2. Reported(Cycle, a, row.rule) = Found(Cycle, a, row.rule) /\ Cycle.cfg = Configs[version]
    BY <1>1 DEF Reported, Cycle
  <2>. QED  BY <2>1, <2>2 DEF Found
<1>3. \A S, T : T \in Once(S) => T = S
  BY DEF Once
<1>4. \A S : S # {} => Once(S) # {}
  BY DEF Once
<1>5. b \in Population /\ Reasons(Cycle, b, row.rule) # {}
  <2>1. CASE row.rule = "SIBLING_INCOME_CONTRADICTION"
    <3>1. \A x : Reasons(Cycle, x, row.rule) = Once({y \in Home(Cycle, x) : Contradicts(Cycle, x, y)})
      BY <2>1 DEF Reasons, Siblings
    <3>2. b \in Home(Cycle, a) /\ Contradicts(Cycle, a, b)
      <4>. DEFINE others == {y \in Home(Cycle, a) : Contradicts(Cycle, a, y)}
      <4>1. Reasons(Cycle, a, row.rule) = Once(others)
        BY <3>1
      <4>2. row.cause \in Once(others)
        BY <1>2, <4>1
      <4>. HIDE DEF others
      <4>3. row.cause = others
        BY <1>3, <4>2
      <4>. QED  BY <4>3 DEF others
    <3>3. b \in Population /\ a \in {y \in Home(Cycle, b) : Contradicts(Cycle, b, y)}
      BY <3>2, SharedBothWays
    <3>. QED  BY <1>4, <3>1, <3>3
  <2>2. CASE row.rule = "GUARDIAN_INCOME_CONTRADICTION"
    <3>1. \A x : Reasons(Cycle, x, row.rule) =
            Once({y \in Sharing(Cycle, x, "guardian") \ Home(Cycle, x) : Contradicts(Cycle, x, y)})
      BY <2>2 DEF Reasons, Guardians
    <3>2. b \in Sharing(Cycle, a, "guardian") /\ b \notin Home(Cycle, a) /\ Contradicts(Cycle, a, b)
      <4>. DEFINE others == {y \in Sharing(Cycle, a, "guardian") \ Home(Cycle, a) : Contradicts(Cycle, a, y)}
      <4>1. Reasons(Cycle, a, row.rule) = Once(others)
        BY <3>1
      <4>2. row.cause \in Once(others)
        BY <1>2, <4>1
      <4>. HIDE DEF others
      <4>3. row.cause = others
        BY <1>3, <4>2
      <4>. QED  BY <4>3 DEF others
    <3>3. b \in Population /\ a \in Sharing(Cycle, b, "guardian") /\ Contradicts(Cycle, b, a)
      BY <3>2, SharedBothWays
    <3>4. a \notin Home(Cycle, b)
      BY <3>2, <3>3, SharedBothWays
    <3>5. a \in {y \in Sharing(Cycle, b, "guardian") \ Home(Cycle, b) : Contradicts(Cycle, b, y)}
      BY <3>3, <3>4
    <3>. QED  BY <1>4, <3>1, <3>3, <3>5
  <2>3. CASE row.rule = "DUPLICATE_CERTIFICATE_ID"
    <3>1. \A x : Reasons(Cycle, x, row.rule) = Once(Sharing(Cycle, x, "number") \ {x})
      BY <2>3 DEF Reasons, Duplicates
    <3>2. b \in Sharing(Cycle, a, "number") /\ b # a
      <4>. DEFINE others == Sharing(Cycle, a, "number") \ {a}
      <4>1. Reasons(Cycle, a, row.rule) = Once(others)
        BY <3>1
      <4>2. row.cause \in Once(others)
        BY <1>2, <4>1
      <4>. HIDE DEF others
      <4>3. row.cause = others
        BY <1>3, <4>2
      <4>. QED  BY <4>3 DEF others
    <3>3. b \in Population /\ a \in Sharing(Cycle, b, "number") \ {b}
      BY <3>2, SharedBothWays
    <3>. QED  BY <1>4, <3>1, <3>3
  <2>. QED  BY <2>1, <2>2, <2>3
<1>. QED  BY <1>1, <1>2, <1>5, SettledRules

\* Whoever is named in a contradiction is flagged as well, in every population.
THEOREM BothSidesAreFlagged == Spec => []BothSidesFlagged
  BY BothSidesInv, SpecInv, PTL

-----------------------------------------------------------------------------
(***************************************************************************)
(* Runs of serials.  Instead of an induction over the window's positions:  *)
(* the first position at which it is not where it has to be does not exist.*)
(***************************************************************************)

LEMMA LeastNatural ==
    ASSUME NEW T \in SUBSET Nat, T # {}
    PROVE  \E x \in T : \A y \in T : x <= y
<1>1. \E x \in T : \A y \in T : ~(<<y, x>> \in OpToRel(<, Nat))
  BY NatLessThanWellFounded, WFMin
<1>2. PICK x \in T : \A y \in T : ~(<<y, x>> \in OpToRel(<, Nat))
  BY <1>1
<1>3. \A y \in T : ~(y < x)
  BY <1>2 DEF OpToRel
<1> QED
  BY <1>3

LEMMA GreatestBelow ==
    ASSUME NEW n \in Nat, NEW T \in SUBSET (1..n), T # {}
    PROVE  \E x \in T : \A y \in T : y <= x
<1> DEFINE U == {n - x : x \in T}
<1>1. PICK u \in U : \A y \in U : u <= y
  <2>0. PICK x \in T : TRUE
    OBVIOUS
  <2>1. U \in SUBSET Nat /\ U # {}
    <3>1. n - x \in U
      OBVIOUS
    <3>2. \A y \in T : n - y \in Nat
      OBVIOUS
    <3> QED
      BY <3>1, <3>2
  <2> HIDE DEF U
  <2> QED
    BY <2>1, LeastNatural
<1>2. PICK x \in T : u = n - x
  BY <1>1
<1>3. \A y \in T : n - y \in U
  OBVIOUS
<1> HIDE DEF U
<1>4. ASSUME NEW y \in T PROVE y <= x
  <2>1. n - x <= n - y
    BY <1>1, <1>2, <1>3
  <2> QED
    BY <2>1
<1> QED
  BY <1>4

Ascends(serial) == \A i, j \in DOMAIN serial : i < j => serial[i] <= serial[j]

\* The first position of those up to e whose serial is within the span.
Leftmost(serial, maxSpan, e, s) ==
    /\ s \in 1..e /\ serial[e] - serial[s] <= maxSpan
    /\ \A t \in 1..(s - 1) : serial[e] - serial[t] > maxSpan

LEMMA LeftmostExists ==
    ASSUME NEW serial \in Seq(Int), NEW m \in Nat, NEW e \in 1..Len(serial)
    PROVE  \E s : Leftmost(serial, m, e, s)
<1> DEFINE T == {s \in 1..e : serial[e] - serial[s] <= m}
<1>1. T \in SUBSET Nat /\ e \in T
  OBVIOUS
<1>2. PICK s \in T : \A t \in T : s <= t
  <2> HIDE DEF T
  <2> QED
    BY <1>1, LeastNatural
<1>3. ASSUME NEW t \in 1..(s - 1) PROVE serial[e] - serial[t] > m
  <2>1. t \notin T /\ t \in 1..e
    BY <1>2
  <2>2. serial[e] \in Int /\ serial[t] \in Int
    BY <2>1
  <2> QED
    BY <2>1, <2>2
<1> QED
  BY <1>2, <1>3 DEF Leftmost

LEMMA LeftmostUnique ==
    ASSUME NEW serial \in Seq(Int), NEW m \in Nat, NEW e \in 1..Len(serial),
           NEW s, NEW t, Leftmost(serial, m, e, s), Leftmost(serial, m, e, t)
    PROVE  s = t
<1>1. s \in 1..e /\ t \in 1..e
  BY DEF Leftmost
<1>2. serial[e] \in Int /\ serial[s] \in Int /\ serial[t] \in Int
  BY <1>1
<1>3. ~(s < t) /\ ~(t < s)
  BY <1>1, <1>2 DEF Leftmost
<1> QED
  BY <1>1, <1>3

\* A window that starts no later than it has to is moved on to where it has to start.
LEMMA StartsLeftmost ==
    ASSUME NEW serial \in Seq(Int), NEW m \in Nat, NEW e \in 1..Len(serial),
           NEW s, Leftmost(serial, m, e, s), NEW from \in 1..s
    PROVE  StartsAt(serial, e, from, m) = s
<1> DEFINE P(x) == /\ serial[e] - serial[x] <= m
                   /\ \A t \in from..(x - 1) : serial[e] - serial[t] > m
<1>1. s \in from..e /\ P(s)
  BY DEF Leftmost
<1>2. ASSUME NEW x \in from..e, P(x) PROVE x = s
  <2>1. s \in 1..e /\ x \in 1..e
    BY <1>1
  <2>2. serial[e] \in Int /\ serial[s] \in Int /\ serial[x] \in Int
    BY <2>1
  <2>3. ~(s < x)
    BY <1>1, <1>2, <2>1, <2>2
  <2>4. ~(x < s)
    BY <1>1, <1>2, <2>1, <2>2
  <2> QED
    BY <2>1, <2>3, <2>4
<1>3. StartsAt(serial, e, from, m) = CHOOSE x \in from..e : P(x)
  BY DEF StartsAt
<1> HIDE DEF P
<1> QED
  BY <1>1, <1>2, <1>3

\* What the loop keeps from one serial to the next.
LEMMA WindowsStartLeftmost ==
    ASSUME NEW serial \in Seq(Int), Ascends(serial), NEW m \in Nat
    PROVE  \A e \in 1..Len(serial) : Leftmost(serial, m, e, WindowStarts(serial, m)[e])
<1> DEFINE L == [e \in 1..Len(serial) |-> CHOOSE s : Leftmost(serial, m, e, s)]
           From(g, e) == IF e = 1 THEN 1 ELSE g[e - 1]
           Step(g) == [e \in 1..Len(serial) |-> StartsAt(serial, e, From(g, e), m)]
<1>1. ASSUME NEW e \in 1..Len(serial) PROVE Leftmost(serial, m, e, L[e])
  BY LeftmostExists
<1>0. L = [e \in 1..Len(serial) |-> L[e]]
  OBVIOUS
<1> HIDE DEF L
<1>2. ASSUME NEW e \in 1..Len(serial), e > 1 PROVE L[e - 1] \in 1..L[e]
  <2>0. e - 1 \in 1..Len(serial)
    BY <1>2
  <2>1. /\ L[e - 1] \in 1..(e - 1) /\ serial[e - 1] - serial[L[e - 1]] <= m
        /\ \A t \in 1..(L[e - 1] - 1) : serial[e - 1] - serial[t] > m
    BY <1>1, <2>0 DEF Leftmost
  <2>2. L[e] \in 1..e /\ serial[e] - serial[L[e]] <= m
    BY <1>1 DEF Leftmost
  <2>3. serial[e - 1] <= serial[e]
    BY <2>0, <1>2 DEF Ascends
  <2>4. serial[e] \in Int /\ serial[e - 1] \in Int /\ serial[L[e]] \in Int
    BY <2>0, <2>2
  <2>5. ~(L[e] < L[e - 1])
    <3> SUFFICES ASSUME L[e] < L[e - 1] PROVE FALSE
      OBVIOUS
    <3>1. L[e] \in 1..(L[e - 1] - 1)
      BY <2>1, <2>2
    <3>2. serial[e - 1] - serial[L[e]] > m
      BY <2>1, <3>1
    <3> QED
      BY <2>2, <2>3, <2>4, <3>2
  <2> QED
    BY <2>1, <2>2, <2>5
<1>3. L = Step(L)
  <2>1. ASSUME NEW e \in 1..Len(serial) PROVE L[e] = StartsAt(serial, e, From(L, e), m)
    <3>1. From(L, e) \in 1..L[e]
      BY <1>1, <1>2 DEF Leftmost
    <3> HIDE DEF From
    <3> QED
      BY <1>1, <3>1, StartsLeftmost
  <2> HIDE DEF From
  <2> QED
    BY <1>0, <2>1
<1>4. WindowStarts(serial, m) = Step(WindowStarts(serial, m))
  <2>1. WindowStarts(serial, m) = CHOOSE g : g = Step(g)
    BY DEF WindowStarts
  <2> HIDE DEF Step
  <2> QED
    BY <1>3, <2>1
<1> DEFINE G == WindowStarts(serial, m)
<1>5. \A e \in 1..Len(serial) : G[e] = L[e]
  <2> DEFINE Bad == {e \in 1..Len(serial) : G[e] # L[e]}
  <2> SUFFICES ASSUME Bad # {} PROVE FALSE
    OBVIOUS
  <2>1. PICK e \in Bad : \A y \in Bad : e <= y
    <3>1. Bad \in SUBSET Nat
      OBVIOUS
    <3> HIDE DEF Bad
    <3> QED
      BY <3>1, LeastNatural
  <2>2. From(G, e) = From(L, e)
    <3>1. CASE e = 1
      BY <3>1
    <3>2. CASE e # 1
      <4>1. e - 1 \in 1..Len(serial) /\ ~(e <= e - 1)
        BY <3>2
      <4>2. e - 1 \notin Bad
        BY <2>1, <4>1
      <4> QED
        BY <3>2, <4>1, <4>2
    <3> QED
      BY <3>1, <3>2
  <2>3. G[e] = StartsAt(serial, e, From(G, e), m)
    BY <1>4
  <2>4. L[e] = StartsAt(serial, e, From(L, e), m)
    BY <1>3
  <2> QED
    BY <2>2, <2>3, <2>4
<1> QED
  BY <1>1, <1>5
-----------------------------------------------------------------------------
\* A finite set can be sorted: every element has its rank, equal ones by their place in
\* some enumeration.
LEMMA SortedExists ==
    ASSUME NEW S, IsFiniteSet(S), NEW value \in [S -> Int]
    PROVE  \E s \in SetToSeqs(S) : \A i, j \in DOMAIN s : i < j => value[s[i]] <= value[s[j]]
<1>. DEFINE n == Cardinality(S)
<1>1. n \in Nat /\ ExistsBijection(1..n, S)
  BY FS_CardinalityType
<1>. HIDE DEF n
<1>2. PICK f \in Bijection(1..n, S) : TRUE
  BY <1>1 DEF ExistsBijection
<1>3. /\ f \in [1..n -> S]
      /\ \A i, j \in 1..n : f[i] = f[j] => i = j
  BY <1>2 DEF Bijection, Injection, IsInjective
<1>4. IsFiniteSet(1..n) /\ Cardinality(1..n) = n
  BY <1>1, FS_Interval
<1>. DEFINE v == [i \in 1..n |-> value[f[i]]]
<1>5. v \in [1..n -> Int]
  BY <1>3
<1>5a. \A i \in 1..n : v[i] = value[f[i]]
  OBVIOUS
<1>. HIDE DEF v
<1>. DEFINE Before(i, j) == v[i] < v[j] \/ (v[i] = v[j] /\ i < j)
            Below(i) == {j \in 1..n : Before(j, i)}
            rank == [i \in 1..n |-> Cardinality(Below(i)) + 1]
<1>6. \A i, j, k \in 1..n : Before(i, j) /\ Before(j, k) => Before(i, k)
  BY <1>1, <1>5
<1>7. \A i, j \in 1..n : i # j => Before(i, j) \/ Before(j, i)
  BY <1>1, <1>5
<1>8. \A i \in 1..n : ~Before(i, i)
  BY <1>1, <1>5
<1>8a. \A i, j \in 1..n : Before(i, j) => v[i] <= v[j]
  BY <1>1, <1>5
<1>. HIDE DEF Before
<1>9. ASSUME NEW i \in 1..n
      PROVE  IsFiniteSet(Below(i)) /\ Cardinality(Below(i)) \in 0..(n - 1)
  <2>1. Below(i) \in SUBSET (1..n) /\ Below(i) # 1..n
    BY <1>8
  <2>. HIDE DEF Below
  <2>2. IsFiniteSet(Below(i)) /\ Cardinality(Below(i)) <= n /\ Cardinality(Below(i)) # n
    BY <1>4, <2>1, FS_Subset
  <2>3. Cardinality(Below(i)) \in Nat
    BY <2>2, FS_CardinalityType
  <2>. QED  BY <1>1, <2>2, <2>3
<1>10. ASSUME NEW i \in 1..n, NEW j \in 1..n, Before(i, j)
       PROVE  rank[i] < rank[j]
  <2>1. Below(i) \in SUBSET Below(j) /\ Below(i) # Below(j)
    BY <1>6, <1>8, <1>10
  <2>2. rank[i] = Cardinality(Below(i)) + 1 /\ rank[j] = Cardinality(Below(j)) + 1
    OBVIOUS
  <2>. HIDE DEF Below, rank
  <2>3. Cardinality(Below(i)) <= Cardinality(Below(j)) /\ Cardinality(Below(i)) # Cardinality(Below(j))
    BY <1>9, <2>1, FS_Subset
  <2>4. Cardinality(Below(i)) \in Nat /\ Cardinality(Below(j)) \in Nat
    BY <1>9, FS_CardinalityType
  <2>. QED  BY <2>2, <2>3, <2>4
<1>11. rank \in [1..n -> 1..n]
  <2>. HIDE DEF Below
  <2>. QED  BY <1>1, <1>9
<1>. HIDE DEF rank
<1>12. rank \in Injection(1..n, 1..n)
  <2>1. ASSUME NEW i \in 1..n, NEW j \in 1..n, i # j
        PROVE  rank[i] # rank[j]
    <3>1. rank[i] < rank[j] \/ rank[j] < rank[i]
      BY <1>7, <1>10, <2>1
    <3>. QED  BY <1>11, <3>1
  <2>. QED  BY <1>11, <2>1 DEF Injection, IsInjective
<1>13. rank \in Surjection(1..n, 1..n)
  BY <1>4, <1>12, FS_Injection
<1>. DEFINE at == [k \in 1..n |-> CHOOSE i \in 1..n : rank[i] = k]
            s == [k \in 1..n |-> f[at[k]]]
<1>14. \A k \in 1..n : at[k] \in 1..n /\ rank[at[k]] = k
  BY <1>13 DEF Surjection
<1>. HIDE DEF at
<1>15. ASSUME NEW k \in 1..n, NEW l \in 1..n, k < l
       PROVE  s[k] # s[l] /\ value[s[k]] <= value[s[l]]
  <2>1. at[k] \in 1..n /\ at[l] \in 1..n /\ rank[at[k]] = k /\ rank[at[l]] = l
    BY <1>14
  <2>2. at[k] # at[l] /\ ~Before(at[l], at[k])
    BY <1>10, <1>15, <2>1
  <2>3. Before(at[k], at[l])
    BY <1>7, <2>1, <2>2
  <2>. QED  BY <1>3, <1>5a, <1>8a, <2>1, <2>2, <2>3
<1>16. s \in SetToSeqs(S)
  <2>1. s \in [1..n -> S]
    BY <1>3, <1>14
  <2>2. \A k, l \in 1..n : k # l => s[k] # s[l]
    <3>. HIDE DEF s
    <3>. QED  BY <1>1, <1>15
  <2>. HIDE DEF s
  <2>. QED  BY <2>1, <2>2 DEF SetToSeqs, n
<1>17. DOMAIN s = 1..n
  OBVIOUS
<1>. HIDE DEF s
<1>. QED  BY <1>15, <1>16, <1>17

HaveSerials(c, S) == IsFiniteSet(S) /\ \A b \in S : Serial(c, b) \in Int

\* All of S, in ascending order of the serials.
Sorted(c, S, entries) ==
    /\ entries \in Seq(S) /\ Len(entries) = Cardinality(S)
    /\ \A b \in S : \E i \in 1..Len(entries) : entries[i] = b
    /\ \A i, j \in 1..Len(entries) : i < j => Serial(c, entries[i]) <= Serial(c, entries[j])

\* What the sort returns.
LEMMA SerialOrder ==
    ASSUME NEW c, NEW S, HaveSerials(c, S)
    PROVE  Sorted(c, S, InSerialOrder(c, S))
<1>. DEFINE n == Cardinality(S)
            value == [b \in S |-> Serial(c, b)]
            entries == InSerialOrder(c, S)
<1>. USE DEF HaveSerials
<1>0. n \in Nat /\ IsFiniteSet(1..n) /\ Cardinality(1..n) = n
  BY FS_CardinalityType, FS_Interval
<1>1. \A s \in SetToSeqs(S) : /\ s \in [1..n -> S]
                              /\ \A i, j \in 1..n : i # j => s[i] # s[j]
  BY DEF SetToSeqs
<1>. HIDE DEF n
<1>2. PICK s \in SetToSeqs(S) : \A i, j \in DOMAIN s : i < j => value[s[i]] <= value[s[j]]
  <2>1. value \in [S -> Int]
    OBVIOUS
  <2>. HIDE DEF value
  <2>. QED  BY <2>1, SortedExists
<1>3. \A i, j \in DOMAIN s : i < j => Serial(c, s[i]) <= Serial(c, s[j])
  BY <1>1, <1>2
<1>4. /\ entries \in SetToSeqs(S)
      /\ \A i, j \in DOMAIN entries : i < j => Serial(c, entries[i]) <= Serial(c, entries[j])
  BY <1>3 DEF InSerialOrder
<1>. HIDE DEF entries
<1>5. /\ entries \in [1..n -> S]
      /\ \A i, j \in 1..n : i # j => entries[i] # entries[j]
  BY <1>1, <1>4
<1>6. entries \in Seq(S) /\ Len(entries) = n
  BY <1>0, <1>5
<1>7. entries \in Injection(1..n, S)
  BY <1>5 DEF Injection, IsInjective
<1>8. entries \in Surjection(1..n, S)
  BY <1>0, <1>7, FS_Injection DEF n
<1>9. \A b \in S : \E i \in 1..n : entries[i] = b
  BY <1>8 DEF Surjection
<1>. QED  BY <1>4, <1>5, <1>6, <1>9 DEF n, Sorted, entries

\* More applications are from no fewer households, and from no more than there are of them.
LEMMA HouseholdsGrow ==
    ASSUME NEW c, NEW B, IsFiniteSet(B), NEW A \in SUBSET B
    PROVE  /\ Households(c, A) \in Nat /\ Households(c, B) \in Nat
           /\ Households(c, A) <= Households(c, B)
           /\ Households(c, B) <= Cardinality(B)
<1>. DEFINE homes(S) == {Home(c, x) : x \in S}
            f == [x \in B |-> Home(c, x)]
<1>1. f \in Surjection(B, homes(B))
  BY DEF Surjection
<1>2. homes(A) \in SUBSET homes(B)
  OBVIOUS
<1>. HIDE DEF homes, f
<1>3. IsFiniteSet(homes(B)) /\ Cardinality(homes(B)) <= Cardinality(B)
  BY <1>1, FS_Surjection
<1>4. IsFiniteSet(homes(A)) /\ Cardinality(homes(A)) <= Cardinality(homes(B))
  BY <1>2, <1>3, FS_Subset
<1>5. Cardinality(homes(A)) \in Nat /\ Cardinality(homes(B)) \in Nat
  BY <1>3, <1>4, FS_CardinalityType
<1>. QED  BY <1>3, <1>4, <1>5 DEF Households, homes

\* The reported windows are the runs, as far as one application can tell.
LEMMA WindowsAreRuns ==
    ASSUME NEW c, NEW a, HaveSerials(c, Series(c, a)),
           c.cfg.maxSerialSpan \in Nat, c.cfg.minDistinctHouseholds \in Nat
    PROVE  Serials(c, a) # {} <=> InSerialRun(c, a)
<1>. DEFINE S == Series(c, a)
            m == c.cfg.maxSerialSpan
            least == c.cfg.minDistinctHouseholds
            entries == InSerialOrder(c, S)
            n == Len(entries)
            serial == [i \in DOMAIN entries |-> Serial(c, entries[i])]
            st == WindowStarts(serial, m)
            Slice(lo, hi) == {entries[i] : i \in lo..hi}
<1>1. /\ entries \in Seq(S) /\ n = Cardinality(S)
      /\ \A b \in S : \E i \in 1..n : entries[i] = b
      /\ \A i, j \in 1..n : i < j => Serial(c, entries[i]) <= Serial(c, entries[j])
  <2>1. Sorted(c, S, entries)
    BY SerialOrder
  <2>. HIDE DEF entries, S
  <2>. QED  BY <2>1 DEF Sorted
<1>1a. IsFiniteSet(S) /\ \A b \in S : Serial(c, b) \in Int
  BY DEF HaveSerials
<1>. HIDE DEF entries
<1>2. /\ serial \in Seq(Int) /\ Len(serial) = n /\ Ascends(serial)
      /\ \A i \in 1..n : serial[i] = Serial(c, entries[i])
  <2>1. n \in Nat /\ DOMAIN entries = 1..n /\ \A i \in 1..n : entries[i] \in S
    BY <1>1
  <2>. HIDE DEF S, n
  <2>2. \A i \in 1..n : serial[i] = Serial(c, entries[i]) /\ serial[i] \in Int
    BY <1>1a, <2>1
  <2>3. DOMAIN serial = 1..n /\ serial = [i \in 1..n |-> serial[i]]
    BY <2>1
  <2>. HIDE DEF serial
  <2>4. serial \in Seq(Int) /\ Len(serial) = n
    BY <2>1, <2>2, <2>3
  <2>5. \A i, j \in 1..n : i < j => serial[i] <= serial[j]
    BY <1>1, <2>2
  <2>6. Ascends(serial)
    BY <2>3, <2>5 DEF Ascends
  <2>. QED  BY <2>2, <2>4, <2>6
<1>3. Serials(c, a) =
        IF n < least THEN {}
        ELSE {win \in {Slice(w[1], w[2]) : w \in Windows(serial, m)} :
                a \in win /\ Households(c, win) >= least}
  BY DEF Serials, entries
<1>. HIDE DEF serial
<1>4. Windows(serial, m) =
        {<<st[e], e>> : e \in {x \in 1..n : ~(x < n /\ serial[x + 1] - serial[st[x]] <= m)}}
  BY <1>2 DEF Windows
<1>5. \A e \in 1..n : Leftmost(serial, m, e, st[e])
  BY <1>2, WindowsStartLeftmost
<1>. HIDE DEF st
<1>6. n \in Nat /\ \A i \in 1..n : entries[i] \in S /\ serial[i] \in Int
  BY <1>1, <1>2
<1>6a. \A i, j \in 1..n : i <= j => serial[i] <= serial[j]
  BY <1>1, <1>2, <1>6
<1>. HIDE DEF n
<1>7. ASSUME Serials(c, a) # {}
      PROVE  InSerialRun(c, a)
  <2>1. PICK win \in {Slice(w[1], w[2]) : w \in Windows(serial, m)} :
             a \in win /\ Households(c, win) >= least
    <3>. HIDE DEF Slice
    <3>. QED  BY <1>3, <1>7
  <2>2. PICK e \in 1..n : win = Slice(st[e], e)
    <3>1. PICK w \in Windows(serial, m) : win = Slice(w[1], w[2])
      BY <2>1
    <3>. HIDE DEF Slice
    <3>. QED  BY <1>4, <3>1
  <2>3. st[e] \in 1..e /\ serial[e] - serial[st[e]] <= m
    BY <1>5 DEF Leftmost
  <2>. DEFINE low == entries[st[e]]
              span == SerialSpan(c, a, low)
  <2>4. low \in S
    BY <1>6, <2>3
  <2>5. ASSUME NEW i \in st[e]..e
        PROVE  entries[i] \in span
    <3>1. i \in 1..n /\ st[e] \in 1..n /\ st[e] <= i /\ i <= e
      BY <1>6, <2>3
    <3>2. serial[st[e]] <= serial[i] /\ serial[i] <= serial[e]
      BY <1>6a, <3>1
    <3>3. serial[i] - serial[st[e]] \in 0..m
      BY <1>6, <2>3, <3>1, <3>2
    <3>. QED  BY <1>2, <1>6, <3>1, <3>3 DEF SerialSpan
  <2>6. win \in SUBSET span
    BY <2>2, <2>5
  <2>7. span \in SUBSET S
    BY DEF SerialSpan
  <2>. HIDE DEF span, low
  <2>8. IsFiniteSet(span)
    BY <1>1a, <2>7, FS_Subset
  <2>9. /\ Households(c, win) \in Nat /\ Households(c, span) \in Nat
        /\ Households(c, win) <= Households(c, span)
    BY <2>6, <2>8, HouseholdsGrow
  <2>10. a \in span /\ Households(c, span) >= least
    BY <2>1, <2>6, <2>9
  <2>. QED  BY <2>4, <2>10 DEF InSerialRun, span
<1>8. ASSUME InSerialRun(c, a)
      PROVE  Serials(c, a) # {}
  <2>1. PICK low \in S : a \in SerialSpan(c, a, low) /\ Households(c, SerialSpan(c, a, low)) >= least
    BY <1>8 DEF InSerialRun
  <2>. DEFINE span == SerialSpan(c, a, low)
              T == {i \in 1..n : entries[i] \in span}
  <2>2. PICK l \in 1..n : entries[l] = low
    BY <1>1 DEF n
  <2>3. \A i \in 1..n : i \in T <=> serial[i] - serial[l] \in 0..m
    BY <1>2, <1>6, <2>2 DEF SerialSpan
  <2>3a. span \in SUBSET S
    BY DEF SerialSpan
  <2>3b. \A b \in span : \E i \in T : entries[i] = b
    BY <1>1, <2>3a DEF n
  <2>3c. T \in SUBSET (1..n)
    OBVIOUS
  <2>. HIDE DEF T, span
  <2>4. l \in T
    BY <1>6, <2>2, <2>3
  <2>5. PICK e \in T : \A i \in T : i <= e
    BY <1>6, <2>3c, <2>4, GreatestBelow
  <2>6. e \in 1..n /\ l \in 1..e /\ serial[e] - serial[l] <= m
    BY <1>6, <2>2, <2>3, <2>3c, <2>4, <2>5
  <2>7. st[e] \in 1..e /\ \A t \in 1..(st[e] - 1) : serial[e] - serial[t] > m
    BY <1>5, <2>6 DEF Leftmost
  <2>8. ASSUME NEW i \in 1..e, serial[e] - serial[i] <= m
        PROVE  st[e] <= i
    <3>1. ~(i \in 1..(st[e] - 1))
      <4>1. serial[e] \in Int /\ serial[i] \in Int
        BY <1>6, <2>6
      <4>. QED  BY <2>7, <2>8, <4>1
    <3>. QED  BY <2>6, <2>7, <3>1
  <2>9. ~(e < n /\ serial[e + 1] - serial[st[e]] <= m)
    <3>. SUFFICES ASSUME e < n, serial[e + 1] - serial[st[e]] <= m
                  PROVE  FALSE
      OBVIOUS
    <3>1. e + 1 \in 1..n /\ st[e] \in 1..n
      BY <1>6, <2>6, <2>7
    <3>2. st[e] <= l
      BY <2>6, <2>8
    <3>3. serial[st[e]] <= serial[l] /\ serial[l] <= serial[e + 1]
      BY <1>6, <1>6a, <2>2, <2>6, <3>1, <3>2
    <3>4. serial[e + 1] - serial[l] \in 0..m
      BY <1>6, <2>2, <3>1, <3>3
    <3>5. e + 1 \in T
      BY <2>3, <3>1, <3>4
    <3>. QED  BY <2>5, <2>6, <3>5
  <2>. DEFINE win == Slice(st[e], e)
  <2>10. <<st[e], e>> \in Windows(serial, m)
    BY <1>4, <2>6, <2>9
  <2>11. ASSUME NEW b \in span
         PROVE  b \in win
    <3>1. PICK i \in T : entries[i] = b
      BY <2>3b
    <3>2. i \in 1..n /\ i <= e /\ serial[i] - serial[l] \in 0..m
      BY <2>3, <2>3c, <2>5
    <3>3. serial[e] - serial[i] <= m
      BY <1>6, <2>2, <2>6, <3>2
    <3>4. i \in st[e]..e
      BY <1>6, <2>6, <2>7, <2>8, <3>2, <3>3
    <3>. QED  BY <3>1, <3>4
  <2>12. win \in SUBSET S
    BY <1>6, <2>6, <2>7
  <2>13. win \in {Slice(w[1], w[2]) : w \in Windows(serial, m)}
    <3>1. win = Slice(<<st[e], e>>[1], <<st[e], e>>[2])
      OBVIOUS
    <3>. HIDE DEF Slice, win
    <3>. QED  BY <2>10, <3>1
  <2>. HIDE DEF win, Slice
  <2>14. IsFiniteSet(win) /\ span \in SUBSET win
    BY <1>1a, <2>11, <2>12, FS_Subset
  <2>15. /\ Households(c, span) \in Nat /\ Households(c, win) \in Nat
         /\ Households(c, span) <= Households(c, win)
    BY <2>14, HouseholdsGrow
  <2>16. Households(c, span) <= Households(c, S) /\ Households(c, S) \in Nat /\ Households(c, S) <= n
    BY <1>1, <1>1a, <2>3a, HouseholdsGrow DEF n
  <2>17. Households(c, span) >= least /\ a \in span
    BY <2>1 DEF span
  <2>18. ~(n < least)
    BY <1>6, <2>15, <2>16, <2>17
  <2>19. a \in win /\ Households(c, win) >= least
    BY <2>11, <2>15, <2>17
  <2>. QED  BY <1>3, <2>13, <2>18, <2>19
<1>. QED  BY <1>7, <1>8

LEMMA SerialsInv == Inv => SerialsAreRuns
<1>. DEFINE rule == "CERTIFICATE_SERIAL_ADJACENCY"
<1>. SUFFICES ASSUME Inv, Settled, NEW a \in Population
              PROVE  rule \in FlaggedRules(a) <=> rule \in Cycle.cfg.enabled /\ InSerialRun(Cycle, a)
  BY DEF SerialsAreRuns
<1>1. rule \in FlaggedRules(a) <=> rule \in Configs[version].enabled /\ Reasons(Cycle, a, rule) # {}
  BY SettledRules DEF RuleIds, PopulationRules
<1>2. Reasons(Cycle, a, rule) = Serials(Cycle, a)
  BY DEF Reasons
<1>3. Cycle.cfg = Configs[version] /\ DOMAIN Cycle.apps = Population
  BY DEF Cycle
<1>4. given \in Populations /\ version \in 1..Len(Configs)
  BY DEF Inv, TypeOK
<1>5. \A b \in Population : Form(Cycle, b) = given.form[b]
  BY DEF Form, Cycle
<1>6. Series(Cycle, a) \in SUBSET Population
  BY <1>3 DEF Series, Members
<1>7. IsFiniteSet(Series(Cycle, a))
  <2>1. Series(Cycle, a) \in SUBSET Apps
    BY <1>6 DEF Population
  <2>. QED  BY <2>1, ScoringAssumption, FS_Subset
<1>8. ASSUME NEW b \in Series(Cycle, a)
      PROVE  Serial(Cycle, b) \in Int
  <2>1. Form(Cycle, b).number # None
    BY DEF Series
  <2>2. b \in Population /\ b \in Apps
    BY <1>6 DEF Population
  <2>. QED  BY <1>4, <1>5, <2>1, <2>2, ScoringAssumption DEF Serial
<1>9. Cycle.cfg.maxSerialSpan \in Nat /\ Cycle.cfg.minDistinctHouseholds \in Nat
  BY <1>3, <1>4, ScoringAssumption
<1>10. Serials(Cycle, a) # {} <=> InSerialRun(Cycle, a)
  BY <1>7, <1>8, <1>9, WindowsAreRuns DEF HaveSerials
<1>. QED  BY <1>1, <1>2, <1>3, <1>10

\* The sliding window over an office's serials flags exactly the runs, for every
\* population, every span and every number of households asked for, whatever ties the sort
\* left in whichever order (rules.ts, certificateSerialAdjacency).
THEOREM SerialRunsAreFlagged == Spec => []SerialsAreRuns
BY SpecInv, SerialsInv, PTL
=============================================================================
