----------------------------- MODULE Resolution -----------------------------
(***************************************************************************)
(* resolvePrepared (apps/api/src/household/resolve.ts): from how similar   *)
(* two applications are in each field to whether they are one household.   *)
(* Similarities are in ten-thousandths, the precision an edge is stored    *)
(* with; weights are in hundredths, so a score is in millionths.           *)
(***************************************************************************)
EXTENDS Integers, FiniteSets

One == 10000

\* The fields two applications are compared in; how similar they are is a number in 0..One.
MatchFields == {"guardian_name", "applicant_name", "address", "phone"}

FieldWeight == [guardian_name |-> 50, address |-> 40, applicant_name |-> 20, phone |-> 15]

\* Below its threshold a field is not evidence of anything; phones match or do not.
FieldThreshold == [guardian_name |-> 5500, address |-> 6000, applicant_name |-> 6500, phone |-> One]

\* Mutant of LinkThreshold: what the guardian alone can reach.
LinkThresholdLow == 500000

LinkThreshold == 550000

\* The fields of a pair that are edges of it.
MatchedBy(sim) == {f \in MatchFields : sim[f] >= FieldThreshold[f]}

Part(sim, f) == IF f \in MatchedBy(sim) THEN FieldWeight[f] * sim[f] ELSE 0

Score(sim) == Part(sim, "guardian_name") + Part(sim, "applicant_name")
              + Part(sim, "address") + Part(sim, "phone")

Linked(sim) == Score(sim) >= LinkThreshold

\* The score as it is stored and shown: rounded to four digits.
ShownScore(sim) == (Score(sim) + 50) \div 100
=============================================================================
