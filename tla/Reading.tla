------------------------------- MODULE Reading -------------------------------
(***************************************************************************)
(* How an income certificate is read and compared with the form: the page  *)
(* as it is printed (db/seed/certificate.ts), what Tesseract may do to its  *)
(* words, the label-anchored extraction of the OCR service                 *)
(* (apps/ocr-service/app/ocr.py), and the comparison of each field with    *)
(* what the applicant declared (apps/api/src/household/certificate.ts).    *)
(*                                                                         *)
(* A printed token is a string that is never taken apart; what OCR calls a *)
(* word is the sequence of printed tokens it is made of, so that two words *)
(* run together are one word of two tokens.  The scores of difflib and of  *)
(* the trigrams are tables over the tokens in question.  Tesseract's lines *)
(* are taken as reliable, as group_lines takes them.  Boxes are positions  *)
(* in the line.                                                            *)
(***************************************************************************)
EXTENDS Integers, FiniteSets, SequencesExt

CONSTANTS
    None,
    Certificates,   \* the certificates that may be uploaded, by holder
    Applicant,      \* the holder whose form it came with
    Ratio,          \* Ratio[target][tokens]: SequenceMatcher's ratio, in 1/1000
    Alike,          \* Alike[spelling]: trigram similarity of two name parts, in 1/100
    Digits,         \* Digits[token]: its digits as a number
    Initials,       \* the tokens that are an initial with its dot
    MaxHarm         \* bound: how many words or lines Tesseract gets wrong

ASSUME ReadingAssumption ==
    /\ Applicant \in DOMAIN Certificates
    /\ MaxHarm \in Nat

VARIABLES
    holder,    \* whose certificate the uploaded page is
    page,      \* page[n]: the words found on the n-th printed line, left to right
    harmed,    \* history: how much Tesseract got wrong on each printed line
    report,    \* what the service answered: a field's words and confidence
    verdict,   \* what each comparison came to
    pc

vars == <<holder, page, harmed, report, verdict, pc>>

-----------------------------------------------------------------------------
(* The printed page.                                                        *)

Labels == [applicant_name |-> <<"Name", "of", "Applicant">>,
           guardian_name |-> <<"Father", "/", "Guardian">>,
           address |-> <<"Address">>,
           district |-> <<"District">>,
           pincode |-> <<"PIN", "Code">>,
           family_size |-> <<"Members", "in", "Family">>,
           annual_income |-> <<"Annual", "Family", "Income">>,
           annual_income_words |-> <<"in", "words">>,
           certificate_id |-> <<"Certificate", "No.">>,
           issue_date |-> <<"Date", "of", "Issue">>]

RowFields == DOMAIN Labels
FieldNames == RowFields \cup {"issuing_office"}

\* The lines that carry a label, a value or the masthead; c maps a field to its tokens.
Rendered(c) ==
    <<<<"TAMIL", "NADU", "e-DISTRICT", "SIMULATED">>,
      Labels.certificate_id \o c.certificate_id \o <<"Date", "of", "Issue:">> \o c.issue_date,
      Labels.applicant_name \o c.applicant_name,
      Labels.guardian_name \o c.guardian_name,
      Labels.address \o c.address,
      Labels.district \o c.district,
      Labels.pincode \o c.pincode,
      Labels.family_size \o c.family_size,
      Labels.annual_income \o c.annual_income,
      <<"(in", "words)">> \o c.annual_income_words,
      <<"Issuing", "Authority">>,
      c.issuing_office,
      <<"Place:">> \o c.district>>

\* The printed line of each field.
Printed == [certificate_id |-> 2, issue_date |-> 2, applicant_name |-> 3, guardian_name |-> 4,
            address |-> 5, district |-> 6, pincode |-> 7, family_size |-> 8,
            annual_income |-> 9, annual_income_words |-> 10]

PrintedLines == 1..13

Clear == 96    \* a word read well, and one read badly, in percent
Faint == 27

Sheets == [h \in DOMAIN Certificates |-> Rendered(Certificates[h])]

\* The words of a page on which every token is read as a word of its own.
Words(sheet) == [n \in PrintedLines |->
    [i \in DOMAIN sheet[n] |-> [tokens |-> <<sheet[n][i]>>, conf |-> Clear]]]

-----------------------------------------------------------------------------
(* Locating a label.                                                        *)

\* The printed tokens of some words, in order.
Tokens(words) ==
    LET upto[i \in 0..Len(words)] == IF i = 0 THEN <<>> ELSE upto[i - 1] \o words[i].tokens
    IN upto[Len(words)]

\* The table, in the form TLC evaluates once.
Scores == [target \in DOMAIN Ratio |->
              [tokens \in DOMAIN Ratio[target] |-> Ratio[target][tokens]]]

Similar(tokens, target) ==
    IF target \in DOMAIN Scores /\ tokens \in DOMAIN Scores[target] THEN Scores[target][tokens] ELSE 0

Exact == 2
Merged == 1
Dropped == 0

\* Windows of as many words as the label has, of one more, and of one less when the
\* label has three or more.
Sizes(span) == {<<span, Exact>>, <<span + 1, Merged>>}
               \cup IF span >= 3 THEN {<<span - 1, Dropped>>} ELSE {}

\* Mutant of Midline: a label may stand anywhere in its line.
MidlineAll == RowFields

Midline == {"issue_date"}

Smaller(i, j) == IF i < j THEN i ELSE j

\* Mutant of Better: any exact match is as good as another.
BetterByRank(m, n) == m.rank > n.rank

Better(m, n) == m.rank > n.rank \/ (m.rank = n.rank /\ m.score > n.score)

\* Where a label was found: its rank, its score and its last word.
LabelMatches(line, label, midline) ==
    LET span == Len(label) IN
    {m \in {[rank |-> size[2], end |-> start + size[1] - 1,
             score |-> Similar(Tokens(SubSeq(line, start, start + size[1] - 1)),
                               SubSeq(label, 1, Smaller(size[1], span)))]
            : <<size, start>> \in {p \in Sizes(span) \X (IF midline THEN 1..Len(line) ELSE {1}) :
                  p[2] + p[1][1] - 1 <= Len(line)}}
        : m.score >= 780}

\* The best match; of equals, the leftmost.
FindLabel(line, label, midline) ==
    LET found == LabelMatches(line, label, midline)
    IN {m \in found : \A n \in found : /\ ~Better(n, m)
                                       /\ Better(m, n) \/ m.end <= n.end}

-----------------------------------------------------------------------------
(* The value beside it.                                                     *)

StopBefore == [f \in {"certificate_id"} |-> <<"Date">>]

\* The tail of the line, up to the word that begins the line's second label.
ValueAfter(line, end, f) ==
    LET tail == SubSeq(line, end + 1, Len(line))
        stops == {i \in DOMAIN tail : /\ f \in DOMAIN StopBefore
                                      /\ Similar(tail[i].tokens, StopBefore[f]) >= 800}
    IN IF stops = {} THEN tail
       ELSE SubSeq(tail, 1, (CHOOSE i \in stops : \A j \in stops : i <= j) - 1)

\* Mutant of MeanConfidence: the words' confidences are added up.
SumConfidence(words) == Clear * Len(words)

MeanConfidence(words) ==
    (Clear * Cardinality({i \in DOMAIN words : words[i].conf = Clear})
     + Faint * Cardinality({i \in DOMAIN words : words[i].conf = Faint})) \div Len(words)

Empty == [words |-> <<>>, conf |-> 0]
Extracted(words) == [words |-> [i \in DOMAIN words |-> words[i].tokens],
                     conf |-> MeanConfidence(words)]

\* The words of a row field: of all the lines, the one whose label matched best.
RowField(lines, f) ==
    LET hits == {h \in UNION {{[line |-> n, rank |-> m.rank, score |-> m.score,
                                words |-> ValueAfter(lines[n], m.end, f)]
                               : m \in FindLabel(lines[n], Labels[f], f \in Midline)}
                              : n \in DOMAIN lines}
                 : h.words # <<>>}
        best == {h \in hits : \A g \in hits : ~Better(g, h) /\ (Better(h, g) \/ h.line <= g.line)}
    IN IF hits = {} THEN Empty ELSE Extracted((CHOOSE h \in best : TRUE).words)

\* The line below the first "Issuing Authority".
IssuingOffice(lines) ==
    LET labels == {n \in DOMAIN lines : FindLabel(lines[n], <<"Issuing", "Authority">>, FALSE) # {}}
        first == CHOOSE n \in labels : \A k \in labels : n <= k
    IN IF labels = {} \/ first = Len(lines) THEN Empty ELSE Extracted(lines[first + 1])

ExtractFields(lines) == [f \in FieldNames |->
    IF f = "issuing_office" THEN IssuingOffice(lines) ELSE RowField(lines, f)]

-----------------------------------------------------------------------------
(* The income, in figures and in words.                                     *)

Figures(words) == {w \in UNION {Range(words[i]) : i \in DOMAIN words} : w \in DOMAIN Digits}

\* The band of a household's income; one token of the line carries digits.
ParseIncome(words) ==
    LET n == {Digits[w] : w \in Figures(words)} \cap 1000..100000000
    IN IF n = {} THEN None ELSE CHOOSE k \in n : TRUE

WordValues == [Two |-> 2, Four |-> 4, Forty |-> 40, Eighty |-> 80]
WordScales == [Hundred |-> 100, Thousand |-> 1000, Lakh |-> 100000]

AtLeastOne(n) == IF n = 0 THEN 1 ELSE n

\* Scale words close the group before them; a run-together word is no word of either kind.
ParseIncomeWords(words) ==
    LET Step(s, w) ==
            IF Len(w) > 1 THEN s
            ELSE IF w[1] \in DOMAIN WordValues
            THEN [s EXCEPT !.group = @ + WordValues[w[1]], !.seen = TRUE]
            ELSE IF w[1] \notin DOMAIN WordScales THEN s
            ELSE LET n == AtLeastOne(s.group) * WordScales[w[1]] IN
                 IF WordScales[w[1]] >= 1000
                 THEN [s EXCEPT !.total = @ + n, !.group = 0, !.seen = TRUE]
                 ELSE [s EXCEPT !.group = n, !.seen = TRUE]
        end == FoldLeft(Step, [total |-> 0, group |-> 0, seen |-> FALSE], words)
    IN IF end.seen THEN end.total + end.group ELSE None

IncomeMismatch(fields) ==
    LET figure == ParseIncome(fields.annual_income.words)
        written == ParseIncomeWords(fields.annual_income_words.words)
    IN IF figure = None \/ written = None THEN "unknown"
       ELSE IF figure = written THEN "agree" ELSE "differ"

\* The lines with a word on them, in the order they are printed.
Lines(p) == SelectSeq([n \in PrintedLines |-> p[n]], LAMBDA words : words # <<>>)

Analyze(p) == LET fields == ExtractFields(Lines(p))
              IN [fields |-> fields, mismatch |-> IncomeMismatch(fields)]

-----------------------------------------------------------------------------
(* The comparisons.                                                         *)

ComparedFields == {"applicant_name", "guardian_name", "certificate_id",
                   "district", "pincode", "family_size"}

\* A name's words split after the dot of an initial.
NameParts(words) ==
    LET cut(w) == SetToSortSeq({i \in DOMAIN w : i = Len(w) \/ w[i] \in Initials}, <)
        chunks(w) == [k \in DOMAIN cut(w) |->
            SubSeq(w, IF k = 1 THEN 1 ELSE cut(w)[k - 1] + 1, cut(w)[k])]
    IN FoldLeft(LAMBDA acc, w : acc \o chunks(w), <<>>, words)

IsInitial(part) == Len(part) = 1 /\ part[1] \in Initials

NormalizeName(words) ==
    [tokens |-> SelectSeq(NameParts(words), LAMBDA p : ~IsInitial(p)),
     initials |-> {p \in Range(NameParts(words)) : IsInitial(p)}]

PartSimilarity(spelling, p, q) ==
    IF p = q THEN 100
    ELSE IF {p, q} \in DOMAIN Alike[spelling] THEN Alike[spelling][{p, q}] ELSE 0

\* Each part of the shorter name finds its best counterpart in the longer one; the worst
\* of them counts.  No part of these names begins with another name's initial.
NameSimilarity(spelling, a, b) ==
    LET small == IF Len(a.tokens) <= Len(b.tokens) THEN a ELSE b
        large == IF Len(a.tokens) <= Len(b.tokens) THEN b ELSE a
        Step(s, p) ==
            LET best == {q \in s.available : \A r \in s.available :
                            PartSimilarity(spelling, p, q) >= PartSimilarity(spelling, p, r)}
            IN IF best = {} THEN [s EXCEPT !.scores = @ \cup {0}]
               ELSE LET q == CHOOSE q \in best : TRUE IN
                    [available |-> IF PartSimilarity(spelling, p, q) = 0
                                   THEN s.available ELSE s.available \ {q},
                     scores |-> s.scores \cup {PartSimilarity(spelling, p, q)}]
        scores == FoldLeft(Step, [available |-> Range(large.tokens), scores |-> {}],
                           small.tokens).scores
                  \cup IF small.initials = {} THEN {} ELSE {0}
    IN IF small.tokens = <<>> THEN 0 ELSE CHOOSE s \in scores : \A t \in scores : s <= t

WithoutShared(a, b) == [a EXCEPT !.initials = @ \ b.initials]

NamesAgree(declared, read) ==
    LET a == NormalizeName(declared)
        b == NormalizeName(read)
    IN \E spelling \in {"plain", "skeleton"} :
           NameSimilarity(spelling, WithoutShared(a, b), WithoutShared(b, a)) >= 25

Joined(words) == Tokens([i \in DOMAIN words |-> [tokens |-> words[i]]])
Number(words) == {Digits[w] : w \in Figures(words)}

Agrees(f, declared, read) ==
    CASE f \in {"applicant_name", "guardian_name"} -> NamesAgree(declared, read)
      [] f = "certificate_id" -> Joined(declared) = Joined(read)
      [] f = "district" -> \/ Joined(declared) = Joined(read)
                           \/ PartSimilarity("plain", Joined(declared), Joined(read)) >= 50
      [] f = "pincode" -> {n \div 1000 : n \in Number(declared)} = {n \div 1000 : n \in Number(read)}
      [] OTHER -> Number(declared) # {} /\ Number(declared) = Number(read)

MinOcrConfidence == 80

Declared(f) == [i \in DOMAIN Certificates[Applicant][f] |-> <<Certificates[Applicant][f][i]>>]

CompareField(rep, f) ==
    IF rep.fields[f].words = <<>> \/ rep.fields[f].conf < MinOcrConfidence THEN "skipped"
    ELSE IF Agrees(f, Declared(f), rep.fields[f].words) THEN "pass" ELSE "fail"

IncomeWordsCheck(rep) ==
    IF \/ rep.mismatch = "unknown"
       \/ rep.fields.annual_income.conf < MinOcrConfidence
       \/ rep.fields.annual_income_words.conf < MinOcrConfidence
    THEN "skipped"
    ELSE IF rep.mismatch = "differ" THEN "fail" ELSE "pass"

Checks == ComparedFields \cup {"income_words"}
Compared(rep) == [k \in Checks |->
    IF k = "income_words" THEN IncomeWordsCheck(rep) ELSE CompareField(rep, k)]

-----------------------------------------------------------------------------
(* One upload.                                                              *)

Init ==
    /\ holder \in DOMAIN Certificates
    /\ page = Words(Sheets[holder])
    /\ harmed = [n \in PrintedLines |-> 0]
    /\ report = None
    /\ verdict = None
    /\ pc = "scan"

\* Tesseract gets something wrong on the n-th line.
Harm(n, words) ==
    /\ pc = "scan" /\ FoldFunction(+, 0, harmed) < MaxHarm
    /\ page' = [page EXCEPT ![n] = words]
    /\ harmed' = [harmed EXCEPT ![n] = @ + 1]
    /\ UNCHANGED <<holder, report, verdict, pc>>

\* A word is not found, or is found with no confidence at all and left out.
LoseWord(n, i) == Harm(n, RemoveAt(page[n], i))

\* The space between two words is not seen.
RunTogether(n, i) ==
    i < Len(page[n]) /\ Harm(n, [RemoveAt(page[n], i + 1) EXCEPT ![i] =
        [tokens |-> page[n][i].tokens \o page[n][i + 1].tokens, conf |-> page[n][i].conf]])

ReadFaintly(n, i) ==
    page[n][i].conf = Clear /\ Harm(n, [page[n] EXCEPT ![i].conf = Faint])

\* A shadow or the edge of the scan takes the left of a line, up to its i-th word, or all of it.
LoseLeft(n, i) == i > 1 /\ Harm(n, SubSeq(page[n], i + 1, Len(page[n])))

\* The service's answer to the pipeline's request.
Read ==
    /\ pc = "scan"
    /\ report' = Analyze(page)
    /\ pc' = "read"
    /\ UNCHANGED <<holder, page, harmed, verdict>>

\* The rules and the checklist compare it with the form.
Compare ==
    /\ pc = "read"
    /\ verdict' = Compared(report)
    /\ pc' = "done"
    /\ UNCHANGED <<holder, page, harmed, report>>

Next ==
    \/ \E n \in PrintedLines : \E i \in DOMAIN page[n] :
           LoseWord(n, i) \/ RunTogether(n, i) \/ ReadFaintly(n, i) \/ LoseLeft(n, i)
    \/ Read \/ Compare

Spec == Init /\ [][Next]_vars

-----------------------------------------------------------------------------
(* Properties.                                                              *)

\* The label of a field can be read on its own line, exactly, and has a value beside it.
Legible(f) == \E m \in FindLabel(page[Printed[f]], Labels[f], f \in Midline) :
    m.rank = Exact /\ ValueAfter(page[Printed[f]], m.end, f) # <<>>

\* ocr.py, "a weak match on an early line must not beat an exact match further down the
\* page": what is read of a field is text of the line its label is printed on, whichever
\* MaxHarm words or parts of lines are misread, with one exception that the code has too.
\* When the district's line is illegible and the masthead has lost what is left of its
\* "e-DISTRICT", the anchor of _find_label does not help: "SIMULATED" is read as the district.
RowsApart ==
    report # None => \A f \in RowFields :
        LET read == Figures(report.fields[f].words) \cup Range(Joined(report.fields[f].words)) IN
        \/ read \subseteq Range(Sheets[holder][Printed[f]])
        \/ /\ f = "district" /\ ~Legible(f) /\ read = {"SIMULATED"}
           /\ page[1] # <<>> /\ page[1][1].tokens = <<"e-DISTRICT">>

LinesOf(k) == IF k = "income_words" THEN {Printed.annual_income, Printed.annual_income_words}
              ELSE {Printed[k]}

\* What the comparisons come to when the page is read without an error.
Flawless == [h \in DOMAIN Certificates |-> Compared(Analyze(Words(Sheets[h])))]

\* ocr.py and certificate.ts: a misread elsewhere on the page never changes what a
\* comparison says of a line that was read well.
HarmStaysLocal ==
    verdict # None => \A k \in Checks :
        (\A n \in LinesOf(k) : harmed[n] = 0) => verdict[k] = Flawless[holder][k]

=============================================================================
