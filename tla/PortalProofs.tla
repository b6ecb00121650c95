--------------------------- MODULE PortalProofs ---------------------------
(***************************************************************************)
(* What holds of Portal for any family, any number of pages, links, lost   *)
(* answers and refusals.  Inv is inductive: beside the types it relates a  *)
(* page to the requests it made, which a page loaded later does not share. *)
(***************************************************************************)
EXTENDS Portal, TLAPS

Links == {0} \cup DOMAIN link

Pages(L) == [at : {"away", "apply", "list", "ask", "consume"}, visit : Nat,
             existing : BOOLEAN, link : L, form : Person,
             another : BOOLEAN, submitted : Person,
             started : BOOLEAN, busy : BOOLEAN, note : Notes, overtaken : BOOLEAN,
             used : BOOLEAN]
Requests(L) == [op : {"submit", "exchange", "ask"}, who : Person, link : L, from : Nat,
                again : BOOLEAN, answer : Notes]

\* The variables but page and calls keep their types.
RestTyped ==
    /\ filed \subseteq Siblings /\ proved \in BOOLEAN
    /\ link \in Seq(BOOLEAN)
    /\ session \in BOOLEAN
    /\ draft \in Person /\ receipt \in Person
    /\ since \in Nat /\ faults \in Nat

Typed == RestTyped /\ page \in Pages(Links) /\ calls \subseteq Requests(Links)

\* A disabled button waits for a request.
Waited == page.busy => \E c \in calls : Own(c)

\* No request is of a page still to come; a page shown was loaded since the full load.
Ordered ==
    /\ \A c \in calls : c.from <= page.visit
    /\ since <= page.visit + 1
    /\ page.at # "away" => since <= page.visit
    /\ page.busy => page.at # "away"

\* An accepted submission is on file.
Filed ==
    /\ receipt # Nobody => receipt \in filed
    /\ \A c \in calls : c.op = "submit" =>
           c.who \in Siblings /\ (c.answer = "ok" => c.who \in filed)

\* The form page shows what a refresh would bring back.
Shown == page.at = "apply" /\ ~page.overtaken =>
             page.submitted = receipt /\ (ShowingForm => page.form = draft)

Exchanging(c) == Own(c) /\ c.op = "exchange"

\* The API has answered the page's exchange, and not accepted the link.
Rejected == page.at = "consume" /\ page.note \notin {"none", "lost"}

\* A page exchanges its link in one request, and has used it up only if that succeeded.
Once ==
    /\ \A c \in calls : Own(c) /\ page.at = "consume" => c.op = "exchange"
    /\ \A c \in calls : Exchanging(c) => page.started
    /\ \A c, d \in calls : Exchanging(c) /\ Exchanging(d) => c = d
    /\ \A c \in calls : Exchanging(c) /\ c.answer # "ok" => ~page.used
    /\ \A c \in calls : Exchanging(c) => ~Rejected
    /\ ~page.started => ~page.used /\ ~Rejected
    /\ page.used => ~Rejected

Inv == Typed /\ Waited /\ Ordered /\ Filed /\ Shown /\ Once

-----------------------------------------------------------------------------
(* Types.                                                                   *)

LEMMA TypesAgree == TypeOK <=> Typed /\ Waited
BY DEF TypeOK, Typed, RestTyped, Waited, Pages, Requests, Links

LEMMA ConstantsTyped ==
    /\ Nobody \in Person /\ Siblings \subseteq Person /\ Nobody \notin Siblings
    /\ NoPage \in Pages(Links)
    /\ NoPage.visit = 0 /\ NoPage.at = "away" /\ NoPage.submitted = Nobody
    /\ NoPage.form = Nobody
BY PortalAssumption DEF PortalAssumption, Person, NoPage, Pages, Links, Notes

LEMMA Initially == Init => Inv
<1>1. SUFFICES ASSUME Init PROVE Inv
  OBVIOUS
<1>2. link = <<>> /\ link \in Seq(BOOLEAN)
  BY <1>1 DEF Init
<1>3. Typed
  BY <1>1, <1>2, ConstantsTyped DEF Init, Typed, RestTyped, NoPage
<1>4. QED
  BY <1>1, <1>3 DEF Init, Inv, NoPage, Waited, Ordered, Filed, Shown, Once, Rejected

\* Links are only ever added, so whatever named one still does.
LEMMA LinksGrow ==
    ASSUME Typed, Links \subseteq Links'
    PROVE  page \in Pages(Links') /\ calls \subseteq Requests(Links')
<1>1. page \in Pages(Links')
  BY DEF Typed, Pages
<1>2. ASSUME NEW c \in calls
      PROVE  c \in Requests(Links')
  BY <1>2 DEF Typed, Requests
<1>3. QED
  BY <1>1, <1>2

-----------------------------------------------------------------------------
(* What the kinds of step preserve.                                         *)

Fresh(p) ==
    /\ p.visit = page.visit + 1 /\ p.at # "away"
    /\ ~p.busy /\ ~p.started /\ ~p.used /\ p.note = "none"

\* What a page shows, its message aside, stays as it is.
SameView ==
    /\ page'.at = page.at /\ page'.visit = page.visit
    /\ page'.existing = page.existing /\ page'.another = page.another
    /\ page'.form = page.form /\ page'.submitted = page.submitted
    /\ page'.overtaken = page.overtaken

\* Another page is loaded: no request is its own yet.
LEMMA PageLoaded ==
    ASSUME Inv, RestTyped', page' \in Pages(Links), Fresh(page'), Shown',
           calls' \subseteq calls, since' \in {since, page.visit + 1},
           UNCHANGED <<filed, link, receipt>>
    PROVE  Inv'
<1> USE DEF Inv, Fresh
<1>1. page.visit \in Nat /\ since \in Nat /\ page'.visit = page.visit + 1
  BY DEF Typed, RestTyped, Pages
<1>2. \A c \in calls' : c.from \in Nat /\ c.from <= page.visit
  BY DEF Ordered, Typed, Requests
<1>3. \A c \in calls' : ~Own(c)'
  BY <1>1, <1>2 DEF Own
<1>4. Typed'
  BY DEF Typed, Links
<1>5. Waited'
  BY DEF Waited
<1>6. Ordered'
  BY <1>1, <1>2 DEF Ordered
<1>7. Filed'
  BY DEF Filed
<1>8. Once'
  BY <1>3 DEF Once, Exchanging, Rejected
<1>9. QED
  BY <1>4, <1>5, <1>6, <1>7, <1>8

\* The applicant acts on a page, and nothing is sent.
LEMMA PageEdited ==
    ASSUME Inv, RestTyped', page' \in Pages(Links), Shown',
           page'.at = page.at, page'.visit = page.visit, page'.busy = page.busy,
           page'.started = page.started, page'.used = page.used,
           page'.note \in {page.note, "none"} \/ page.at = "apply",
           receipt' \in {receipt, Nobody}, filed \subseteq filed',
           UNCHANGED <<link, calls, since>>
    PROVE  Inv'
<1> USE DEF Inv
<1>1. \A c : Own(c)' <=> Own(c)
  BY DEF Own
<1>2. Typed'
  BY DEF Typed, Links
<1>3. Waited'
  BY <1>1 DEF Waited
<1>4. Ordered'
  BY DEF Ordered
<1>5. Filed'
  BY DEF Filed
<1>6. Once'
  BY <1>1 DEF Once, Exchanging, Rejected
<1>7. QED
  BY <1>2, <1>3, <1>4, <1>5, <1>6

\* The page sends a request.
LEMMA RequestSent ==
    ASSUME Inv, RestTyped', page' \in Pages(Links), SameView,
           NEW c \in Requests(Links), Sends(c), Own(c), c.answer = "none",
           page.at # "away", page'.used = page.used,
           page'.note = page.note \/ page'.note = "none",
           c.op = "submit" => c.who \in Siblings,
           c.op = "exchange" => ~page.started /\ page'.started,
           c.op # "exchange" => page'.started = page.started /\ page.at # "consume",
           UNCHANGED <<filed, link, receipt, draft, since>>
    PROVE  Inv'
<1> USE DEF Inv, SameView, Sends
<1>1. \A d : Own(d)' <=> Own(d)
  BY DEF Own
<1>2. Typed'
  BY DEF Typed, Links
<1>3. Waited'
  BY <1>1 DEF Waited
<1>4. Ordered'
  <2>1. c.from <= page.visit
    BY DEF Own, Typed, Pages
  <2>2. QED
    BY <2>1 DEF Ordered
<1>5. Filed'
  BY DEF Filed
<1>6. Shown'
  BY DEF Shown, ShowingForm
<1>7. Once'
  <2>2. \A d \in calls' : Exchanging(d)' => page'.started
    BY <1>1 DEF Once, Exchanging
  <2>3. \A d, e \in calls' : Exchanging(d)' /\ Exchanging(e)' => d = e
    BY <1>1 DEF Once, Exchanging
  <2>4. Rejected' => Rejected
    BY DEF Rejected
  <2>5. \A d \in calls' : Exchanging(d)' /\ d.answer # "ok" => ~page'.used
    BY <1>1 DEF Once, Exchanging
  <2>6. \A d \in calls' : Own(d)' /\ page'.at = "consume" => d.op = "exchange"
    BY <1>1 DEF Once
  <2>7. \A d \in calls' : Exchanging(d)' => ~Rejected
    BY <1>1 DEF Once, Exchanging
  <2>8. /\ ~page'.started => ~page'.used /\ ~Rejected'
        /\ page'.used => ~Rejected'
    BY <2>4 DEF Once
  <2>9. QED
    BY <2>2, <2>3, <2>4, <2>5, <2>6, <2>7, <2>8 DEF Once
<1>8. QED
  BY <1>2, <1>3, <1>4, <1>5, <1>6, <1>7

\* The API answers a request: the answer sets out if its page still waits for it.
LEMMA AnswerSent ==
    ASSUME Inv, RestTyped', page' \in Pages(Links'), SameView,
           NEW c \in calls, c.answer = "none", NEW a \in Notes, a # "none", Replies(c, a),
           page'.busy = page.busy, page'.started = page.started, page'.note = page.note,
           page'.used => page.used \/ (Exchanging(c) /\ a = "ok"),
           c.op = "submit" /\ a = "ok" => c.who \in filed',
           filed \subseteq filed', Links \subseteq Links',
           UNCHANGED <<receipt, draft, since>>
    PROVE  Inv'
<1> DEFINE r == [c EXCEPT !.answer = a]
<1> USE DEF Inv, SameView
<1>1. /\ r \in Requests(Links') /\ r.from = c.from /\ r.op = c.op /\ r.who = c.who
      /\ r.answer = a
  BY LinksGrow DEF Requests
<1>2. calls' = (calls \ {c}) \cup (IF Awaited(c) THEN {r} ELSE {})
  BY DEF Replies
<1> HIDE DEF r
<1>3. \A d : Own(d)' <=> Own(d)
  BY DEF Own
<1>4. Typed'
  BY <1>1, <1>2, LinksGrow DEF Typed
<1>5. Waited'
  <2>1. SUFFICES ASSUME page'.busy PROVE \E d \in calls' : Own(d)'
    BY DEF Waited
  <2>2. PICK d \in calls : Own(d)
    BY <2>1 DEF Waited
  <2>3. CASE d = c
    <3>1. Awaited(c)
      BY <2>1, <2>2, <2>3 DEF Awaited, Own, Ordered, Typed, RestTyped, Pages
    <3>2. r \in calls' /\ Own(r)'
      BY <1>1, <1>2, <1>3, <2>2, <2>3, <3>1 DEF Own
    <3>3. QED
      BY <3>2
  <2>4. CASE d # c
    BY <1>2, <1>3, <2>2, <2>4
  <2>5. QED
    BY <2>3, <2>4
<1>6. Ordered'
  BY <1>1, <1>2 DEF Ordered
<1>7. Filed'
  BY <1>1, <1>2 DEF Filed
<1>8. Shown'
  BY DEF Shown, ShowingForm
<1>9. Once'
  <2>1. Exchanging(r)' <=> Exchanging(c)
    BY <1>1, <1>3 DEF Exchanging, Own
  <2>2. \A d \in calls : Exchanging(d)' <=> Exchanging(d)
    BY <1>3 DEF Exchanging
  <2>3. \A d \in calls' : d = r \/ (d \in calls /\ d # c)
    BY <1>2
  <2>11. Rejected' <=> Rejected
    BY DEF Rejected
  <2>4. \A d \in calls' : Own(d)' /\ page'.at = "consume" => d.op = "exchange"
    BY <1>1, <1>3, <2>3 DEF Once, Own
  <2>5. \A d \in calls' : Exchanging(d)' => page'.started /\ ~Rejected'
    BY <2>1, <2>2, <2>3, <2>11 DEF Once
  <2>6. \A d, e \in calls' : Exchanging(d)' /\ Exchanging(e)' => d = e
    BY <2>1, <2>2, <2>3 DEF Once
  <2>7. ASSUME NEW d \in calls', Exchanging(d)', d.answer # "ok"
        PROVE  ~page'.used
    <3>1. CASE d = r
      BY <1>1, <2>1, <2>7, <3>1 DEF Once
    <3>2. CASE d \in calls /\ d # c
      BY <2>2, <2>7, <3>2 DEF Once
    <3>3. QED
      BY <2>3, <3>1, <3>2
  <2>8. ~page'.started => ~page'.used /\ ~Rejected'
    BY <2>11 DEF Once
  <2>9. page'.used => ~Rejected'
    BY <2>11 DEF Once
  <2>10. QED
    BY <2>4, <2>5, <2>6, <2>7, <2>8, <2>9 DEF Once
<1>10. QED
  BY <1>4, <1>5, <1>6, <1>7, <1>8, <1>9

\* An answer arrives, or none will: its page can be used again.
LEMMA AnswerTaken ==
    ASSUME Inv, RestTyped', page' \in Pages(Links), Shown', NEW c \in calls,
           calls' = calls \ {c}, page'.at = page.at, page'.visit = page.visit,
           page'.started = page.started, page'.used = page.used,
           Own(c) => ~page'.busy, ~Own(c) => page'.busy = page.busy,
           Rejected' => Rejected \/ (Exchanging(c) /\ c.answer # "ok"),
           receipt' # Nobody => receipt' \in filed, UNCHANGED <<filed, link, since>>
    PROVE  Inv'
<1> USE DEF Inv
<1>1. \A d : Own(d)' <=> Own(d)
  BY DEF Own
<1>2. Typed'
  BY DEF Typed, Links
<1>3. Waited'
  BY <1>1 DEF Waited
<1>4. Ordered'
  <2>1. page'.busy => page.busy
    BY DEF Typed, Pages
  <2>2. QED
    BY <2>1 DEF Ordered
<1>5. Filed'
  BY DEF Filed
<1>6. Once'
  <2>1. CASE Exchanging(c)
    BY <1>1, <2>1 DEF Once, Exchanging
  <2>2. CASE ~Exchanging(c)
    <3>1. Rejected' => Rejected
      BY <2>2
    <3>2. QED
      BY <1>1, <3>1 DEF Once, Exchanging
  <2>3. QED
    BY <2>1, <2>2
<1>7. QED
  BY <1>2, <1>3, <1>4, <1>5, <1>6

-----------------------------------------------------------------------------
(* Each operation.                                                          *)

LEMMA FormPageLoads ==
    ASSUME Inv, NEW answered \in BOOLEAN, page' = ApplyPage(page.visit + 1, answered),
           UNCHANGED <<filed, link, draft, receipt>>
    PROVE  page' \in Pages(Links) /\ Fresh(page') /\ Shown'
<1> DEFINE v == page.visit + 1
           x == Existing(answered)
           p == [NoPage EXCEPT !.at = "apply", !.visit = v, !.existing = x]
<1>1. v \in Nat /\ x \in BOOLEAN
  BY DEF Inv, Typed, RestTyped, Pages, Existing
<1>2. page' = Restored(p)
  BY DEF ApplyPage
<1> HIDE DEF v, x
<1>3. /\ p \in Pages(Links) /\ p.at = "apply" /\ p.visit = v /\ p.existing = x
      /\ ~p.another /\ ~p.busy /\ ~p.started /\ ~p.used /\ p.note = "none"
      /\ p.submitted = Nobody /\ p.form = Nobody
  BY <1>1, ConstantsTyped DEF NoPage, Pages
<1> HIDE DEF p
<1>4. draft \in Person /\ receipt \in Person
  BY DEF Inv, Typed, RestTyped
<1>5. CASE receipt # Nobody
  <2>1. page' = [p EXCEPT !.submitted = receipt]
    BY <1>2, <1>5 DEF Restored
  <2>2. QED
    BY <1>3, <1>4, <1>5, <2>1 DEF Pages, Fresh, Shown, ShowingForm, v
<1>6. CASE receipt = Nobody /\ ~x
  <2>1. page' = [p EXCEPT !.form = draft]
    BY <1>2, <1>3, <1>6 DEF Restored
  <2>2. QED
    BY <1>3, <1>4, <1>6, <2>1 DEF Pages, Fresh, Shown, ShowingForm, v
<1>7. CASE receipt = Nobody /\ x
  <2>1. page' = p
    BY <1>2, <1>3, <1>7 DEF Restored
  <2>2. QED
    BY <1>3, <1>7, <2>1 DEF Fresh, Shown, ShowingForm, v
<1>8. QED
  BY <1>5, <1>6, <1>7

LEMMA OtherPageLoads ==
    ASSUME Inv, NEW n \in Links, NEW at \in {"list", "ask", "consume"},
           page' = [NoPage EXCEPT !.at = at, !.visit = page.visit + 1, !.link = n]
    PROVE  page' \in Pages(Links) /\ Fresh(page') /\ Shown'
<1> DEFINE v == page.visit + 1
<1>1. v \in Nat
  BY DEF Inv, Typed, Pages
<1>2. page' = [NoPage EXCEPT !.at = at, !.visit = v, !.link = n]
  OBVIOUS
<1> HIDE DEF v
<1>3. QED
  BY <1>1, <1>2, ConstantsTyped DEF NoPage, Pages, Fresh, Shown, v

LEMMA UnlinkedPageLoads ==
    ASSUME Inv, NEW at \in {"list", "ask"},
           page' = [NoPage EXCEPT !.at = at, !.visit = page.visit + 1]
    PROVE  page' \in Pages(Links) /\ Fresh(page') /\ Shown'
<1> DEFINE v == page.visit + 1
<1>1. v \in Nat
  BY DEF Inv, Typed, Pages
<1>2. page' = [NoPage EXCEPT !.at = at, !.visit = v]
  OBVIOUS
<1>3. 0 \in Links
  BY DEF Links
<1> HIDE DEF v
<1>4. QED
  BY <1>1, <1>2, <1>3, ConstantsTyped DEF NoPage, Pages, Fresh, Shown, v

LEMMA LoadsWell ==
    ASSUME Inv, Loads, UNCHANGED <<filed, link, draft, receipt>>
    PROVE  page' \in Pages(Links) /\ Fresh(page') /\ Shown' /\ faults' \in Nat
<1>1. page.visit \in Nat /\ faults \in Nat
  BY DEF Inv, Typed, RestTyped, Pages
<1>2. faults' \in Nat
  <2>1. faults' = faults \/ faults' = faults + 1
    BY Zenon DEF Loads, Fault
  <2>2. QED
    BY <1>1, <2>1
<1>3. ASSUME NEW answered \in BOOLEAN, page' = StatusPage(page.visit + 1, answered)
      PROVE  page' \in Pages(Links) /\ Fresh(page') /\ Shown'
  <2>1. PICK at \in {"list", "ask"} :
            page' = [NoPage EXCEPT !.at = at, !.visit = page.visit + 1]
    BY <1>3 DEF StatusPage
  <2>2. QED
    BY <2>1, UnlinkedPageLoads
<1>4. ASSUME NEW n \in DOMAIN link, page' = LinkPage(page.visit + 1, n)
      PROVE  page' \in Pages(Links) /\ Fresh(page') /\ Shown'
  <2>1. page' = [NoPage EXCEPT !.at = "consume", !.visit = page.visit + 1, !.link = n]
    BY <1>4 DEF LinkPage
  <2>2. n \in Links
    BY DEF Links
  <2>3. QED
    BY <2>1, <2>2, OtherPageLoads
<1>5. QED
  BY <1>2, <1>3, <1>4, FormPageLoads DEF Loads

LEMMA Navigating == Inv /\ Navigate => Inv'
<1>1. SUFFICES ASSUME Inv, Navigate PROVE Inv'
  OBVIOUS
<1>2. UNCHANGED <<filed, proved, link, session, draft, receipt, calls, since>> /\ Loads
  BY <1>1 DEF Navigate, server, tab
<1>3. page' \in Pages(Links) /\ Fresh(page') /\ Shown' /\ faults' \in Nat
  BY <1>1, <1>2, LoadsWell
<1>4. RestTyped'
  BY <1>1, <1>2, <1>3 DEF Inv, Typed, RestTyped
<1>5. QED
  BY <1>1, <1>2, <1>3, <1>4, PageLoaded

LEMMA Reloading == Inv /\ Reload => Inv'
<1>1. SUFFICES ASSUME Inv, Reload PROVE Inv'
  OBVIOUS
<1>2. /\ UNCHANGED <<filed, proved, link, session, draft, receipt, calls>>
      /\ Loads /\ since' = page.visit + 1
  BY <1>1 DEF Reload, server, tab
<1>3. page' \in Pages(Links) /\ Fresh(page') /\ Shown' /\ faults' \in Nat
  BY <1>1, <1>2, LoadsWell
<1>4. page.visit + 1 \in Nat
  BY <1>1 DEF Inv, Typed, Pages
<1>5. RestTyped'
  BY <1>1, <1>2, <1>3, <1>4 DEF Inv, Typed, RestTyped
<1>6. QED
  BY <1>1, <1>2, <1>3, <1>5, PageLoaded

LEMMA Typing ==
    ASSUME Inv, NEW s \in Siblings \cup {Nobody}, Input(s)
    PROVE  Inv'
<1>1. /\ ShowingForm /\ page' = [page EXCEPT !.form = s] /\ draft' = s
      /\ UNCHANGED <<filed, proved, link, session, receipt, calls, since, faults>>
  BY DEF Input, server
<1>2. /\ page' \in Pages(Links) /\ page'.form = s /\ page'.at = page.at
      /\ page'.visit = page.visit /\ page'.busy = page.busy /\ page'.started = page.started
      /\ page'.used = page.used /\ page'.note = page.note
      /\ page'.submitted = page.submitted /\ page'.overtaken = page.overtaken
  BY <1>1 DEF Inv, Typed, Pages, Person
<1>3. RestTyped'
  BY <1>1 DEF Inv, Typed, RestTyped, Person
<1>4. Shown'
  BY <1>1, <1>2 DEF Inv, Shown
<1>5. QED
  BY <1>1, <1>2, <1>3, <1>4, PageEdited

LEMMA AnotherForm == Inv /\ ApplyForAnother => Inv'
<1>1. SUFFICES ASSUME Inv, ApplyForAnother PROVE Inv'
  OBVIOUS
<1> DEFINE p == [page EXCEPT !.another = TRUE]
<1>2. /\ ExistingCard /\ page' = Restored(p)
      /\ UNCHANGED <<filed, proved, link, session, draft, receipt, calls, since, faults>>
  BY <1>1 DEF ApplyForAnother, server, tab
<1>3. /\ p \in Pages(Links) /\ p.another /\ p.at = page.at
      /\ p.visit = page.visit /\ p.busy = page.busy /\ p.started = page.started
      /\ p.used = page.used /\ p.note = page.note
      /\ p.submitted = page.submitted /\ p.overtaken = page.overtaken
  BY <1>1 DEF Inv, Typed, Pages
<1> HIDE DEF p
<1>4. draft \in Person /\ receipt \in Person
  BY <1>1 DEF Inv, Typed, RestTyped
<1>5. page' = [p EXCEPT !.submitted = receipt] \/ page' = [p EXCEPT !.form = draft]
  BY <1>2, <1>3 DEF Restored
<1>6. /\ page' \in Pages(Links) /\ page'.at = page.at
      /\ page'.visit = page.visit /\ page'.busy = page.busy /\ page'.started = page.started
      /\ page'.used = page.used /\ page'.note = page.note
  BY <1>3, <1>4, <1>5 DEF Pages
<1>7. Shown'
  <2>1. CASE receipt # Nobody
    <3>1. page' = [p EXCEPT !.submitted = receipt]
      BY <1>2, <2>1 DEF Restored
    <3>2. page'.submitted = receipt
      BY <1>3, <3>1 DEF Pages
    <3>3. QED
      BY <1>2, <2>1, <3>2 DEF Shown, ShowingForm
  <2>2. CASE receipt = Nobody
    <3>1. page' = [p EXCEPT !.form = draft]
      BY <1>2, <1>3, <2>2 DEF Restored
    <3>2. page'.form = draft /\ page'.submitted = Nobody
      BY <1>2, <1>3, <3>1 DEF Pages, ExistingCard
    <3>3. QED
      BY <1>2, <2>2, <3>2 DEF Shown
  <2>3. QED
    BY <2>1, <2>2
<1>8. RestTyped'
  BY <1>1, <1>2 DEF Inv, Typed, RestTyped
<1>9. QED
  BY <1>1, <1>2, <1>6, <1>7, <1>8, PageEdited

LEMMA StartingOver == Inv /\ StartAnother => Inv'
<1>1. SUFFICES ASSUME Inv, StartAnother PROVE Inv'
  OBVIOUS
<1>2. /\ page' = [page EXCEPT !.submitted = Nobody, !.form = Nobody,
                              !.note = "none", !.another = TRUE]
      /\ receipt' = Nobody /\ draft' = Nobody
      /\ UNCHANGED <<filed, proved, link, session, calls, since, faults>>
  BY <1>1 DEF StartAnother, server
<1>3. /\ page' \in Pages(Links) /\ page'.form = Nobody /\ page'.submitted = Nobody
      /\ page'.at = page.at /\ page'.visit = page.visit /\ page'.busy = page.busy
      /\ page'.started = page.started /\ page'.used = page.used /\ page'.note = "none"
  BY <1>1, <1>2, ConstantsTyped DEF Inv, Typed, Pages, Notes
<1>4. RestTyped'
  BY <1>1, <1>2, ConstantsTyped DEF Inv, Typed, RestTyped
<1>5. Shown'
  BY <1>2, <1>3 DEF Shown
<1>6. QED
  BY <1>1, <1>2, <1>3, <1>4, <1>5, PageEdited

LEMMA CallTyped ==
    ASSUME Inv, NEW op \in {"submit", "exchange", "ask"}, NEW who \in Person, NEW n \in Links
    PROVE  /\ Call(op, who, n) \in Requests(Links)
           /\ Call(op, who, n).op = op /\ Call(op, who, n).who = who
           /\ Call(op, who, n).answer = "none" /\ Own(Call(op, who, n))
BY DEF Inv, Typed, Pages, Requests, Call, Own, Notes

LEMMA Submitting == Inv /\ Submit => Inv'
<1>1. SUFFICES ASSUME Inv, Submit PROVE Inv'
  OBVIOUS
<1> DEFINE c == Call("submit", page.form, 0)
<1>2. /\ ShowingForm /\ page.form # Nobody
      /\ UNCHANGED <<filed, proved, link, session, draft, receipt, since, faults>>
  BY <1>1 DEF Submit, server, tab
<1>3. RestTyped'
  BY <1>1, <1>2 DEF Inv, Typed, RestTyped
<1>4. page.form \in Siblings /\ page.form \in Person /\ page.at = "apply" /\ 0 \in Links
  BY <1>1, <1>2 DEF Inv, Typed, Pages, Person, ShowingForm, Links
<1>5. /\ c \in Requests(Links) /\ c.op = "submit" /\ c.who = page.form
      /\ c.answer = "none" /\ Own(c)
  BY <1>1, <1>4, CallTyped
<1> HIDE DEF c
<1>6. CASE page' = [page EXCEPT !.busy = TRUE, !.note = "none"] /\ Sends(c)
  <2>1. /\ page' \in Pages(Links) /\ SameView /\ page'.used = page.used
        /\ page'.started = page.started /\ page'.note = "none"
    BY <1>1, <1>6 DEF Inv, Typed, Pages, SameView, Notes
  <2>2. QED
    BY <1>1, <1>2, <1>3, <1>4, <1>5, <1>6, <2>1, RequestSent
<1>7. CASE page' = [page EXCEPT !.note = "error"] /\ UNCHANGED calls
  <2>1. /\ page' \in Pages(Links) /\ SameView /\ page'.used = page.used
        /\ page'.started = page.started /\ page'.note = "error" /\ page'.busy = page.busy
    BY <1>1, <1>7 DEF Inv, Typed, Pages, SameView, Notes
  <2>2. Shown'
    BY <1>1, <1>2, <2>1 DEF Inv, Shown, SameView, ShowingForm
  <2>3. QED
    BY <1>1, <1>2, <1>3, <1>4, <1>7, <2>1, <2>2, PageEdited DEF SameView
<1>8. QED
  BY <1>1, <1>6, <1>7 DEF Submit, c

LEMMA ExchangingLink == Inv /\ Exchange => Inv'
<1>1. SUFFICES ASSUME Inv, Exchange PROVE Inv'
  OBVIOUS
<1> DEFINE c == Call("exchange", Nobody, page.link)
<1>2. /\ page.at = "consume" /\ ~page.started /\ Sends(c)
      /\ page' = [page EXCEPT !.started = TRUE]
      /\ UNCHANGED <<filed, proved, link, session, draft, receipt, since, faults>>
  BY <1>1 DEF Exchange, server, tab
<1>3. RestTyped'
  BY <1>1, <1>2 DEF Inv, Typed, RestTyped
<1>4. page.link \in Links
  BY <1>1 DEF Inv, Typed, Pages
<1>5. c \in Requests(Links) /\ c.op = "exchange" /\ c.answer = "none" /\ Own(c)
  BY <1>1, <1>4, CallTyped, ConstantsTyped
<1> HIDE DEF c
<1>6. /\ page' \in Pages(Links) /\ SameView /\ page'.used = page.used
      /\ page'.started /\ page'.note = page.note
  BY <1>1, <1>2 DEF Inv, Typed, Pages, SameView
<1>7. QED
  BY <1>1, <1>2, <1>3, <1>5, <1>6, RequestSent

LEMMA Asking == Inv /\ Ask => Inv'
<1>1. SUFFICES ASSUME Inv, Ask PROVE Inv'
  OBVIOUS
<1> DEFINE c == Call("ask", Nobody, 0)
<1>2. /\ page.at = "ask" /\ Sends(c)
      /\ page' = [page EXCEPT !.busy = TRUE, !.note = "none"]
      /\ UNCHANGED <<filed, proved, link, session, draft, receipt, since, faults>>
  BY <1>1 DEF Ask, AskForm, server, tab
<1>3. RestTyped'
  BY <1>1, <1>2 DEF Inv, Typed, RestTyped
<1>4. 0 \in Links
  BY DEF Links
<1>5. c \in Requests(Links) /\ c.op = "ask" /\ c.answer = "none" /\ Own(c)
  BY <1>1, <1>4, CallTyped, ConstantsTyped
<1> HIDE DEF c
<1>6. /\ page' \in Pages(Links) /\ SameView /\ page'.used = page.used
      /\ page'.started = page.started /\ page'.note = "none"
  BY <1>1, <1>2 DEF Inv, Typed, Pages, SameView, Notes
<1>7. QED
  BY <1>1, <1>2, <1>3, <1>5, <1>6, RequestSent

\* Nothing of what a page is changes with a link that is added or spent.
LEMMA PageStays ==
    ASSUME Inv, UNCHANGED page, Links \subseteq Links'
    PROVE  /\ page' \in Pages(Links') /\ SameView /\ page'.busy = page.busy
           /\ page'.started = page.started /\ page'.note = page.note /\ page'.used = page.used
BY LinksGrow DEF Inv, SameView

LEMMA LinkSent ==
    ASSUME link \in Seq(BOOLEAN), link' = link \/ link' = Append(link, TRUE)
    PROVE  link' \in Seq(BOOLEAN) /\ Links \subseteq Links'
<1>1. CASE link' = link
  BY <1>1 DEF Links
<1>2. CASE link' = Append(link, TRUE)
  <2>1. link' \in Seq(BOOLEAN) /\ Len(link') = Len(link) + 1 /\ Len(link) \in Nat
    BY <1>2
  <2>2. DOMAIN link = 1..Len(link) /\ DOMAIN link' = 1..Len(link')
    BY <2>1
  <2>3. QED
    BY <2>1, <2>2 DEF Links
<1>3. QED
  BY <1>1, <1>2

LEMMA LinkSpent ==
    ASSUME link \in Seq(BOOLEAN), NEW n, link' = [link EXCEPT ![n] = FALSE]
    PROVE  link' \in Seq(BOOLEAN) /\ Links \subseteq Links'
<1>1. Len(link) \in Nat /\ link \in [1..Len(link) -> BOOLEAN]
  OBVIOUS
<1>2. link' \in [1..Len(link) -> BOOLEAN]
  BY <1>1
<1>3. link' \in Seq(BOOLEAN)
  BY <1>1, <1>2
<1>4. DOMAIN link' = DOMAIN link
  BY <1>1, <1>2
<1>5. QED
  BY <1>3, <1>4 DEF Links

LEMMA ServingSubmit ==
    ASSUME Inv, NEW c \in calls, ServeSubmit(c)
    PROVE  Inv'
<1>1. /\ c.op = "submit" /\ c.answer = "none"
      /\ UNCHANGED <<proved, session, draft, receipt, page, since, faults>>
  BY DEF ServeSubmit, server, tab
<1>2. c.who \in Siblings /\ link \in Seq(BOOLEAN)
  BY <1>1 DEF Inv, Filed, Typed, RestTyped
<1>3. PICK a \in {"ok", "taken"} : /\ Replies(c, a) /\ filed \subseteq filed'
                                   /\ a = "ok" => c.who \in filed'
  BY DEF ServeSubmit, server
<1>4. filed' \subseteq Siblings
  BY <1>2 DEF ServeSubmit, server, Inv, Typed, RestTyped
<1>5. link' = link \/ link' = Append(link, TRUE)
  BY DEF ServeSubmit, server
<1>6. link' \in Seq(BOOLEAN) /\ Links \subseteq Links'
  BY <1>2, <1>5, LinkSent
<1>7. RestTyped'
  BY <1>1, <1>4, <1>6 DEF Inv, Typed, RestTyped
<1>8. /\ page' \in Pages(Links') /\ SameView /\ page'.busy = page.busy
      /\ page'.started = page.started /\ page'.note = page.note /\ page'.used = page.used
  BY <1>1, <1>6, PageStays
<1>9. a \in Notes /\ a # "none" /\ a # "spent"
  BY DEF Notes
<1>10. QED
  BY <1>1, <1>3, <1>6, <1>7, <1>8, <1>9, AnswerSent

LEMMA ServingExchange ==
    ASSUME Inv, NEW c \in calls, ServeExchange(c)
    PROVE  Inv'
<1>1. /\ c.op = "exchange" /\ c.answer = "none"
      /\ UNCHANGED <<filed, session, draft, receipt, since, faults>>
  BY DEF ServeExchange, server, tab
<1>2. link \in Seq(BOOLEAN) /\ "ok" \in Notes /\ "spent" \in Notes /\ proved \in BOOLEAN
  BY DEF Inv, Typed, RestTyped, Notes
<1>3. CASE ~link[c.link]
  <2>1. Replies(c, "spent") /\ UNCHANGED <<link, proved, page>>
    BY <1>3 DEF ServeExchange, server
  <2>2. RestTyped' /\ Links \subseteq Links'
    BY <1>1, <2>1 DEF Inv, Typed, RestTyped, Links
  <2>3. /\ page' \in Pages(Links') /\ SameView /\ page'.busy = page.busy
        /\ page'.started = page.started /\ page'.note = page.note /\ page'.used = page.used
    BY <2>1, <2>2, PageStays
  <2>4. QED
    BY <1>1, <1>2, <2>1, <2>2, <2>3, AnswerSent
<1>4. CASE link[c.link]
  <2> DEFINE u == page.used \/ Own(c)
  <2>1. /\ Replies(c, "ok") /\ link' = [link EXCEPT ![c.link] = FALSE] /\ proved' = TRUE
        /\ page' = [page EXCEPT !.used = u]
    BY <1>4 DEF ServeExchange
  <2>2. u \in BOOLEAN
    BY DEF Inv, Typed, Pages
  <2> HIDE DEF u
  <2>3. link' \in Seq(BOOLEAN) /\ Links \subseteq Links'
    BY <1>2, <2>1, LinkSpent
  <2>4. RestTyped'
    BY <1>1, <2>1, <2>3 DEF Inv, Typed, RestTyped
  <2>5. page \in Pages(Links')
    BY <2>3, LinksGrow DEF Inv
  <2>6. /\ page' \in Pages(Links') /\ SameView /\ page'.busy = page.busy
        /\ page'.started = page.started /\ page'.note = page.note /\ page'.used = u
    BY <2>1, <2>2, <2>5 DEF Pages, SameView
  <2>7. page'.used => page.used \/ (Exchanging(c) /\ "ok" = "ok")
    BY <1>1, <2>6 DEF u, Exchanging
  <2>8. QED
    BY <1>1, <1>2, <2>1, <2>3, <2>4, <2>6, <2>7, AnswerSent
<1>5. QED
  BY <1>3, <1>4

LEMMA ServingAsk ==
    ASSUME Inv, NEW c \in calls, ServeAsk(c)
    PROVE  Inv'
<1>1. /\ c.op = "ask" /\ c.answer = "none" /\ Replies(c, "ok") /\ link' = Append(link, TRUE)
      /\ UNCHANGED <<filed, proved, session, draft, receipt, page, since, faults>>
  BY DEF ServeAsk, tab
<1>2. link' \in Seq(BOOLEAN) /\ Links \subseteq Links' /\ "ok" \in Notes
  BY <1>1 DEF Inv, Typed, RestTyped, Links, Notes
<1>3. RestTyped'
  BY <1>1, <1>2 DEF Inv, Typed, RestTyped
<1>4. /\ page' \in Pages(Links') /\ SameView /\ page'.busy = page.busy
      /\ page'.started = page.started /\ page'.note = page.note /\ page'.used = page.used
  BY <1>1, <1>2, PageStays
<1>5. QED
  BY <1>1, <1>2, <1>3, <1>4, AnswerSent

LEMMA Refusing ==
    ASSUME Inv, NEW c \in calls, Refuse(c)
    PROVE  Inv'
<1>1. /\ c.answer = "none" /\ Replies(c, "error") /\ faults' = faults + 1
      /\ UNCHANGED <<filed, proved, link, session, draft, receipt, page, since>>
  BY DEF Refuse, Fault, server, tab
<1>2. Links \subseteq Links' /\ "error" \in Notes
  BY <1>1 DEF Links, Notes
<1>3. RestTyped'
  BY <1>1 DEF Inv, Typed, RestTyped
<1>4. /\ page' \in Pages(Links') /\ SameView /\ page'.busy = page.busy
      /\ page'.started = page.started /\ page'.note = page.note /\ page'.used = page.used
  BY <1>1, <1>2, PageStays
<1>5. QED
  BY <1>1, <1>2, <1>3, <1>4, AnswerSent

\* The page of a request says what came of it.
LEMMA PageDone ==
    ASSUME Inv, NEW c \in calls, NEW note \in Notes, Done(c, note), UNCHANGED <<draft, receipt>>,
           note = "lost" \/ c.answer # "ok" \/ c.op # "exchange"
    PROVE  /\ page' \in Pages(Links) /\ Shown' /\ page'.at = page.at
           /\ page'.visit = page.visit /\ page'.started = page.started
           /\ page'.used = page.used /\ (Own(c) => ~page'.busy)
           /\ ~Own(c) => page'.busy = page.busy
           /\ Rejected' => Rejected \/ (Exchanging(c) /\ c.answer # "ok")
<1>1. CASE Own(c)
  <2>1. page' = [page EXCEPT !.busy = FALSE, !.note = note]
    BY <1>1 DEF Done
  <2>2. /\ page' \in Pages(Links) /\ SameView /\ page'.started = page.started
        /\ page'.used = page.used /\ ~page'.busy /\ page'.note = note
    BY <2>1 DEF Inv, Typed, Pages, SameView
  <2>3. Rejected' => Exchanging(c) /\ c.answer # "ok"
    BY <1>1, <2>2 DEF SameView, Inv, Once, Rejected, Exchanging
  <2>4. QED
    BY <1>1, <2>2, <2>3 DEF SameView, Inv, Shown, ShowingForm
<1>2. CASE ~Own(c)
  BY <1>2 DEF Done, Inv, Typed, Shown, ShowingForm, Rejected
<1>3. QED
  BY <1>1, <1>2

LEMMA Losing ==
    ASSUME Inv, NEW c \in calls, Lose(c)
    PROVE  Inv'
<1>1. /\ faults' = faults + 1 /\ calls' = calls \ {c}
      /\ UNCHANGED <<filed, proved, link, session, draft, receipt, since>>
  BY DEF Lose, Fault, server, tab
<1>2. RestTyped' /\ "lost" \in Notes
  BY <1>1 DEF Inv, Typed, RestTyped, Notes
<1>3. receipt' # Nobody => receipt' \in filed
  BY <1>1 DEF Inv, Filed
<1>4. CASE Awaited(c)
  <2>1. Done(c, "lost")
    BY <1>4 DEF Lose
  <2>2. QED
    BY <1>1, <1>2, <1>3, <2>1, PageDone, AnswerTaken
<1>5. CASE ~Awaited(c)
  <2>1. UNCHANGED page
    BY <1>5 DEF Lose
  <2>2. ~(Own(c) /\ page.busy)
    BY <1>5 DEF Inv, Ordered, Own, Awaited, Typed, RestTyped, Pages
  <2>3. page' \in Pages(Links) /\ Shown'
    BY <1>1, <2>1 DEF Inv, Typed, Shown, ShowingForm
  <2>4. QED
    BY <1>1, <1>2, <1>3, <2>1, <2>2, <2>3, AnswerTaken DEF Rejected
<1>6. QED
  BY <1>4, <1>5

LEMMA TakingRefusal ==
    ASSUME Inv, NEW c \in calls, AnswerRefused(c)
    PROVE  Inv'
<1>1. /\ calls' = calls \ {c} /\ Done(c, c.answer) /\ c.answer # "ok"
      /\ UNCHANGED <<filed, proved, link, session, draft, receipt, since, faults>>
  BY DEF AnswerRefused, Arrives, server, tab
<1>2. RestTyped' /\ c.answer \in Notes
  BY <1>1 DEF Inv, Typed, RestTyped, Requests
<1>3. receipt' # Nobody => receipt' \in filed
  BY <1>1 DEF Inv, Filed
<1>4. QED
  BY <1>1, <1>2, <1>3, PageDone, AnswerTaken

LEMMA TakingLink ==
    ASSUME Inv, NEW c \in calls, AnswerAsked(c)
    PROVE  Inv'
<1>1. /\ calls' = calls \ {c} /\ Done(c, "ok") /\ c.op # "exchange"
      /\ UNCHANGED <<filed, proved, link, session, draft, receipt, since, faults>>
  BY DEF AnswerAsked, Arrives, server, tab
<1>2. RestTyped' /\ "ok" \in Notes
  BY <1>1 DEF Inv, Typed, RestTyped, Notes
<1>3. receipt' # Nobody => receipt' \in filed
  BY <1>1 DEF Inv, Filed
<1>4. QED
  BY <1>1, <1>2, <1>3, PageDone, AnswerTaken

LEMMA TakingReceipt ==
    ASSUME Inv, NEW c \in calls, AnswerSubmitted(c)
    PROVE  Inv'
<1>1. /\ c.op = "submit" /\ c.answer = "ok" /\ calls' = calls \ {c}
      /\ receipt' = c.who /\ draft' = Nobody
      /\ UNCHANGED <<filed, proved, link, session, since, faults>>
  BY DEF AnswerSubmitted, Arrives, server
<1>2. c.who \in Siblings /\ c.who \in filed /\ c.who \in Person /\ c.who # Nobody
  BY <1>1, ConstantsTyped DEF Inv, Filed
<1>3. RestTyped'
  BY <1>1, <1>2, ConstantsTyped DEF Inv, Typed, RestTyped
<1>4. CASE Own(c)
  <2>1. page' = [page EXCEPT !.submitted = c.who, !.busy = FALSE]
    BY <1>4 DEF AnswerSubmitted
  <2>2. /\ page' \in Pages(Links) /\ page'.submitted = c.who /\ ~page'.busy
        /\ page'.at = page.at /\ page'.visit = page.visit /\ page'.started = page.started
        /\ page'.used = page.used /\ page'.note = page.note
    BY <1>2, <2>1 DEF Inv, Typed, Pages
  <2>3. Shown'
    BY <1>1, <1>2, <2>2 DEF Shown, ShowingForm
  <2>4. QED
    BY <1>1, <1>2, <1>3, <1>4, <2>2, <2>3, AnswerTaken DEF Rejected
<1>5. CASE ~Own(c)
  <2> DEFINE o == page.at = "apply"
  <2>1. page' = [page EXCEPT !.overtaken = o]
    BY <1>5 DEF AnswerSubmitted
  <2>2. o \in BOOLEAN
    OBVIOUS
  <2> HIDE DEF o
  <2>3. /\ page' \in Pages(Links) /\ page'.overtaken = o /\ page'.busy = page.busy
        /\ page'.at = page.at /\ page'.visit = page.visit /\ page'.started = page.started
        /\ page'.used = page.used /\ page'.note = page.note
    BY <2>1, <2>2 DEF Inv, Typed, Pages
  <2>4. Shown'
    BY <2>3 DEF Shown, o
  <2>5. QED
    BY <1>1, <1>2, <1>3, <1>5, <2>3, <2>4, AnswerTaken DEF Rejected
<1>6. QED
  BY <1>4, <1>5

LEMMA SigningIn ==
    ASSUME Inv, NEW c \in calls, AnswerExchanged(c)
    PROVE  Inv'
<1>1. /\ calls' \subseteq calls /\ session' = TRUE
      /\ page' = [NoPage EXCEPT !.at = "list", !.visit = page.visit + 1]
      /\ UNCHANGED <<filed, proved, link, draft, receipt, since, faults>>
  BY DEF AnswerExchanged, Arrives, server
<1>2. page' \in Pages(Links) /\ Fresh(page') /\ Shown'
  BY <1>1, UnlinkedPageLoads
<1>3. RestTyped'
  BY <1>1 DEF Inv, Typed, RestTyped
<1>4. QED
  BY <1>1, <1>2, <1>3, PageLoaded

\* What others do leaves the tab's page as it is.
LEMMA Elsewhere ==
    ASSUME Inv, (\E s \in Siblings : FiledElsewhere(s)) \/ SessionChanges
    PROVE  Inv'
<1>1. /\ filed \subseteq filed' /\ filed' \subseteq Siblings /\ session' \in BOOLEAN
      /\ UNCHANGED <<proved, link, draft, receipt, page, calls, since, faults>>
  BY DEF FiledElsewhere, SessionChanges, server, tab, Inv, Typed, RestTyped
<1>2. RestTyped'
  BY <1>1 DEF Inv, Typed, RestTyped
<1>3. page' \in Pages(Links) /\ Shown'
  BY <1>1 DEF Inv, Typed, Shown, ShowingForm
<1>4. QED
  BY <1>1, <1>2, <1>3, PageEdited

-----------------------------------------------------------------------------
(* The theorems.                                                            *)

LEMMA Stuttering == Inv /\ UNCHANGED vars => Inv'
<1>1. SUFFICES ASSUME Inv, UNCHANGED vars PROVE Inv'
  OBVIOUS
<1>2. UNCHANGED <<filed, proved, link, session, draft, receipt, page, calls, since, faults>>
  BY <1>1 DEF vars, server, tab
<1>3. RestTyped' /\ page' \in Pages(Links) /\ Shown'
  BY <1>1, <1>2 DEF Inv, Typed, RestTyped, Shown, ShowingForm
<1>4. QED
  BY <1>1, <1>2, <1>3, PageEdited

LEMMA Inductive == Inv /\ [Next]_vars => Inv'
<1>1. SUFFICES ASSUME Inv, [Next]_vars PROVE Inv'
  OBVIOUS
<1>2. CASE OnPage
  BY <1>1, <1>2, Typing, AnotherForm, StartingOver, Submitting, ExchangingLink, Asking
  DEF OnPage
<1>3. ASSUME NEW c \in calls, Served(c)
      PROVE  Inv'
  BY <1>1, <1>3, ServingSubmit, ServingExchange, ServingAsk, Refusing DEF Served
<1>4. ASSUME NEW c \in calls, Answered(c)
      PROVE  Inv'
  BY <1>1, <1>4, TakingReceipt, SigningIn, TakingLink, TakingRefusal, Losing DEF Answered
<1>5. QED
  BY <1>1, <1>2, <1>3, <1>4, Navigating, Reloading, Elsewhere, Stuttering DEF Next

THEOREM Invariance == Spec => []Inv
BY Initially, Inductive, PTL DEF Spec

\* Every reachable state is typed, and a button stays disabled only while a request of
\* its page is out, for any family, any number of visits, links and lost answers.
THEOREM TypeCorrect == Spec => []TypeOK
<1>1. Inv => TypeOK
  BY TypesAgree DEF Inv
<1>2. QED
  BY <1>1, Invariance, PTL

\* What the form page shows survives a refresh at any moment (ApplyForm.tsx), for any
\* number of siblings, pages left with a submission out, and lost or refused requests.
THEOREM RefreshesKeepWork == Spec => []RefreshKeepsWork
<1>1. Inv => RefreshKeepsWork
  BY DEF Inv, Filed, Shown, RefreshKeepsWork
<1>2. QED
  BY <1>1, Invariance, PTL

\* The page whose exchange of its link succeeded is never told that the link was refused
\* (ConsumeLink.tsx), however often the effect runs and the page is refreshed; at worst it
\* is told nothing, when the answer is lost.
THEOREM SignInReportedOnce == Spec => []SignsInOnce
<1>1. Inv => SignsInOnce
  BY DEF Inv, Once, Rejected, SignsInOnce
<1>2. QED
  BY <1>1, Invariance, PTL

=============================================================================
