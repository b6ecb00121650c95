------------------------------- MODULE Portal -------------------------------
(***************************************************************************)
(* The applicant's pages in one browser tab: the application form with its *)
(* draft and its receipt (apps/web/app/apply) and the status page with its *)
(* sign-in links (apps/web/app/status), over an API and a network that     *)
(* answer late, refuse, or lose the answer after the work is done.         *)
(*                                                                         *)
(* Siblings apply under one address, so they share account and session.  A *)
(* page left by a link inside the site keeps its requests: what awaits     *)
(* their answers runs wherever the tab is by then.  A full load drops it.  *)
(* What is declared, the stages shown, mail and the rules of the API that  *)
(* Casework.tla models are left out.                                       *)
(***************************************************************************)
EXTENDS Integers, Sequences, FiniteSets

CONSTANTS
    Siblings,     \* who applies; a form or a draft is known by whose details it holds
    Nobody,       \* an empty form, draft or receipt
    MaxVisits,    \* bound: pages the applicant opens
    MaxLinks,     \* bound: no further link is asked for once so many were sent
    MaxFaults     \* bound: lost or refused requests, page loads without an answer

ASSUME PortalAssumption ==
    Nobody \notin Siblings /\ MaxVisits \in Nat /\ MaxLinks \in Nat /\ MaxFaults \in Nat

VARIABLES
    filed,     \* those who have an application
    proved,    \* is the address confirmed?
    link,      \* link[n]: is the n-th link sent still good?
    session,   \* does the browser hold the cookie of an applicant session?
    draft,     \* sessionStorage 'ss_apply_draft'
    receipt,   \* sessionStorage 'ss_apply_receipt'
    page,      \* what the tab shows
    calls,     \* requests not answered yet
    since,     \* the first visit since the last full load
    faults

server == <<filed, proved, link>>
tab    == <<session, draft, receipt>>
vars   == <<server, tab, page, calls, since, faults>>

\* A page: visit numbers it; existing tells that the server found applications
\* of the account; note is the message it shows.  Two histories: overtaken, the request
\* of an earlier page succeeded since this one was loaded; used, its request spent a link.
NoPage == [at |-> "away", visit |-> 0, existing |-> FALSE, link |-> 0, form |-> Nobody,
           another |-> FALSE, submitted |-> Nobody, started |-> FALSE,
           busy |-> FALSE, note |-> "none", overtaken |-> FALSE, used |-> FALSE]

Init ==
    /\ filed = {} /\ proved = FALSE
    /\ link = <<>>
    /\ session = FALSE
    /\ draft = Nobody /\ receipt = Nobody
    /\ page = NoPage
    /\ calls = {}
    /\ since = 1
    /\ faults = 0

Fault == faults < MaxFaults /\ faults' = faults + 1

-----------------------------------------------------------------------------
(* What a page shows, and so what can be done on it.                        *)

ReceiptCard  == page.at = "apply" /\ page.submitted # Nobody
ExistingCard == page.at = "apply" /\ page.submitted = Nobody /\ page.existing /\ ~page.another
ShowingForm  == page.at = "apply" /\ page.submitted = Nobody /\ (~page.existing \/ page.another)
AskForm      == page.at = "ask" /\ page.note # "ok"

-----------------------------------------------------------------------------
(* Loading a page.                                                          *)

\* The server component asks for the account's applications; `answered` is FALSE when
\* the API does not answer it.
Existing(answered) == session /\ answered /\ filed # {}

\* The receipt comes back first; else the draft, into the form if there is one.
Restored(p) ==
    IF receipt # Nobody THEN [p EXCEPT !.submitted = receipt]
    ELSE IF ~p.existing \/ p.another THEN [p EXCEPT !.form = draft]
    ELSE p

ApplyPage(visit, answered) ==
    Restored([NoPage EXCEPT !.at = "apply", !.visit = visit, !.existing = Existing(answered)])

StatusPage(visit, answered) ==
    [NoPage EXCEPT !.at = IF session /\ answered THEN "list" ELSE "ask", !.visit = visit]

LinkPage(visit, n) == [NoPage EXCEPT !.at = "consume", !.visit = visit, !.link = n]

\* Some page, loaded now; the API may fail to answer the server component.
Loads ==
    /\ page.visit < MaxVisits
    /\ LET visit == page.visit + 1 IN
         \/ /\ page' \in {ApplyPage(visit, TRUE), StatusPage(visit, TRUE)}
            /\ UNCHANGED faults
         \/ /\ session /\ Fault
            /\ page' \in {ApplyPage(visit, FALSE), StatusPage(visit, FALSE)}
         \/ \E n \in DOMAIN link : page' = LinkPage(visit, n) /\ UNCHANGED faults

\* A link inside the site, to a page that is not the one shown.
Navigate ==
    /\ Loads
    /\ page'.at # page.at
    /\ UNCHANGED <<server, tab, calls, since>>

\* A refresh, the address bar, a link in a mail.
Reload ==
    /\ Loads
    /\ since' = page.visit + 1
    /\ UNCHANGED <<server, tab, calls>>

-----------------------------------------------------------------------------
(* The application form.                                                    *)

\* Any input, the choice of the certificate included, stores the form as it stands.
Input(s) ==
    /\ ShowingForm
    /\ page' = [page EXCEPT !.form = s]
    /\ draft' = s
    /\ UNCHANGED <<server, session, receipt, calls, since, faults>>

\* From the list of existing applications: the form appears, and is restored.
ApplyForAnother ==
    /\ ExistingCard
    /\ page' = Restored([page EXCEPT !.another = TRUE])
    /\ UNCHANGED <<server, tab, calls, since, faults>>

\* From the receipt: it is given up, with the draft.
StartAnother ==
    /\ ReceiptCard
    /\ receipt' = Nobody /\ draft' = Nobody
    /\ page' = [page EXCEPT !.submitted = Nobody, !.form = Nobody,
                            !.note = "none", !.another = TRUE]
    /\ UNCHANGED <<server, session, calls, since, faults>>

\* A request of the page, of an effect that may run twice for one of them.
Call(op, who, n) ==
    [op |-> op, who |-> who, link |-> n, from |-> page.visit, again |-> page.started,
     answer |-> "none"]
Sends(c) == calls' = calls \cup {c}

\* Mutant of Submit: the draft is given up when the request is sent.
SubmitClearing ==
    /\ ShowingForm /\ ~page.busy /\ page.form # Nobody
    /\ page' = [page EXCEPT !.busy = TRUE, !.note = "none"]
    /\ Sends(Call("submit", page.form, 0))
    /\ draft' = Nobody
    /\ UNCHANGED <<server, session, receipt, since, faults>>

\* Without a certificate, which no refresh can bring back, the form complains at once.
Submit ==
    /\ ShowingForm /\ ~page.busy /\ page.form # Nobody
    /\ \/ /\ page' = [page EXCEPT !.busy = TRUE, !.note = "none"]
          /\ Sends(Call("submit", page.form, 0))
       \/ /\ page' = [page EXCEPT !.note = "error"]
          /\ UNCHANGED calls
    /\ UNCHANGED <<server, tab, since, faults>>

-----------------------------------------------------------------------------
(* The status page.                                                         *)

\* Mutant of Exchange: the effect is not guarded against running again.
ExchangeTwice ==
    /\ page.at = "consume"
    /\ page' = [page EXCEPT !.started = TRUE]
    /\ Sends(Call("exchange", Nobody, page.link))
    /\ UNCHANGED <<server, tab, since, faults>>

\* The effect that exchanges the link; it runs again in strict mode, and does nothing.
Exchange ==
    /\ page.at = "consume" /\ ~page.started
    /\ page' = [page EXCEPT !.started = TRUE]
    /\ Sends(Call("exchange", Nobody, page.link))
    /\ UNCHANGED <<server, tab, since, faults>>

Ask ==
    /\ AskForm /\ ~page.busy /\ Len(link) < MaxLinks
    /\ page' = [page EXCEPT !.busy = TRUE, !.note = "none"]
    /\ Sends(Call("ask", Nobody, 0))
    /\ UNCHANGED <<server, tab, since, faults>>

-----------------------------------------------------------------------------
(* The API serves a request, and its answer sets out.                       *)

\* A request of a page that is still loaded, or was left by a link inside the site.
Awaited(c) == c.from >= since
Own(c) == c.from = page.visit

\* Nobody waits for the answer to a request of a page that was reloaded.
Replies(c, answer) ==
    calls' = (calls \ {c}) \cup (IF Awaited(c) THEN {[c EXCEPT !.answer = answer]} ELSE {})

\* One application each; a link goes out with the first ones of a new address.
ServeSubmit(c) ==
    /\ c.op = "submit" /\ c.answer = "none"
    /\ IF c.who \in filed
       THEN Replies(c, "taken") /\ UNCHANGED server
       ELSE /\ Replies(c, "ok")
            /\ filed' = filed \cup {c.who}
            /\ link' = IF proved THEN link ELSE Append(link, TRUE)
            /\ UNCHANGED proved
    /\ UNCHANGED <<tab, page, since, faults>>

\* A link works once.
ServeExchange(c) ==
    /\ c.op = "exchange" /\ c.answer = "none"
    /\ IF ~link[c.link]
       THEN Replies(c, "spent") /\ UNCHANGED <<server, page>>
       ELSE /\ Replies(c, "ok")
            /\ link' = [link EXCEPT ![c.link] = FALSE]
            /\ proved' = TRUE
            /\ page' = [page EXCEPT !.used = @ \/ Own(c)]
            /\ UNCHANGED filed
    /\ UNCHANGED <<tab, since, faults>>

ServeAsk(c) ==
    /\ c.op = "ask" /\ c.answer = "none"
    /\ Replies(c, "ok")
    /\ link' = Append(link, TRUE)
    /\ UNCHANGED <<filed, proved, tab, page, since, faults>>

\* A limit, a field the API does not accept, an error of its own: nothing is done.
Refuse(c) ==
    /\ c.answer = "none" /\ Fault
    /\ Replies(c, "error")
    /\ UNCHANGED <<server, tab, page, since>>

-----------------------------------------------------------------------------
(* The answer arrives, at the page that waits for it or at none.            *)

Arrives(c) == c.answer # "none" /\ Awaited(c) /\ calls' = calls \ {c}

\* Mutant of Done: the button stays disabled when no answer comes.
DoneIfAnswered(c, note) ==
    page' = IF Own(c) THEN [page EXCEPT !.busy = @ /\ note = "lost", !.note = note] ELSE page

\* The page of the request can be used again, and says what came of it.
Done(c, note) ==
    page' = IF Own(c) THEN [page EXCEPT !.busy = FALSE, !.note = note] ELSE page

\* The request, or its answer, is lost, to the site or from there to the API.
Lose(c) ==
    /\ Fault
    /\ calls' = calls \ {c}
    /\ IF Awaited(c) THEN Done(c, "lost") ELSE UNCHANGED page
    /\ UNCHANGED <<server, tab, since>>

\* Refused: the draft and the form stay as they are.
AnswerRefused(c) ==
    /\ Arrives(c)
    /\ c.answer # "ok"
    /\ Done(c, c.answer)
    /\ UNCHANGED <<server, tab, since, faults>>

\* The receipt replaces the draft, whatever page the tab is on by then.
AnswerSubmitted(c) ==
    /\ Arrives(c)
    /\ c.op = "submit" /\ c.answer = "ok"
    /\ receipt' = c.who /\ draft' = Nobody
    /\ page' = IF Own(c) THEN [page EXCEPT !.submitted = c.who, !.busy = FALSE]
               ELSE [page EXCEPT !.overtaken = page.at = "apply"]
    /\ UNCHANGED <<server, session, since, faults>>

\* The cookie is set and the tab goes to the status page, whatever page it is on.
AnswerExchanged(c) ==
    /\ Arrives(c)
    /\ c.op = "exchange" /\ c.answer = "ok"
    /\ session' = TRUE
    /\ page' = [NoPage EXCEPT !.at = "list", !.visit = page.visit + 1]
    /\ UNCHANGED <<server, draft, receipt, since, faults>>

AnswerAsked(c) ==
    /\ Arrives(c)
    /\ c.op = "ask" /\ c.answer = "ok"
    /\ Done(c, "ok")
    /\ UNCHANGED <<server, tab, since, faults>>

-----------------------------------------------------------------------------
(* What others do: another tab or device, an import, the end of a session.  *)

FiledElsewhere(s) ==
    /\ s \notin filed
    /\ filed' = filed \cup {s}
    /\ UNCHANGED <<proved, link, tab, page, calls, since, faults>>

\* The session ends, or another tab signs in again with a link of its own.
SessionChanges ==
    /\ proved
    /\ session' = ~session
    /\ UNCHANGED <<server, draft, receipt, page, calls, since, faults>>

OnPage ==
    \/ \E s \in Siblings \cup {Nobody} : Input(s)
    \/ ApplyForAnother \/ StartAnother \/ Submit \/ Exchange \/ Ask

Served(c) == ServeSubmit(c) \/ ServeExchange(c) \/ ServeAsk(c) \/ Refuse(c)

Answered(c) ==
    \/ AnswerSubmitted(c) \/ AnswerExchanged(c) \/ AnswerAsked(c)
    \/ AnswerRefused(c) \/ Lose(c)

Next ==
    \/ Navigate \/ Reload \/ OnPage
    \/ \E c \in calls : Served(c) \/ Answered(c)
    \/ \E s \in Siblings : FiledElsewhere(s)
    \/ SessionChanges

Spec == Init /\ [][Next]_vars

-----------------------------------------------------------------------------
(* Properties.                                                              *)

Person == Siblings \cup {Nobody}
Notes == {"none", "ok", "taken", "spent", "error", "lost"}

\* Type invariant; a button is disabled only while a request of its page is out.
TypeOK ==
    /\ filed \subseteq Siblings /\ proved \in BOOLEAN
    /\ link \in Seq(BOOLEAN)
    /\ session \in BOOLEAN
    /\ draft \in Person /\ receipt \in Person
    /\ page \in [at : {"away", "apply", "list", "ask", "consume"}, visit : Nat,
                 existing : BOOLEAN, link : {0} \cup DOMAIN link, form : Person,
                 another : BOOLEAN, submitted : Person,
                 started : BOOLEAN, busy : BOOLEAN, note : Notes, overtaken : BOOLEAN,
                 used : BOOLEAN]
    /\ calls \subseteq [op : {"submit", "exchange", "ask"}, who : Person,
                        link : {0} \cup DOMAIN link, from : Nat, again : BOOLEAN,
                        answer : Notes]
    /\ page.busy => \E c \in calls : Own(c)
    /\ since \in Nat /\ faults \in Nat

\* A refresh at any moment brings back what the form page shows: the receipt, or the
\* details typed so far; a receipt is of an application on file (ApplyForm.tsx: "A
\* refresh must not throw away the applicant's work").  Not so on a page that was opened
\* while a submission of an earlier page was out: its success takes the draft away.
RefreshKeepsWork ==
    /\ receipt # Nobody => receipt \in filed
    /\ page.at = "apply" /\ ~page.overtaken =>
          page.submitted = receipt /\ (ShowingForm => page.form = draft)

\* A page whose request used its link up says nothing of it, and is then left for the status
\* page, or says that the answer did not come: no answer that refuses the link (it is spent, a
\* limit, an error) reaches the page that spent it (ConsumeLink.tsx: "the exchange must happen
\* exactly once").  A lost answer is a case of its own, which the code does not tell from a
\* refusal: the heading is "Link not accepted" then too, over a sign-in that succeeded.
SignsInOnce ==
    page.at = "consume" /\ page.used => page.note \in {"none", "lost"}
=============================================================================
