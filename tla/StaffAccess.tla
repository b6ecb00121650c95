---------------------------- MODULE StaffAccess ----------------------------
(***************************************************************************)
(* Staff accounts: invitations, sign-in with a password and a second       *)
(* factor, sessions and their revocation (apps/api/src/routes/auth.ts and  *)
(* admin.ts, auth/middleware.ts, tokens.ts, totp.ts), driven from the web  *)
(* console's forms through its session and proxy routes (apps/web/app).    *)
(*                                                                         *)
(* A browser has one form in flight at a time; a request takes one step    *)
(* per database statement (or per transaction that touches one row), so    *)
(* what it read can be stale when it writes.  A password is right or       *)
(* wrong, a code is the secret and the time step it was made from, ten     *)
(* recovery codes are one.  The clock is left out: a code of any step may  *)
(* be inside a request's window, an invitation or a session may expire at  *)
(* any moment.  Audit rows and mail are left out.                          *)
(***************************************************************************)
EXTENDS Integers, Sequences, FiniteSets

CONSTANTS
    Users,       \* addresses: at most one account each (users_email_key)
    Founder,     \* the admin the seed creates
    Browsers,
    None,
    TimeSteps,   \* steps of STEP_SECONDS a code may be made for
    Budgets      \* bound: how often each form is sent, one of these functions

Ops == {"login", "accept", "status", "enrol", "confirm", "disable", "revoke",
        "deactivate", "reactivate", "invite", "withdraw"}

ASSUME StaffAssumption ==
    /\ Founder \in Users
    /\ None \notin Browsers
    /\ TimeSteps \subseteq Nat \ {0}
    /\ Budgets \subseteq [Ops -> Nat]

VARIABLES
    account,   \* account[u]: the row of users with u's address
    lock,      \* who holds the advisory lock 'staff-admin-changes'
    cookie,    \* cookie[b]: the session token in the browser's cookie
    panel,     \* panel[b]: what the sign-in form and the security page show
    req,       \* req[b]: the browser's request, and what its handler has read
    left,      \* left[op]: the requests of this kind still to be sent
    issued,    \* how many invitation tokens and TOTP secrets were made so far
    revoked,   \* history: how often u's sessions were revoked
    spent,     \* history: how often the recovery code of each list was accepted
    clobbered  \* history: an invitation was written over an active account

vars == <<account, lock, cookie, panel, req, left, issued, revoked, spent, clobbered>>

Roles == {"reviewer", "admin"}
SecondFactors == [kind : {"none", "totp", "recovery"}, n : Nat, step : Nat]
NoCode == [kind |-> "none", n |-> 0, step |-> 0]

\* A row of users; 0 stands for NULL.  password: the invitation it was set through.
NoAccount == [state |-> "none", role |-> "reviewer", off |-> FALSE, sv |-> 0,
              invite |-> 0, fresh |-> FALSE, password |-> 0,
              secret |-> 0, enabled |-> FALSE, last |-> 0, codes |-> {}]

Blank == [known |-> "loading", needsCode |-> FALSE, secret |-> 0]

Idle == [op |-> "none", pc |-> "idle", token |-> None, target |-> None,
         role |-> "reviewer", invite |-> 0, code |-> NoCode, seen |-> NoAccount, born |-> 0]

Usable(u) == account[u].state = "active" /\ ~account[u].off
Admins == {u \in Users : Usable(u) /\ account[u].role = "admin"}

\* staffSessionIsLive: the account is usable and the token's version its own.
Live(token) == Usable(token.user) /\ account[token.user].sv = token.sv

Self(b) == req[b].token.user
Target(b) == req[b].target
Seen(b) == req[b].seen

\* The row lock of SELECT ... FOR UPDATE, held until the deactivation commits.
RowFree(u) == \A b \in Browsers :
    ~(req[b].op = "deactivate" /\ req[b].pc = "write" /\ req[b].target = u)

Goto(b, pc) == req' = [req EXCEPT ![b].pc = pc]
At(b, op, pc) == req[b].op = op /\ req[b].pc = pc

Init ==
    /\ account = [u \in Users |-> IF u = Founder
           THEN [NoAccount EXCEPT !.state = "active", !.role = "admin"] ELSE NoAccount]
    /\ lock = None
    /\ cookie = [b \in Browsers |-> None]
    /\ panel = [b \in Browsers |-> Blank]
    /\ req = [b \in Browsers |-> Idle]
    /\ left \in Budgets
    /\ issued = [invites |-> 0, secrets |-> 0]
    /\ revoked = [u \in Users |-> 0]
    /\ spent = <<>>
    /\ clobbered = FALSE

-----------------------------------------------------------------------------
(* The forms.  A staff request carries the cookie's token (the proxy route). *)

Sends(b, r) ==
    /\ req[b].pc = "idle"
    /\ left[r.op] > 0
    /\ left' = [left EXCEPT ![r.op] = @ - 1]
    /\ req' = [req EXCEPT ![b] = r]
    /\ UNCHANGED <<account, lock, cookie, panel, issued, revoked, spent, clobbered>>

\* A six-digit code of a secret somebody was shown, or a recovery code of a list.
CodesOf == [kind : {"totp"}, n : 1..issued.secrets, step : TimeSteps]
           \cup [kind : {"recovery"}, n : DOMAIN spent, step : {0}]

\* The sign-in page asks for a code only after the API said one is needed.
SignIn(b, u) ==
    \E c \in {NoCode} \cup (IF panel[b].needsCode THEN CodesOf ELSE {}) :
        Sends(b, [Idle EXCEPT !.op = "login", !.pc = "read", !.target = u, !.code = c])

AcceptInvitation(b) == \E n \in 1..issued.invites :
    Sends(b, [Idle EXCEPT !.op = "accept", !.pc = "write", !.invite = n])

Staff(b, op) == [Idle EXCEPT !.op = op, !.pc = "auth", !.token = cookie[b]]

\* The security page: which form it offers hangs on the status it loaded last.
OpenSecurity(b) ==
    /\ cookie[b] # None
    /\ \/ Sends(b, Staff(b, "status"))
       \/ panel[b].known = "off" /\ panel[b].secret = 0 /\ Sends(b, Staff(b, "enrol"))
       \/ /\ panel[b].known = "off" /\ panel[b].secret # 0
          /\ \E s \in TimeSteps : Sends(b, [Staff(b, "confirm") EXCEPT
                 !.code = [kind |-> "totp", n |-> panel[b].secret, step |-> s]])
       \/ /\ panel[b].known = "on"
          /\ \E c \in CodesOf : Sends(b, [Staff(b, "disable") EXCEPT !.code = c])

\* logout-everywhere is an endpoint the console has no button for.
SignOutEverywhere(b) == cookie[b] # None /\ Sends(b, Staff(b, "revoke"))

\* The admin page: an invitation by address, a button on each row of the list.
ManageStaff(b, u) ==
    /\ cookie[b] # None
    /\ \/ \E r \in Roles : Sends(b, [Staff(b, "invite") EXCEPT !.target = u, !.role = r])
       \/ /\ account[u].state # "none" \* listed when the page was rendered, maybe long ago
          /\ \E op \in {"withdraw", "deactivate", "reactivate"} :
                 Sends(b, [Staff(b, op) EXCEPT !.target = u])

-----------------------------------------------------------------------------
(* requireStaff: one lookup of the account behind the token.  The role is   *)
(* the account's, not the token's.                                          *)

AdminOps == {"deactivate", "reactivate", "invite", "withdraw"}

FirstStep(b) ==
    CASE req[b].op \in {"status", "enrol", "confirm", "disable"} -> "read"
      [] req[b].op \in {"revoke", "reactivate", "withdraw"} -> "write"
      [] req[b].op = "invite" -> "check"
      [] OTHER -> IF Target(b) = Self(b) THEN "failed" ELSE "lock"

Authorise(b) ==
    /\ req[b].pc = "auth"
    /\ Goto(b, IF /\ Live(req[b].token)
                  /\ req[b].op \in AdminOps => account[Self(b)].role = "admin"
               THEN FirstStep(b) ELSE "failed")
    /\ UNCHANGED <<account, lock, cookie, panel, left, issued, revoked, spent, clobbered>>

-----------------------------------------------------------------------------
(* Signing in, and the second factor.                                       *)

\* The account and what the password is checked against; a wrong password fails.
ReadSignIn(b) == LET u == Target(b) IN
    /\ At(b, "login", "read")
    /\ \/ Goto(b, "failed")
       \/ /\ Usable(u)
          /\ req' = [req EXCEPT ![b].seen = account[u], ![b].born = revoked[u],
                                ![b].pc = IF account[u].enabled THEN "factor" ELSE "done"]
    /\ UNCHANGED <<account, lock, cookie, panel, left, issued, revoked, spent, clobbered>>

\* verifyCode: made from this secret, for a step after the last one accepted.
VerifyCode(row, code, last) == code.n = row.secret /\ (last # 0 => code.step > last)

\* Mutant of Unspent: the codes as they were when the handler read the account.
UnspentAtRead(b, u) == req[b].code.n \in Seen(b).codes

\* A recovery code is checked by the statement that marks it used.
Unspent(b, u) == req[b].code.n \in account[u].codes

\* verifySecondFactor.  The step is burnt only upwards, whatever was read.
SecondFactor(b, u, next) ==
    LET c == req[b].code IN
    /\ req[b].pc = "factor"
    /\ \/ /\ c.kind = "none"
          /\ Goto(b, IF req[b].op = "login" THEN "needs" ELSE "failed")
          /\ UNCHANGED <<account, spent>>
       \/ /\ c.kind = "totp" /\ ~VerifyCode(Seen(b), c, Seen(b).last)
          /\ Goto(b, "failed")
          /\ UNCHANGED <<account, spent>>
       \/ /\ c.kind = "totp" /\ VerifyCode(Seen(b), c, Seen(b).last)
          /\ RowFree(u)
          /\ account' = [account EXCEPT ![u].last = IF @ < c.step THEN c.step ELSE @]
          /\ Goto(b, next)
          /\ UNCHANGED spent
       \/ /\ c.kind = "recovery" /\ ~Unspent(b, u)
          /\ Goto(b, "failed")
          /\ UNCHANGED <<account, spent>>
       \/ /\ c.kind = "recovery" /\ Unspent(b, u)
          /\ account' = [account EXCEPT ![u].codes = @ \ {c.n}]
          /\ spent' = [spent EXCEPT ![c.n] = @ + 1]
          /\ Goto(b, next)
    /\ UNCHANGED <<lock, cookie, panel, left, issued, revoked, clobbered>>

CheckSignIn(b) == req[b].op = "login" /\ SecondFactor(b, Target(b), "done")

-----------------------------------------------------------------------------
(* Enrolment of an authenticator, its confirmation and its removal.         *)

ReadFactor(b) == LET u == Self(b)  row == account[u]  op == req[b].op IN
    /\ op \in {"enrol", "confirm", "disable"} /\ req[b].pc = "read"
    /\ req' = [req EXCEPT ![b].seen = row, ![b].pc =
           CASE op = "enrol"   -> IF row.enabled THEN "failed" ELSE "write"
             [] op = "confirm" -> IF /\ row.secret # 0 /\ ~row.enabled
                                     /\ VerifyCode(row, req[b].code, 0)
                                  THEN "write" ELSE "failed"
             [] OTHER          -> IF row.enabled THEN "factor" ELSE "failed"]
    /\ UNCHANGED <<account, lock, cookie, panel, left, issued, revoked, spent, clobbered>>

CheckDisable(b) == req[b].op = "disable" /\ SecondFactor(b, Self(b), "write")

\* The secret is stored at once; what the account was when it was read is not repeated.
WriteSecret(b) == LET u == Self(b) IN
    /\ At(b, "enrol", "write") /\ RowFree(u)
    /\ issued' = [issued EXCEPT !.secrets = @ + 1]
    /\ account' = [account EXCEPT ![u].secret = issued'.secrets, ![u].last = 0]
    /\ req' = [req EXCEPT ![b].pc = "done", ![b].code.n = issued'.secrets]
    /\ UNCHANGED <<lock, cookie, panel, left, revoked, spent, clobbered>>

\* Turned on with the code's step as the first one spent; the codes of an earlier
\* enrolment go.  users_totp_enabled_needs_secret undoes it when the secret has gone.
WriteEnabled(b) == LET u == Self(b)  list == Len(spent) + 1 IN
    /\ At(b, "confirm", "write") /\ RowFree(u)
    /\ IF account[u].secret = 0
       THEN Goto(b, "failed") /\ UNCHANGED <<account, spent>>
       ELSE /\ account' = [account EXCEPT ![u].enabled = TRUE, ![u].codes = {list},
                                          ![u].last = req[b].code.step]
            /\ spent' = Append(spent, 0)
            /\ Goto(b, "done")
    /\ UNCHANGED <<lock, cookie, panel, left, issued, revoked, clobbered>>

WriteDisabled(b) == LET u == Self(b) IN
    /\ At(b, "disable", "write") /\ RowFree(u)
    /\ account' = [account EXCEPT ![u].secret = 0, ![u].enabled = FALSE,
                                  ![u].last = 0, ![u].codes = {}]
    /\ Goto(b, "done")
    /\ UNCHANGED <<lock, cookie, panel, left, issued, revoked, spent, clobbered>>

ReadStatus(b) == LET u == Self(b) IN
    /\ At(b, "status", "read")
    /\ req' = [req EXCEPT ![b].seen = account[u], ![b].pc = "done"]
    /\ UNCHANGED <<account, lock, cookie, panel, left, issued, revoked, spent, clobbered>>

-----------------------------------------------------------------------------
(* Invitations, deactivation and revocation.                                *)

ReadInvited(b) ==
    /\ At(b, "invite", "check")
    /\ Goto(b, IF account[Target(b)].state = "active" THEN "failed" ELSE "write")
    /\ UNCHANGED <<account, lock, cookie, panel, left, issued, revoked, spent, clobbered>>

Invited(row, role, n) ==
    [row EXCEPT !.state = IF row.state = "none" THEN "invited" ELSE row.state,
                !.role = role, !.invite = n, !.fresh = TRUE]

\* INSERT ... ON CONFLICT DO UPDATE: the address may have an account by now.
WriteInvitation(b) == LET u == Target(b) IN
    /\ At(b, "invite", "write") /\ RowFree(u)
    /\ issued' = [issued EXCEPT !.invites = @ + 1]
    /\ account' = [account EXCEPT ![u] = Invited(@, req[b].role, issued'.invites)]
    /\ clobbered' = (clobbered \/ account[u].state = "active")
    /\ Goto(b, "done")
    /\ UNCHANGED <<lock, cookie, panel, left, revoked, spent>>

InvitationExpires(u) ==
    /\ account[u].fresh /\ RowFree(u)
    /\ account' = [account EXCEPT ![u].fresh = FALSE]
    /\ UNCHANGED <<lock, cookie, panel, req, left, issued, revoked, spent, clobbered>>

Withdraw(b) == LET u == Target(b) IN
    /\ At(b, "withdraw", "write") /\ RowFree(u)
    /\ IF account[u].state = "invited"
       THEN account' = [account EXCEPT ![u] = NoAccount] /\ Goto(b, "done")
       ELSE Goto(b, "failed") /\ UNCHANGED account
    /\ UNCHANGED <<lock, cookie, panel, left, issued, revoked, spent, clobbered>>

\* Mutant of Acceptable: the account need not be waiting for its first password.
AcceptableAgain(u, n) == account[u].invite = n /\ account[u].fresh

Acceptable(u, n) ==
    account[u].invite = n /\ account[u].state = "invited" /\ account[u].fresh

\* One UPDATE finds the invitation, uses it up and sets the password.
Accept(b) == LET n == req[b].invite IN
    /\ At(b, "accept", "write")
    /\ \/ /\ \A u \in Users : ~Acceptable(u, n)
          /\ Goto(b, "failed") /\ UNCHANGED account
       \/ \E u \in Users :
          /\ Acceptable(u, n) /\ RowFree(u)
          /\ account' = [account EXCEPT ![u].state = "active", ![u].password = n,
                                        ![u].invite = 0, ![u].fresh = FALSE]
          /\ req' = [req EXCEPT ![b].target = u, ![b].pc = "done",
                                ![b].seen = [NoAccount EXCEPT !.role = account[u].role],
                                ![b].born = revoked[u]]
    /\ UNCHANGED <<lock, cookie, panel, left, issued, revoked, spent, clobbered>>

\* Mutant of LockFree: admin changes are not serialised.
LockIgnored == TRUE

LockFree == lock = None

\* The transaction of a deactivation: pg_advisory_xact_lock first ...
TakeLock(b) ==
    /\ At(b, "deactivate", "lock") /\ LockFree
    /\ lock' = b
    /\ Goto(b, "count")
    /\ UNCHANGED <<account, cookie, panel, left, issued, revoked, spent, clobbered>>

\* ... then the target's row FOR UPDATE and the number of active admins ...
CountAdmins(b) == LET u == Target(b) IN
    /\ At(b, "deactivate", "count") /\ RowFree(u)
    /\ IF Usable(u) /\ (account[u].role = "admin" => Cardinality(Admins) > 1)
       THEN Goto(b, "write") /\ UNCHANGED lock
       ELSE Goto(b, "failed") /\ lock' = None
    /\ UNCHANGED <<account, cookie, panel, left, issued, revoked, spent, clobbered>>

\* Mutant of Deactivated: the account is refused at sign-in and nothing else.
DeactivatedOnly(row) == [row EXCEPT !.off = TRUE]

Deactivated(row) == [row EXCEPT !.off = TRUE, !.sv = @ + 1]

\* ... then the update, and the commit that frees the locks.
Deactivate(b) == LET u == Target(b) IN
    /\ At(b, "deactivate", "write")
    /\ account' = [account EXCEPT ![u] = Deactivated(@)]
    /\ revoked' = [revoked EXCEPT ![u] = @ + 1]
    /\ lock' = None
    /\ Goto(b, "done")
    /\ UNCHANGED <<cookie, panel, left, issued, spent, clobbered>>

Reactivate(b) == LET u == Target(b) IN
    /\ At(b, "reactivate", "write") /\ RowFree(u)
    /\ IF account[u].off
       THEN account' = [account EXCEPT ![u].off = FALSE] /\ Goto(b, "done")
       ELSE Goto(b, "failed") /\ UNCHANGED account
    /\ UNCHANGED <<lock, cookie, panel, left, issued, revoked, spent, clobbered>>

Revoke(b) == LET u == Self(b) IN
    /\ At(b, "revoke", "write") /\ RowFree(u)
    /\ account' = [account EXCEPT ![u].sv = @ + 1]
    /\ revoked' = [revoked EXCEPT ![u] = @ + 1]
    /\ Goto(b, "done")
    /\ UNCHANGED <<lock, cookie, panel, left, issued, spent, clobbered>>

-----------------------------------------------------------------------------
(* The answer, in the browser.                                              *)

\* issueSession: the version the handler read, 0 for an accepted invitation.
Token(b) == [user |-> Target(b), sv |-> Seen(b).sv, born |-> req[b].born]

\* What the page shows next.  A signed-in browser leaves the sign-in page.
Shown(b) == LET op == req[b].op  p == panel[b] IN
    IF req[b].pc = "needs" THEN [p EXCEPT !.needsCode = TRUE]
    ELSE IF req[b].pc = "failed" THEN p
    ELSE CASE op \in {"login", "accept"} -> Blank
           [] op = "status"  -> [p EXCEPT !.known = IF Seen(b).enabled THEN "on" ELSE "off",
                                          !.secret = 0]
           [] op = "enrol"   -> [p EXCEPT !.secret = req[b].code.n]
           [] op = "confirm" -> [p EXCEPT !.secret = 0]
           [] OTHER -> p

Answers == {"done", "needs", "failed"}

\* The row's button of a deactivation stays disabled after it has succeeded.
Answered(b) == LET op == req[b].op IN
    /\ req[b].pc \in Answers
    /\ cookie' = [cookie EXCEPT ![b] =
           IF req[b].pc = "done" /\ op \in {"login", "accept"} THEN Token(b) ELSE @]
    /\ panel' = [panel EXCEPT ![b] = Shown(b)]
    /\ req' = [req EXCEPT ![b] =
           IF req[b].pc = "done" /\ op \in {"deactivate", "reactivate"}
           THEN [Idle EXCEPT !.pc = "busy"] ELSE Idle]
    /\ UNCHANGED <<account, lock, left, issued, revoked, spent, clobbered>>

\* The connection breaks before the handler starts or after it has finished.  The
\* sign-in form and the security page do not catch that and stay busy.
Lost(b) == LET op == req[b].op IN
    /\ \/ req[b].pc \in Answers \cup {"auth"}
       \/ At(b, "login", "read")
       \/ At(b, "accept", "write")
    /\ req' = [req EXCEPT ![b] =
           IF op \in {"login", "enrol", "confirm", "disable"}
           THEN [Idle EXCEPT !.pc = "busy"] ELSE Idle]
    /\ UNCHANGED <<account, lock, cookie, panel, left, issued, revoked, spent, clobbered>>

\* The page is opened anew.
Reload(b) ==
    /\ req[b].pc \in {"idle", "busy"}
    /\ <<req[b], panel[b]>> # <<Idle, Blank>>
    /\ req' = [req EXCEPT ![b] = Idle]
    /\ panel' = [panel EXCEPT ![b] = Blank]
    /\ UNCHANGED <<account, lock, cookie, left, issued, revoked, spent, clobbered>>

\* Signing out drops the cookie; so does the end of the token's life.
SignOut(b) ==
    /\ req[b].pc = "idle" /\ cookie[b] # None
    /\ cookie' = [cookie EXCEPT ![b] = None]
    /\ panel' = [panel EXCEPT ![b] = Blank]
    /\ UNCHANGED <<account, lock, req, left, issued, revoked, spent, clobbered>>

-----------------------------------------------------------------------------
Form(b) == \/ AcceptInvitation(b) \/ OpenSecurity(b) \/ SignOutEverywhere(b)
           \/ \E u \in Users : SignIn(b, u) \/ ManageStaff(b, u)

Handler(b) ==
    \/ Authorise(b) \/ ReadSignIn(b) \/ CheckSignIn(b)
    \/ ReadFactor(b) \/ CheckDisable(b) \/ ReadStatus(b)
    \/ WriteSecret(b) \/ WriteEnabled(b) \/ WriteDisabled(b)
    \/ ReadInvited(b) \/ WriteInvitation(b) \/ Withdraw(b) \/ Accept(b)
    \/ TakeLock(b) \/ CountAdmins(b) \/ Deactivate(b)
    \/ Reactivate(b) \/ Revoke(b)

Next == \/ \E b \in Browsers : \/ Form(b) \/ Handler(b) \/ Answered(b)
                               \/ Lost(b) \/ Reload(b) \/ SignOut(b)
        \/ \E u \in Users : InvitationExpires(u)

Spec == Init /\ [][Next]_vars

-----------------------------------------------------------------------------
(* Properties.                                                              *)

Tokens == [user : Users, sv : Nat, born : Nat]
Accounts == [state : {"none", "invited", "active"}, role : Roles, off : BOOLEAN,
             sv : Nat, invite : Nat, fresh : BOOLEAN, password : Nat, secret : Nat,
             enabled : BOOLEAN, last : Nat, codes : SUBSET Nat]
Pcs == {"idle", "auth", "read", "factor", "check", "lock", "count", "write", "busy"} \cup Answers
Requests == [op : Ops \cup {"none"}, pc : Pcs, token : Tokens \cup {None},
             target : Users \cup {None}, role : Roles, invite : Nat,
             code : SecondFactors, seen : Accounts, born : Nat]

\* Types; whoever holds the advisory lock is the one that deactivates an account.
TypeOK ==
    /\ account \in [Users -> Accounts]
    /\ lock \in Browsers \cup {None}
    /\ \A b \in Browsers :
           lock = b <=> req[b].op = "deactivate" /\ req[b].pc \in {"count", "write"}
    /\ cookie \in [Browsers -> Tokens \cup {None}]
    /\ panel \in [Browsers -> [known : {"loading", "off", "on"},
                               needsCode : BOOLEAN, secret : Nat]]
    /\ req \in [Browsers -> Requests]
    /\ left \in [Ops -> Nat]
    /\ issued \in [invites : Nat, secrets : Nat]
    /\ revoked \in [Users -> Nat]
    /\ spent \in Seq(Nat)
    /\ clobbered \in BOOLEAN

\* middleware.ts: a session is honoured only while nothing has revoked the sessions of
\* its account since the handler that issued it read that account: neither a
\* deactivation undone since, nor signing out everywhere, nor either of them between
\* the sign-in's checks and its token.
NoStaleSession == \A b \in Browsers :
    cookie[b] # None /\ Live(cookie[b]) => cookie[b].born = revoked[cookie[b].user]

\* admin.ts: two admins cannot deactivate each other and leave nobody able to manage
\* staff, whatever else is going on - unless an invitation was written over an account.
SomeAdminLeft == clobbered \/ Admins # {}

\* auth.ts: two simultaneous attempts cannot both succeed with one recovery code.
CodeSpentOnce == \A n \in DOMAIN spent : spent[n] <= 1

\* auth.ts: an invitation gives an account its first password and never another one,
\* also when it was written over an account that was being activated.
ActivatedOnce == [][\A u \in Users : account[u].state = "active" =>
    account'[u].state = "active" /\ account'[u].password = account[u].password]_vars
=============================================================================
