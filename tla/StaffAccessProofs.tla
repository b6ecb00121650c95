------------------------- MODULE StaffAccessProofs -------------------------
(***************************************************************************)
(* What holds of StaffAccess for any users, browsers, time steps and       *)
(* budgets.  TInv is the type invariant with what a request in flight      *)
(* names; each safety invariant has a strengthening of its own below.      *)
(***************************************************************************)
EXTENDS StaffAccess, FiniteSetTheorems, TLAPS

\* A request that needs an account or a session has one.
Names(r) ==
    /\ r.op = "login" \/ r.op \in AdminOps \/ (r.op = "accept" /\ r.pc = "done")
           => r.target \in Users
    /\ r.op \notin {"none", "login", "accept"} => r.token \in Tokens

Named == \A b \in Browsers : Names(req[b])

TInv == TypeOK /\ Named

Deactivating(r) == r.op = "deactivate" /\ r.pc \in {"count", "write"}

\* The variables but req and lock keep their types.
RestTyped ==
    /\ account \in [Users -> Accounts]
    /\ cookie \in [Browsers -> Tokens \cup {None}]
    /\ panel \in [Browsers -> [known : {"loading", "off", "on"},
                               needsCode : BOOLEAN, secret : Nat]]
    /\ left \in [Ops -> Nat]
    /\ issued \in [invites : Nat, secrets : Nat]
    /\ revoked \in [Users -> Nat]
    /\ spent \in Seq(Nat)
    /\ clobbered \in BOOLEAN

-----------------------------------------------------------------------------
(* Operators.                                                              *)

LEMMA ConstantsTyped ==
    /\ NoCode \in SecondFactors
    /\ NoAccount \in Accounts
    /\ Idle \in Requests
BY DEF NoCode, SecondFactors, NoAccount, Accounts, Roles, Idle, Requests, Pcs, Answers, Ops

\* A browser's request moves to another step, or becomes another request.
LEMMA RequestMoves ==
    ASSUME TypeOK, NEW b \in Browsers, NEW r \in Requests,
           req' = [req EXCEPT ![b] = r]
    PROVE  /\ req' \in [Browsers -> Requests]
           /\ req'[b] = r
           /\ \A c \in Browsers : c # b => req'[c] = req[c]
BY DEF TypeOK

LEMMA StepMoves ==
    ASSUME TypeOK, NEW b \in Browsers, NEW pc \in Pcs, Goto(b, pc)
    PROVE  /\ req' \in [Browsers -> Requests]
           /\ req'[b] = [req[b] EXCEPT !.pc = pc]
           /\ \A c \in Browsers : c # b => req'[c] = req[c]
<1>1. req[b] \in Requests
  BY DEF TypeOK
<1>2. [req[b] EXCEPT !.pc = pc] \in Requests
  BY <1>1 DEF Requests
<1>3. QED
  BY <1>2 DEF TypeOK, Goto

\* One row of users changes.
LEMMA RowMoves ==
    ASSUME TypeOK, NEW u \in Users, NEW row \in Accounts,
           account' = [account EXCEPT ![u] = row]
    PROVE  /\ account' \in [Users -> Accounts]
           /\ account'[u] = row
           /\ \A v \in Users : v # u => account'[v] = account[v]
BY DEF TypeOK

\* What an invitation and a deactivation write.
LEMMA InvitedRow ==
    ASSUME NEW row \in Accounts, NEW role \in Roles, NEW n \in Nat
    PROVE  /\ Invited(row, role, n) \in Accounts
           /\ Invited(row, role, n).state = (IF row.state = "none" THEN "invited" ELSE row.state)
           /\ Invited(row, role, n).sv = row.sv
           /\ Invited(row, role, n).password = row.password
           /\ Invited(row, role, n).off = row.off
           /\ Invited(row, role, n).codes = row.codes
BY DEF Invited, Accounts

LEMMA DeactivatedRow ==
    ASSUME NEW row \in Accounts
    PROVE  /\ Deactivated(row) \in Accounts
           /\ Deactivated(row).state = row.state
           /\ Deactivated(row).sv = row.sv + 1
           /\ Deactivated(row).password = row.password
           /\ Deactivated(row).codes = row.codes
<1> DEFINE n == row.sv + 1
<1>1. n \in Nat
  BY DEF Accounts
<1>2. Deactivated(row) = [row EXCEPT !.off = TRUE, !.sv = n]
  BY DEF Deactivated
<1> HIDE DEF n
<1>3. /\ [row EXCEPT !.off = TRUE, !.sv = n] \in Accounts
      /\ [row EXCEPT !.off = TRUE, !.sv = n].state = row.state
      /\ [row EXCEPT !.off = TRUE, !.sv = n].sv = n
      /\ [row EXCEPT !.off = TRUE, !.sv = n].password = row.password
      /\ [row EXCEPT !.off = TRUE, !.sv = n].codes = row.codes
  BY <1>1 DEF Accounts
<1>4. QED
  BY <1>2, <1>3 DEF n

LEMMA CodesTyped ==
    ASSUME TypeOK
    PROVE  CodesOf \subseteq SecondFactors
<1>1. 1..issued.secrets \subseteq Nat /\ DOMAIN spent \subseteq Nat
  BY DEF TypeOK
<1>2. TimeSteps \subseteq Nat
  BY StaffAssumption DEF StaffAssumption
<1>3. ASSUME NEW c \in CodesOf
      PROVE  c \in SecondFactors
  <2>1. CASE c \in [kind : {"totp"}, n : 1..issued.secrets, step : TimeSteps]
    <3>1. c.n \in Nat /\ c.step \in Nat /\ c.kind = "totp"
      BY <1>1, <1>2, <2>1
    <3>2. c = [kind |-> c.kind, n |-> c.n, step |-> c.step]
      BY <2>1
    <3>3. QED
      BY <3>1, <3>2 DEF SecondFactors
  <2>2. CASE c \in [kind : {"recovery"}, n : DOMAIN spent, step : {0}]
    BY <1>1, <2>2 DEF SecondFactors
  <2>3. QED
    BY <1>3, <2>1, <2>2 DEF CodesOf
<1>4. QED
  BY <1>3

-----------------------------------------------------------------------------
(* Type correctness.                                                        *)

\* What a step of one browser's request has to show.
LEMMA StepTyped ==
    ASSUME TInv, RestTyped', NEW b \in Browsers, NEW r \in Requests, Names(r),
           req' = [req EXCEPT ![b] = r],
           \/ lock' = lock /\ (Deactivating(r) <=> Deactivating(req[b]))
           \/ lock' = b /\ lock = None /\ Deactivating(r)
           \/ lock' = None /\ Deactivating(req[b]) /\ ~Deactivating(r)
    PROVE  TInv'
<1>1. /\ req' \in [Browsers -> Requests]
      /\ req'[b] = r
      /\ \A c \in Browsers : c # b => req'[c] = req[c]
  BY RequestMoves DEF TInv
<1>2. Named'
  BY <1>1 DEF TInv, Named
<1>3. \A c \in Browsers : lock = c <=> Deactivating(req[c])
  BY DEF TInv, TypeOK, Deactivating
<1>4. lock' \in Browsers \cup {None}
  BY DEF TInv, TypeOK
<1>5. \A c \in Browsers : lock' = c <=> Deactivating(req'[c])
  BY <1>1, <1>3, StaffAssumption DEF StaffAssumption
<1>6. TypeOK'
  BY <1>1, <1>4, <1>5 DEF TypeOK, RestTyped, Deactivating
<1>7. QED
  BY <1>2, <1>6 DEF TInv

LEMMA SendsTyped ==
    ASSUME TInv, NEW b \in Browsers, NEW r \in Requests, Names(r), ~Deactivating(r),
           Sends(b, r)
    PROVE  TInv'
<1>1. left' \in [Ops -> Nat]
  <2>1. left \in [Ops -> Nat] /\ left[r.op] > 0 /\ left' = [left EXCEPT ![r.op] = @ - 1]
    BY DEF Sends, TInv, TypeOK
  <2>2. ASSUME NEW op \in Ops
        PROVE  left'[op] \in Nat
    BY <2>1
  <2>3. QED
    BY <2>1, <2>2
<1>5. RestTyped'
  BY <1>1 DEF Sends, RestTyped, TInv, TypeOK
<1>2. ~Deactivating(req[b])
  BY DEF Sends, Deactivating
<1>3. req' = [req EXCEPT ![b] = r] /\ lock' = lock
  BY DEF Sends
<1>4. QED
  BY <1>5, <1>2, <1>3, StepTyped

\* What a form sends.
Sent(r) == r.pc \in {"auth", "read"} \/ (r.op = "accept" /\ r.pc = "write")

LEMMA FormsSend ==
    ASSUME TInv, NEW b \in Browsers, Form(b)
    PROVE  \E r \in Requests : Names(r) /\ Sent(r) /\ Sends(b, r)
<1> USE DEF TInv
<1> DEFINE Goal == \E r \in Requests : Names(r) /\ Sent(r) /\ Sends(b, r)
<1>0. ASSUME NEW r \in Requests, Names(r), Sent(r), Sends(b, r)
      PROVE  Goal
  BY <1>0
<1> HIDE DEF Goal
<1>1. /\ Idle \in Requests /\ NoCode \in SecondFactors
      /\ CodesOf \subseteq SecondFactors
      /\ cookie[b] \in Tokens \cup {None}
      /\ panel[b].secret \in Nat
  BY ConstantsTyped, CodesTyped DEF TypeOK
<1>2. CASE AcceptInvitation(b)
  <2>1. PICK n \in 1..issued.invites :
            Sends(b, [Idle EXCEPT !.op = "accept", !.pc = "write", !.invite = n])
    BY <1>2 DEF AcceptInvitation
  <2> DEFINE r == [Idle EXCEPT !.op = "accept", !.pc = "write", !.invite = n]
  <2>2. n \in Nat
    BY DEF TypeOK
  <2>4. r \in Requests /\ Names(r) /\ Sent(r)
    BY <1>1, <2>2 DEF Idle, Requests, Pcs, Ops, Names, AdminOps, Sent
  <2>3. QED
    BY <1>0, <2>1, <2>4
<1>3. ASSUME cookie[b] # None, NEW op \in Ops \ {"login", "accept"}
      PROVE  /\ Staff(b, op) \in Requests /\ Staff(b, op).op = op /\ Staff(b, op).pc = "auth"
             /\ Staff(b, op).token \in Tokens /\ Staff(b, op).code = NoCode
  BY <1>1, <1>3 DEF Staff, Idle, Requests, Pcs, Ops
<1>4. CASE OpenSecurity(b)
  <2>1. ASSUME NEW op \in {"status", "enrol"}, Sends(b, Staff(b, op))
        PROVE  Goal
    BY <1>3, <1>0, <1>4, <2>1 DEF OpenSecurity, Names, AdminOps, Sent, Ops
  <2>2. ASSUME NEW op \in {"confirm", "disable"}, NEW c \in SecondFactors,
               Sends(b, [Staff(b, op) EXCEPT !.code = c])
        PROVE  Goal
    <3>1. Staff(b, op) \in Requests /\ Staff(b, op).op = op /\ Staff(b, op).pc = "auth"
          /\ Staff(b, op).token \in Tokens
      BY <1>3, <1>4 DEF OpenSecurity, Ops
    <3> DEFINE r == [Staff(b, op) EXCEPT !.code = c]
    <3>2. r \in Requests /\ r.op = op /\ r.pc = "auth" /\ r.token \in Tokens
      BY <3>1 DEF Requests
    <3> HIDE DEF r
    <3>3. Names(r) /\ Sent(r)
      BY <3>2 DEF Names, AdminOps, Sent
    <3>4. Sends(b, r)
      BY <2>2 DEF r
    <3>5. QED
      BY <1>0, <3>2, <3>3, <3>4
  <2>3. ASSUME NEW t \in TimeSteps
        PROVE  [kind |-> "totp", n |-> panel[b].secret, step |-> t] \in SecondFactors
    BY <1>1, StaffAssumption DEF SecondFactors, StaffAssumption
  <2>4. ASSUME NEW t \in TimeSteps, Sends(b, [Staff(b, "confirm") EXCEPT
                   !.code = [kind |-> "totp", n |-> panel[b].secret, step |-> t]])
        PROVE  Goal
    BY <2>2, <2>3, <2>4
  <2>5. ASSUME NEW c \in CodesOf, Sends(b, [Staff(b, "disable") EXCEPT !.code = c])
        PROVE  Goal
    BY <1>1, <2>2, <2>5
  <2>6. QED
    BY <1>4, <2>1, <2>4, <2>5 DEF OpenSecurity, Goal
<1>5. CASE SignOutEverywhere(b)
  BY <1>0, <1>3, <1>5 DEF SignOutEverywhere, Names, AdminOps, Sent, Ops
<1>6. ASSUME NEW u \in Users, SignIn(b, u)
      PROVE  Goal
  <2>1. PICK c \in SecondFactors :
            Sends(b, [Idle EXCEPT !.op = "login", !.pc = "read", !.target = u, !.code = c])
    BY <1>1, <1>6 DEF SignIn
  <2> DEFINE r == [Idle EXCEPT !.op = "login", !.pc = "read", !.target = u, !.code = c]
  <2>2. r \in Requests /\ Names(r) /\ Sent(r)
    BY <1>1 DEF Idle, Requests, Pcs, Ops, Names, AdminOps, Sent
  <2>3. QED
    BY <1>0, <2>1, <2>2
<1>7. ASSUME NEW u \in Users, ManageStaff(b, u)
      PROVE  Goal
  <2>1. ASSUME NEW op \in AdminOps, NEW role \in Roles,
               \/ Sends(b, [Staff(b, op) EXCEPT !.target = u, !.role = role])
               \/ Sends(b, [Staff(b, op) EXCEPT !.target = u])
        PROVE  Goal
    <3>1. Staff(b, op) \in Requests /\ Staff(b, op).op = op /\ Staff(b, op).pc = "auth"
          /\ Staff(b, op).token \in Tokens
      BY <1>3, <1>7 DEF ManageStaff, Ops, AdminOps
    <3>2. ASSUME NEW r, \/ r = [Staff(b, op) EXCEPT !.target = u, !.role = role]
                        \/ r = [Staff(b, op) EXCEPT !.target = u]
          PROVE  r \in Requests /\ Names(r) /\ Sent(r)
      <4>1. r \in Requests /\ r.op = op /\ r.pc = "auth" /\ r.token \in Tokens /\ r.target = u
        BY <3>1, <3>2 DEF Requests
      <4>2. QED
        BY <4>1 DEF Names, AdminOps, Sent
    <3>3. QED
      BY <1>0, <2>1, <3>2
  <2>2. QED
    BY <1>7, <2>1 DEF ManageStaff, AdminOps, Roles
<1>8. QED
  BY <1>2, <1>4, <1>5, <1>6, <1>7 DEF Form, Goal

LEMMA FormTyped ==
    ASSUME TInv, NEW b \in Browsers, Form(b)
    PROVE  TInv'
BY FormsSend, SendsTyped DEF Sent, Deactivating

\* A handler of another operation than a deactivation goes to its next step.
LEMMA GotoTyped ==
    ASSUME TInv, RestTyped', NEW b \in Browsers, NEW pc \in Pcs, Goto(b, pc),
           req[b].op # "deactivate", lock' = lock,
           pc = "done" => req[b].op # "accept"
    PROVE  TInv'
<1> DEFINE r == [req[b] EXCEPT !.pc = pc]
<1>1. req[b] \in Requests /\ Names(req[b])
  BY DEF TInv, TypeOK, Named
<1>2. r \in Requests /\ r.op = req[b].op /\ r.pc = pc /\ r.target = req[b].target
      /\ r.token = req[b].token
  BY <1>1 DEF Requests
<1>3. Names(r)
  BY <1>1, <1>2 DEF Names
<1>4. Deactivating(r) <=> Deactivating(req[b])
  BY <1>2 DEF Deactivating
<1>5. QED
  BY <1>2, <1>3, <1>4, StepTyped DEF Goto

LEMMA AuthoriseTyped ==
    ASSUME TInv, NEW b \in Browsers, Authorise(b)
    PROVE  TInv'
<1>1. RestTyped' /\ lock' = lock
  BY DEF Authorise, RestTyped, TInv, TypeOK
<1>2. req[b].pc = "auth"
  BY DEF Authorise
<1>3. PICK pc : /\ Goto(b, pc)
                /\ pc \in {"read", "write", "check", "failed", "lock"}
                /\ req[b].op = "deactivate" => pc \in {"failed", "lock"}
  BY DEF Authorise, FirstStep
<1> DEFINE r == [req[b] EXCEPT !.pc = pc]
<1>4. req[b] \in Requests /\ Names(req[b])
  BY DEF TInv, TypeOK, Named
<1>5. r \in Requests /\ r.op = req[b].op /\ r.pc = pc /\ r.target = req[b].target
      /\ r.token = req[b].token
  BY <1>3, <1>4 DEF Requests, Pcs, Answers
<1>6. Names(r) /\ ~Deactivating(r) /\ ~Deactivating(req[b])
  BY <1>2, <1>3, <1>4, <1>5 DEF Names, Deactivating
<1>7. QED
  BY <1>1, <1>3, <1>5, <1>6, StepTyped DEF Goto

\* The second factor of a sign-in or of turning it off.
LEMMA SecondFactorTyped ==
    ASSUME TInv, NEW b \in Browsers, NEW u \in Users, NEW next \in {"done", "write"},
           SecondFactor(b, u, next), req[b].op \notin {"deactivate", "accept"}
    PROVE  TInv'
<1>1. lock' = lock
  BY DEF SecondFactor
<1>2. account[u] \in Accounts /\ req[b] \in Requests
  BY DEF TInv, TypeOK
<1> DEFINE c == req[b].code
<1>3. c \in SecondFactors
  BY <1>2 DEF Requests
<1>4. account' \in [Users -> Accounts]
  <2>1. [account[u] EXCEPT !.last = IF @ < c.step THEN c.step ELSE @] \in Accounts
    BY <1>2, <1>3 DEF Accounts, SecondFactors
  <2>2. [account[u] EXCEPT !.codes = @ \ {c.n}] \in Accounts
    BY <1>2 DEF Accounts
  <2>3. QED
    BY <2>1, <2>2 DEF SecondFactor, TInv, TypeOK
<1>5. spent' \in Seq(Nat)
  BY <1>3 DEF SecondFactor, TInv, TypeOK, SecondFactors
<1>6. RestTyped'
  BY <1>4, <1>5 DEF SecondFactor, RestTyped, TInv, TypeOK
<1>7. \E pc \in {"needs", "failed", next} : Goto(b, pc)
  BY DEF SecondFactor
<1>8. QED
  BY <1>1, <1>6, <1>7, GotoTyped DEF Pcs, Answers

\* Signing in and the second factor.
LEMMA SignInTyped ==
    ASSUME TInv, NEW b \in Browsers, ReadSignIn(b) \/ CheckSignIn(b)
    PROVE  TInv'
<1>1. req[b].op = "login" /\ req[b].target \in Users /\ lock' = lock
  BY DEF ReadSignIn, CheckSignIn, SecondFactor, At, TInv, Named, Names
<1>2. CASE ReadSignIn(b)
  <2>1. RestTyped'
    BY <1>2 DEF ReadSignIn, RestTyped, TInv, TypeOK
  <2>2. CASE Goto(b, "failed")
    BY <1>1, <2>1, <2>2, GotoTyped DEF Pcs, Answers
  <2>3. CASE ~Goto(b, "failed")
    <3> DEFINE u == Target(b)
               r == [req[b] EXCEPT !.seen = account[u], !.born = revoked[u],
                                   !.pc = IF account[u].enabled THEN "factor" ELSE "done"]
    <3>1. req' = [req EXCEPT ![b] = r]
      BY <1>2, <2>3 DEF ReadSignIn
    <3>2. req[b] \in Requests /\ account[u] \in Accounts /\ revoked[u] \in Nat /\ Names(req[b])
      BY <1>1 DEF TInv, TypeOK, Target, Named
    <3>3. r \in Requests /\ r.op = "login" /\ r.target = req[b].target
      BY <1>1, <3>2 DEF Requests, Pcs, Answers
    <3>4. Names(r) /\ ~Deactivating(r) /\ ~Deactivating(req[b])
      BY <1>1, <3>3 DEF Names, AdminOps, Deactivating
    <3>5. QED
      BY <1>1, <2>1, <3>1, <3>3, <3>4, StepTyped
  <2>4. QED
    BY <2>2, <2>3
<1>3. CASE CheckSignIn(b)
  BY <1>1, <1>3, SecondFactorTyped DEF CheckSignIn, Target
<1>4. QED
  BY <1>2, <1>3

\* Enrolment, confirmation and removal of the second factor.
LEMMA FactorTyped ==
    ASSUME TInv, NEW b \in Browsers,
           \/ ReadFactor(b) \/ CheckDisable(b) \/ ReadStatus(b)
           \/ WriteSecret(b) \/ WriteEnabled(b) \/ WriteDisabled(b)
    PROVE  TInv'
<1> DEFINE u == Self(b)
<1>1. /\ req[b].op \in {"status", "enrol", "confirm", "disable"}
      /\ lock' = lock
  BY DEF ReadFactor, CheckDisable, SecondFactor, ReadStatus, WriteSecret, WriteEnabled,
         WriteDisabled, At
<1>2. req[b] \in Requests /\ Names(req[b]) /\ u \in Users /\ account[u] \in Accounts
      /\ issued \in [invites : Nat, secrets : Nat]
  BY <1>1 DEF TInv, TypeOK, Named, Names, Self, Tokens
<1>3. ASSUME NEW r \in Requests, RestTyped', r.op = req[b].op, r.token = req[b].token,
             req' = [req EXCEPT ![b] = r]
      PROVE  TInv'
  <2>1. Names(r) /\ ~Deactivating(r) /\ ~Deactivating(req[b])
    BY <1>1, <1>2, <1>3 DEF Names, AdminOps, Deactivating
  <2>2. QED
    BY <1>1, <1>3, <2>1, StepTyped
<1>4. CASE ReadFactor(b)
  <2>1. PICK pc \in {"failed", "write", "factor"} :
            req' = [req EXCEPT ![b] = [@ EXCEPT !.seen = account[u], !.pc = pc]]
    BY <1>4 DEF ReadFactor
  <2> DEFINE r == [req[b] EXCEPT !.seen = account[u], !.pc = pc]
  <2>2. r \in Requests /\ r.op = req[b].op /\ r.token = req[b].token
    BY <1>2 DEF Requests, Pcs, Answers
  <2>3. RestTyped'
    BY <1>4 DEF ReadFactor, RestTyped, TInv, TypeOK
  <2>4. req' = [req EXCEPT ![b] = r]
    BY <2>1
  <2>5. QED
    BY <1>3, <2>2, <2>3, <2>4
<1>5. CASE CheckDisable(b)
  BY <1>2, <1>5, SecondFactorTyped DEF CheckDisable
<1>6. CASE ReadStatus(b)
  <2> DEFINE r == [req[b] EXCEPT !.seen = account[u], !.pc = "done"]
  <2>1. r \in Requests /\ r.op = req[b].op /\ r.token = req[b].token
    BY <1>2 DEF Requests, Pcs, Answers
  <2>2. RestTyped' /\ req' = [req EXCEPT ![b] = r]
    BY <1>6 DEF ReadStatus, RestTyped, TInv, TypeOK
  <2>3. QED
    BY <1>3, <2>1, <2>2
<1>7. CASE WriteSecret(b)
  <2> DEFINE n == issued.secrets + 1
             r == [req[b] EXCEPT !.pc = "done", !.code.n = n]
  <2>1. issued' = [issued EXCEPT !.secrets = n] /\ issued'.secrets = n /\ n \in Nat
        /\ issued' \in [invites : Nat, secrets : Nat]
    BY <1>2, <1>7 DEF WriteSecret
  <2>2. [account[u] EXCEPT !.secret = n, !.last = 0] \in Accounts
    BY <1>2, <2>1 DEF Accounts
  <2>3. account' \in [Users -> Accounts]
    BY <1>7, <2>1, <2>2 DEF WriteSecret, TInv, TypeOK
  <2>4. r \in Requests /\ r.op = req[b].op /\ r.token = req[b].token
    BY <1>2, <2>1 DEF Requests, Pcs, Answers, SecondFactors
  <2>5. RestTyped'
    BY <1>7, <2>1, <2>3 DEF WriteSecret, RestTyped, TInv, TypeOK
  <2>6. req' = [req EXCEPT ![b].pc = "done", ![b].code.n = n]
    BY <1>7, <2>1 DEF WriteSecret
  <2>7. req' = [req EXCEPT ![b] = r]
    BY <2>6
  <2>8. QED
    BY <1>3, <2>4, <2>5, <2>7
<1>8. CASE WriteEnabled(b)
  <2>1. req[b].code \in SecondFactors /\ spent \in Seq(Nat)
    BY <1>2 DEF Requests, TInv, TypeOK
  <2>2. Len(spent) + 1 \in Nat /\ req[b].code.step \in Nat
    BY <2>1 DEF SecondFactors
  <2> DEFINE row == [account[u] EXCEPT !.enabled = TRUE, !.codes = {Len(spent) + 1},
                                       !.last = req[b].code.step]
  <2>7. row \in Accounts
    BY <1>2, <2>2 DEF Accounts
  <2>8. account' = account \/ account' = [account EXCEPT ![u] = row]
    BY <1>8 DEF WriteEnabled
  <2>9. spent' = spent \/ spent' = Append(spent, 0)
    BY <1>8 DEF WriteEnabled
  <2> HIDE DEF row
  <2>3. account' \in [Users -> Accounts]
    BY <2>7, <2>8 DEF TInv, TypeOK
  <2>10. spent' \in Seq(Nat)
    BY <2>1, <2>9
  <2>4. RestTyped'
    BY <1>8, <2>3, <2>10 DEF WriteEnabled, RestTyped, TInv, TypeOK
  <2>5. Goto(b, "failed") \/ Goto(b, "done")
    BY <1>8 DEF WriteEnabled
  <2>6. QED
    BY <1>1, <2>4, <2>5, GotoTyped DEF Pcs, Answers
<1>9. CASE WriteDisabled(b)
  <2>1. [account[u] EXCEPT !.secret = 0, !.enabled = FALSE, !.last = 0, !.codes = {}] \in Accounts
    BY <1>2 DEF Accounts
  <2>2. RestTyped'
    BY <1>9, <2>1 DEF WriteDisabled, RestTyped, TInv, TypeOK
  <2>3. QED
    BY <1>1, <1>9, <2>2, GotoTyped DEF WriteDisabled, Pcs, Answers
<1>10. QED
  BY <1>4, <1>5, <1>6, <1>7, <1>8, <1>9

\* Invitations, revocation and reactivation.
LEMMA StaffTyped ==
    ASSUME TInv, NEW b \in Browsers,
           \/ ReadInvited(b) \/ WriteInvitation(b) \/ Withdraw(b)
           \/ Accept(b) \/ Reactivate(b) \/ Revoke(b)
    PROVE  TInv'
<1>1. /\ req[b].op \in {"invite", "withdraw", "accept", "reactivate", "revoke"}
      /\ lock' = lock
  BY DEF ReadInvited, WriteInvitation, Withdraw, Accept, Reactivate, Revoke, At
<1>2. /\ req[b] \in Requests /\ Names(req[b]) /\ issued \in [invites : Nat, secrets : Nat]
      /\ \A u \in Users : account[u] \in Accounts /\ revoked[u] \in Nat
  BY DEF TInv, TypeOK, Named
<1>3. ASSUME NEW pc \in {"write", "failed", "done"}, Goto(b, pc), RestTyped', req[b].op # "accept"
      PROVE  TInv'
  BY <1>1, <1>3, GotoTyped DEF Pcs, Answers
<1>4. CASE ReadInvited(b)
  BY <1>3, <1>4 DEF ReadInvited, At, RestTyped, TInv, TypeOK
<1>5. CASE WriteInvitation(b)
  <2> DEFINE u == Target(b)
             n == issued.invites + 1
             row == Invited(account[u], req[b].role, issued'.invites)
  <2>1. /\ issued' = [issued EXCEPT !.invites = n] /\ issued'.invites = n /\ n \in Nat
        /\ issued' \in [invites : Nat, secrets : Nat]
    BY <1>2, <1>5 DEF WriteInvitation
  <2>2. u \in Users /\ req[b].role \in Roles
    BY <1>2, <1>5 DEF WriteInvitation, At, Names, AdminOps, Target, Requests
  <2>8. account[u] \in Accounts
    BY <1>2, <2>2
  <2>3. row \in Accounts
    BY <2>1, <2>2, <2>8, InvitedRow
  <2>4. account' = [account EXCEPT ![u] = row]
    BY <1>5 DEF WriteInvitation
  <2> HIDE DEF row
  <2>5. account' \in [Users -> Accounts]
    BY <2>3, <2>4 DEF TInv, TypeOK
  <2>6. RestTyped'
    BY <1>5, <2>1, <2>5 DEF WriteInvitation, RestTyped, TInv, TypeOK
  <2>7. QED
    BY <1>3, <1>5, <2>6 DEF WriteInvitation, At
<1>6. CASE Withdraw(b)
  <2>1. RestTyped'
    BY <1>6, ConstantsTyped DEF Withdraw, RestTyped, TInv, TypeOK
  <2>2. QED
    BY <1>3, <1>6, <2>1 DEF Withdraw, At
<1>7. CASE Accept(b)
  <2>1. CASE Goto(b, "failed") /\ UNCHANGED account
    <3>1. RestTyped'
      BY <1>7, <2>1 DEF Accept, RestTyped, TInv, TypeOK
    <3>2. QED
      BY <1>1, <1>7, <2>1, <3>1, GotoTyped DEF Accept, At, Pcs, Answers
  <2>2. CASE ~(Goto(b, "failed") /\ UNCHANGED account)
    <3>1. PICK u \in Users :
            /\ account' = [account EXCEPT ![u].state = "active",
                                          ![u].password = req[b].invite,
                                          ![u].invite = 0, ![u].fresh = FALSE]
            /\ req' = [req EXCEPT ![b].target = u, ![b].pc = "done",
                                  ![b].seen = [NoAccount EXCEPT !.role = account[u].role],
                                  ![b].born = revoked[u]]
      BY <1>7, <2>2 DEF Accept
    <3> DEFINE row == [account[u] EXCEPT !.state = "active", !.password = req[b].invite,
                                         !.invite = 0, !.fresh = FALSE]
               seen == [NoAccount EXCEPT !.role = account[u].role]
               r == [req[b] EXCEPT !.target = u, !.pc = "done", !.seen = seen,
                                   !.born = revoked[u]]
    <3>2. row \in Accounts
      BY <1>2 DEF Accounts, Requests
    <3>3. account' = [account EXCEPT ![u] = row]
      BY <3>1
    <3>4. seen \in Accounts
      BY <1>2, ConstantsTyped DEF Accounts
    <3> HIDE DEF row, seen
    <3>5. account' \in [Users -> Accounts]
      BY <3>2, <3>3 DEF TInv, TypeOK
    <3>6. RestTyped'
      BY <1>7, <3>5 DEF Accept, RestTyped, TInv, TypeOK
    <3>7. /\ r \in Requests /\ r.op = req[b].op /\ r.token = req[b].token
          /\ r.target \in Users
      BY <1>2, <3>4 DEF Requests, Pcs, Answers
    <3>8. Names(r) /\ ~Deactivating(r) /\ ~Deactivating(req[b])
      BY <1>1, <1>2, <3>7 DEF Names, AdminOps, Deactivating
    <3>9. req' = [req EXCEPT ![b] = r]
      BY <3>1 DEF seen
    <3>10. QED
      BY <1>1, <3>6, <3>7, <3>8, <3>9, StepTyped
  <2>3. QED
    BY <2>1, <2>2
<1>8. CASE Reactivate(b)
  <2> DEFINE u == Target(b)
             row == [account[u] EXCEPT !.off = FALSE]
  <2>1. account[u] \in Accounts
    BY <1>2, <1>8 DEF Reactivate, At, Names, AdminOps, Target
  <2>4. row \in Accounts
    BY <2>1 DEF Accounts
  <2>5. account' = account \/ account' = [account EXCEPT ![u] = row]
    BY <1>8 DEF Reactivate
  <2> HIDE DEF row
  <2>6. account' \in [Users -> Accounts]
    BY <2>4, <2>5 DEF TInv, TypeOK
  <2>2. RestTyped'
    BY <1>8, <2>6 DEF Reactivate, RestTyped, TInv, TypeOK
  <2>3. QED
    BY <1>3, <1>8, <2>2 DEF Reactivate, At
<1>9. CASE Revoke(b)
  <2>1. \A u \in Users : [account[u] EXCEPT !.sv = @ + 1] \in Accounts /\ revoked[u] + 1 \in Nat
    BY <1>2 DEF Accounts
  <2>2. RestTyped'
    BY <1>9, <2>1 DEF Revoke, RestTyped, TInv, TypeOK
  <2>3. QED
    BY <1>3, <1>9, <2>2 DEF Revoke, At
<1>10. QED
  BY <1>4, <1>5, <1>6, <1>7, <1>8, <1>9

\* The transaction of a deactivation takes the advisory lock and gives it back.
LEMMA DeactivateTyped ==
    ASSUME TInv, NEW b \in Browsers, TakeLock(b) \/ CountAdmins(b) \/ Deactivate(b)
    PROVE  TInv'
<1>1. req[b].op = "deactivate" /\ req[b] \in Requests /\ Names(req[b])
  BY DEF TakeLock, CountAdmins, Deactivate, At, TInv, TypeOK, Named
<1>2. ASSUME NEW pc \in {"count", "write", "failed", "done"}, Goto(b, pc), RestTyped',
             \/ lock' = lock /\ Deactivating(req[b]) /\ pc = "write"
             \/ lock' = b /\ lock = None /\ pc = "count"
             \/ lock' = None /\ Deactivating(req[b]) /\ pc \in {"failed", "done"}
      PROVE  TInv'
  <2> DEFINE r == [req[b] EXCEPT !.pc = pc]
  <2>1. r \in Requests /\ r.op = req[b].op /\ r.pc = pc /\ r.target = req[b].target
        /\ r.token = req[b].token
    BY <1>1 DEF Requests, Pcs, Answers
  <2>2. Names(r) /\ (Deactivating(r) <=> pc \in {"count", "write"})
    BY <1>1, <2>1 DEF Names, Deactivating
  <2>3. QED
    BY <1>2, <2>1, <2>2, StepTyped DEF Goto
<1>3. CASE TakeLock(b)
  <2>1. RestTyped'
    BY <1>3 DEF TakeLock, RestTyped, TInv, TypeOK
  <2>2. QED
    BY <1>2, <1>3, <2>1 DEF TakeLock, LockFree
<1>4. CASE CountAdmins(b)
  <2>1. RestTyped' /\ Deactivating(req[b])
    BY <1>4 DEF CountAdmins, RestTyped, TInv, TypeOK, Deactivating, At
  <2>2. QED
    BY <1>2, <1>4, <2>1 DEF CountAdmins
<1>5. CASE Deactivate(b)
  <2>1. ASSUME NEW u \in Users
        PROVE  Deactivated(account[u]) \in Accounts /\ revoked[u] + 1 \in Nat
    <3>1. account[u] \in Accounts /\ revoked[u] \in Nat
      BY DEF TInv, TypeOK
    <3>2. QED
      BY <3>1, DeactivatedRow
  <2>2. RestTyped' /\ Deactivating(req[b])
    BY <1>5, <2>1 DEF Deactivate, RestTyped, TInv, TypeOK, Deactivating, At
  <2>3. QED
    BY <1>2, <1>5, <2>2 DEF Deactivate
<1>6. QED
  BY <1>3, <1>4, <1>5

\* The answer reaches the browser or does not; pages are opened and left.
LEMMA BrowserTyped ==
    ASSUME TInv, NEW b \in Browsers, Answered(b) \/ Lost(b) \/ Reload(b) \/ SignOut(b)
    PROVE  TInv'
<1>1. /\ req[b] \in Requests /\ Names(req[b]) /\ panel[b].known \in {"loading", "off", "on"}
      /\ Idle \in Requests /\ [Idle EXCEPT !.pc = "busy"] \in Requests
  BY ConstantsTyped DEF TInv, TypeOK, Named, Requests, Idle, Pcs
<1>2. CASE Answered(b)
  <2>1. lock' = lock /\ ~Deactivating(req[b])
    BY <1>2 DEF Answered, Answers, Deactivating
  <2>2. PICK r \in {Idle, [Idle EXCEPT !.pc = "busy"]} : req' = [req EXCEPT ![b] = r]
    BY <1>2 DEF Answered
  <2>3. r \in Requests /\ Names(r) /\ ~Deactivating(r)
    BY <1>1 DEF Idle, Names, AdminOps, Deactivating
  <2>4. cookie' \in [Browsers -> Tokens \cup {None}]
    <3>1. ASSUME req[b].pc = "done", req[b].op \in {"login", "accept"}
          PROVE  Token(b) \in Tokens
      BY <1>1, <3>1 DEF Token, Tokens, Target, Seen, Names, Requests, Accounts
    <3>2. QED
      BY <1>2, <3>1 DEF Answered, TInv, TypeOK
  <2>5. Shown(b) \in [known : {"loading", "off", "on"}, needsCode : BOOLEAN, secret : Nat]
    <3>1. /\ panel[b] \in [known : {"loading", "off", "on"}, needsCode : BOOLEAN, secret : Nat]
          /\ req[b].code.n \in Nat
      BY <1>1 DEF TInv, TypeOK, Requests, SecondFactors
    <3>2. QED
      BY <3>1 DEF Shown, Blank
  <2>6. panel' \in [Browsers -> [known : {"loading", "off", "on"},
                                 needsCode : BOOLEAN, secret : Nat]]
    BY <1>2, <2>5 DEF Answered, TInv, TypeOK
  <2>7. RestTyped'
    BY <1>2, <2>4, <2>6 DEF Answered, RestTyped, TInv, TypeOK
  <2>8. QED
    BY <2>1, <2>2, <2>3, <2>7, StepTyped
<1>3. CASE Lost(b)
  <2>1. lock' = lock /\ ~Deactivating(req[b])
    BY <1>3 DEF Lost, At, Answers, Deactivating
  <2>2. PICK r \in {Idle, [Idle EXCEPT !.pc = "busy"]} : req' = [req EXCEPT ![b] = r]
    BY <1>3 DEF Lost
  <2>3. r \in Requests /\ Names(r) /\ ~Deactivating(r)
    BY <1>1 DEF Idle, Names, AdminOps, Deactivating
  <2>4. RestTyped'
    BY <1>3 DEF Lost, RestTyped, TInv, TypeOK
  <2>5. QED
    BY <2>1, <2>2, <2>3, <2>4, StepTyped
<1>4. CASE Reload(b)
  <2>1. lock' = lock /\ ~Deactivating(req[b]) /\ req' = [req EXCEPT ![b] = Idle]
    BY <1>4 DEF Reload, Deactivating
  <2>2. Names(Idle) /\ ~Deactivating(Idle)
    BY DEF Idle, Names, AdminOps, Deactivating
  <2>3. RestTyped'
    BY <1>4 DEF Reload, RestTyped, TInv, TypeOK, Blank
  <2>4. QED
    BY <1>1, <2>1, <2>2, <2>3, StepTyped
<1>5. CASE SignOut(b)
  BY <1>5 DEF SignOut, Blank, TInv, TypeOK, Named
<1>6. QED
  BY <1>2, <1>3, <1>4, <1>5

\* An invitation runs out of time.
LEMMA ExpiryTyped ==
    ASSUME TInv, NEW u \in Users, InvitationExpires(u)
    PROVE  TInv'
<1>1. account[u] \in Accounts
  BY DEF TInv, TypeOK
<1> DEFINE row == [account[u] EXCEPT !.fresh = FALSE]
<1>2. row \in Accounts
  BY <1>1 DEF Accounts
<1>3. account' = [account EXCEPT ![u] = row]
  BY DEF InvitationExpires
<1> HIDE DEF row
<1>4. account' \in [Users -> Accounts]
  BY <1>2, <1>3 DEF TInv, TypeOK
<1>5. /\ lock' = lock /\ cookie' = cookie /\ panel' = panel /\ req' = req /\ left' = left
      /\ issued' = issued /\ revoked' = revoked /\ spent' = spent /\ clobbered' = clobbered
  BY DEF InvitationExpires
<1>6. RestTyped'
  BY <1>4, <1>5 DEF RestTyped, TInv, TypeOK
<1>7. TypeOK'
  <2>1. /\ lock' \in Browsers \cup {None} /\ req' \in [Browsers -> Requests]
        /\ \A b \in Browsers :
               lock' = b <=> req'[b].op = "deactivate" /\ req'[b].pc \in {"count", "write"}
    BY <1>5 DEF TInv, TypeOK
  <2>2. QED
    BY <1>6, <2>1 DEF RestTyped, TypeOK
<1>8. Named'
  <2>1. \A b \in Browsers : Names(req'[b])
    BY <1>5 DEF TInv, Named
  <2>2. QED
    BY <2>1 DEF Named, Names
<1>9. QED
  BY <1>7, <1>8 DEF TInv

LEMMA InitTyped == Init => TInv
<1> SUFFICES ASSUME Init PROVE TInv
  OBVIOUS
<1>1. account \in [Users -> Accounts]
  BY ConstantsTyped DEF Init, NoAccount, Accounts, Roles
<1>2. req \in [Browsers -> Requests]
  BY ConstantsTyped DEF Init
<1>3. left \in [Ops -> Nat]
  BY StaffAssumption DEF Init, StaffAssumption
<1>4. \A b \in Browsers : req[b].op = "none" /\ req[b].pc = "idle"
  BY DEF Init, Idle
<1>7. \A b \in Browsers : lock = b <=> req[b].op = "deactivate" /\ req[b].pc \in {"count", "write"}
  BY <1>4, StaffAssumption DEF Init, StaffAssumption
<1>8. spent \in Seq(Nat)
  BY DEF Init
<1>9. /\ lock \in Browsers \cup {None} /\ cookie \in [Browsers -> Tokens \cup {None}]
      /\ panel \in [Browsers -> [known : {"loading", "off", "on"},
                                 needsCode : BOOLEAN, secret : Nat]]
      /\ issued \in [invites : Nat, secrets : Nat] /\ revoked \in [Users -> Nat]
      /\ clobbered \in BOOLEAN
  BY DEF Init, Blank
<1>5. TypeOK
  BY <1>1, <1>2, <1>3, <1>7, <1>8, <1>9 DEF TypeOK
<1>6. QED
  BY <1>4, <1>5 DEF TInv, Named, Names, AdminOps

LEMMA NextTyped == TInv /\ [Next]_vars => TInv'
<1> SUFFICES ASSUME TInv, [Next]_vars PROVE TInv'
  OBVIOUS
<1>1. CASE UNCHANGED vars
  BY <1>1 DEF vars, TInv, TypeOK, Named
<1>2. ASSUME NEW b \in Browsers, Form(b) PROVE TInv'
  BY <1>2, FormTyped
<1>3. ASSUME NEW b \in Browsers, Handler(b) PROVE TInv'
  BY <1>3, AuthoriseTyped, SignInTyped, FactorTyped, StaffTyped, DeactivateTyped DEF Handler
<1>4. ASSUME NEW b \in Browsers, Answered(b) \/ Lost(b) \/ Reload(b) \/ SignOut(b) PROVE TInv'
  BY <1>4, BrowserTyped
<1>5. ASSUME NEW u \in Users, InvitationExpires(u) PROVE TInv'
  BY <1>5, ExpiryTyped
<1>6. QED
  BY <1>1, <1>2, <1>3, <1>4, <1>5 DEF Next

LEMMA TypeInvariant == Spec => []TInv
BY InitTyped, NextTyped, PTL DEF Spec

\* Every variable keeps its type, and the advisory lock is held exactly while one
\* deactivation is between taking it and its commit.
THEOREM TypeCorrect == Spec => []TypeOK
<1>1. TInv => TypeOK
  BY DEF TInv
<1>2. QED
  BY <1>1, TypeInvariant, PTL

-----------------------------------------------------------------------------
(* What a step does to a row of users.                                      *)

\* The steps that write to users or to the recovery codes.
Writes(b) ==
    \/ CheckSignIn(b) \/ CheckDisable(b) \/ WriteSecret(b) \/ WriteEnabled(b) \/ WriteDisabled(b)
    \/ WriteInvitation(b) \/ Withdraw(b) \/ Accept(b)
    \/ Deactivate(b) \/ Reactivate(b) \/ Revoke(b)

LEMMA OtherStepsOnlyRead ==
    ASSUME [Next]_vars
    PROVE  \/ UNCHANGED <<account, revoked, spent, clobbered>>
           \/ \E b \in Browsers : Writes(b)
           \/ \E u \in Users : InvitationExpires(u)
<1>1. ASSUME NEW b \in Browsers, Form(b)
      PROVE  UNCHANGED <<account, revoked, spent, clobbered>>
  BY <1>1 DEF Form, AcceptInvitation, OpenSecurity, SignOutEverywhere, SignIn, ManageStaff, Sends
<1>2. ASSUME NEW b \in Browsers, Answered(b) \/ Lost(b) \/ Reload(b) \/ SignOut(b)
      PROVE  UNCHANGED <<account, revoked, spent, clobbered>>
  BY <1>2 DEF Answered, Lost, Reload, SignOut
<1>3. ASSUME NEW b \in Browsers, Handler(b), ~Writes(b)
      PROVE  UNCHANGED <<account, revoked, spent, clobbered>>
  BY <1>3 DEF Handler, Writes, Authorise, ReadSignIn, ReadFactor, ReadStatus, ReadInvited,
              TakeLock, CountAdmins
<1>4. QED
  BY <1>1, <1>2, <1>3 DEF Next, vars

Kept(u) ==
    /\ account'[u].sv = account[u].sv /\ revoked'[u] = revoked[u]
    /\ account[u].state = "active" =>
           /\ account'[u].state = "active" /\ account'[u].password = account[u].password
           /\ ~account[u].off => ~account'[u].off
           /\ clobbered' \/ account'[u].role = account[u].role

Erased(u) ==
    /\ account[u].state # "active" /\ revoked'[u] = revoked[u]
    /\ account'[u].sv = 0

Cut(u) ==
    /\ \E b \in Browsers : \/ Deactivate(b) /\ u = Target(b)
                           \/ /\ At(b, "revoke", "write") /\ u = Self(b)
                              /\ account'[u].off = account[u].off
                              /\ account'[u].role = account[u].role
    /\ account'[u].sv = account[u].sv + 1 /\ revoked'[u] = revoked[u] + 1
    /\ account'[u].state = account[u].state /\ account'[u].password = account[u].password

LEMMA RowsMove ==
    ASSUME TInv, [Next]_vars, NEW u \in Users
    PROVE  Kept(u) \/ Erased(u) \/ Cut(u)
<1>1. /\ account \in [Users -> Accounts] /\ account[u] \in Accounts
      /\ revoked \in [Users -> Nat] /\ revoked[u] \in Nat
  BY DEF TInv, TypeOK
<1>2. CASE UNCHANGED <<account, revoked, spent, clobbered>>
  BY <1>2 DEF Kept
<1>3. ASSUME NEW v \in Users, InvitationExpires(v)
      PROVE  Kept(u)
  BY <1>1, <1>3 DEF InvitationExpires, Kept, Accounts
<1>4. ASSUME NEW b \in Browsers, Writes(b)
      PROVE  Kept(u) \/ Erased(u) \/ Cut(u)
  <2>1. CASE CheckSignIn(b) \/ CheckDisable(b)
    BY <1>1, <2>1 DEF CheckSignIn, CheckDisable, SecondFactor, Kept, Accounts
  <2>2. CASE WriteSecret(b)
    BY <1>1, <2>2 DEF WriteSecret, Kept, Accounts
  <2>3. CASE WriteEnabled(b)
    <3> DEFINE w == Self(b)
               row == [account[w] EXCEPT !.enabled = TRUE, !.codes = {Len(spent) + 1},
                                         !.last = req[b].code.step]
    <3>1. w \in Users => /\ row.state = account[w].state /\ row.sv = account[w].sv
                         /\ row.password = account[w].password
                         /\ row.off = account[w].off /\ row.role = account[w].role
      BY DEF TInv, TypeOK, Accounts
    <3>2. (account' = account \/ account' = [account EXCEPT ![w] = row]) /\ revoked' = revoked
      BY <2>3 DEF WriteEnabled
    <3> HIDE DEF row
    <3>3. QED
      BY <1>1, <3>1, <3>2 DEF Kept
  <2>4. CASE WriteDisabled(b)
    BY <1>1, <2>4 DEF WriteDisabled, Kept, Accounts
  <2>5. CASE WriteInvitation(b)
    <3> DEFINE w == Target(b)
               row == Invited(account[w], req[b].role, issued'.invites)
    <3>1. w \in Users /\ account[w] \in Accounts /\ req[b].role \in Roles /\ issued'.invites \in Nat
      BY <2>5 DEF WriteInvitation, At, TInv, TypeOK, Named, Names, AdminOps, Target, Requests
    <3>2. /\ account[w].state = "active" => row.state = "active"
          /\ row.sv = account[w].sv /\ row.password = account[w].password
          /\ row.off = account[w].off
      BY <3>1, InvitedRow
    <3>3. /\ account' = [account EXCEPT ![w] = row] /\ revoked' = revoked
          /\ account[w].state = "active" => clobbered'
      BY <2>5 DEF WriteInvitation
    <3> HIDE DEF row
    <3>4. QED
      BY <1>1, <3>2, <3>3 DEF Kept
  <2>6. CASE Withdraw(b)
    BY <1>1, <2>6 DEF Withdraw, NoAccount, Kept, Erased, Accounts
  <2>7. CASE Accept(b)
    <3>1. CASE UNCHANGED account
      BY <2>7, <3>1 DEF Accept, Kept
    <3>2. CASE ~UNCHANGED account
      <4>1. PICK w \in Users :
                /\ account[w].state = "invited"
                /\ account' = [account EXCEPT ![w].state = "active", ![w].password = req[b].invite,
                                              ![w].invite = 0, ![w].fresh = FALSE]
        BY <2>7, <3>2 DEF Accept, Acceptable
      <4> DEFINE row == [account[w] EXCEPT !.state = "active", !.password = req[b].invite,
                                           !.invite = 0, !.fresh = FALSE]
      <4>2. row.state = "active" /\ row.sv = account[w].sv
        BY DEF TInv, TypeOK, Accounts
      <4>3. account' = [account EXCEPT ![w] = row] /\ revoked' = revoked
        BY <2>7, <4>1 DEF Accept
      <4> HIDE DEF row
      <4>4. QED
        BY <1>1, <4>1, <4>2, <4>3 DEF Kept
    <3>3. QED
      BY <3>1, <3>2
  <2>8. CASE Deactivate(b)
    <3> DEFINE w == Target(b)
               row == Deactivated(account[w])
    <3>1. At(b, "deactivate", "write") /\ w \in Users
      BY <2>8 DEF Deactivate, At, TInv, Named, Names, AdminOps, Target
    <3>2. /\ row.state = account[w].state /\ row.sv = account[w].sv + 1
          /\ row.password = account[w].password
      BY <3>1, DeactivatedRow DEF TInv, TypeOK
    <3>3. account' = [account EXCEPT ![w] = row] /\ revoked' = [revoked EXCEPT ![w] = @ + 1]
      BY <2>8 DEF Deactivate
    <3> HIDE DEF row
    <3>4. QED
      BY <1>1, <2>8, <3>1, <3>2, <3>3 DEF Kept, Cut
  <2>9. CASE Reactivate(b)
    BY <1>1, <2>9 DEF Reactivate, Kept, Accounts
  <2>10. CASE Revoke(b)
    BY <1>1, <2>10 DEF Revoke, Kept, Cut, Accounts
  <2>11. QED
    BY <1>4, <2>1, <2>2, <2>3, <2>4, <2>5, <2>6, <2>7, <2>8, <2>9, <2>10 DEF Writes
<1>5. QED
  BY <1>2, <1>3, <1>4, OtherStepsOnlyRead

\* An account that is active stays so, with the password it has: no invitation, neither
\* an old one nor one written over the account, gives it another.
THEOREM InvitationUsedOnce == Spec => ActivatedOnce
<1>1. TInv /\ [Next]_vars => [\A u \in Users : account[u].state = "active" =>
          account'[u].state = "active" /\ account'[u].password = account[u].password]_vars
  BY RowsMove DEF Kept, Erased, Cut
<1>2. QED
  BY <1>1, TypeInvariant, PTL DEF Spec, ActivatedOnce

-----------------------------------------------------------------------------
(* Sessions.                                                                *)

\* A version counts revocations; an account nobody has activated has had none.
VersionOf(u) ==
    /\ account[u].sv = revoked[u]
    /\ account[u].state # "active" => revoked[u] = 0

\* A request about to revoke is about an active account; one that is signing in has
\* read the version its account had.
Sound(b) ==
    /\ At(b, "deactivate", "write") => account[Target(b)].state = "active"
    /\ At(b, "revoke", "write") => account[Self(b)].state = "active"
    /\ req[b].op \in {"login", "accept"} /\ req[b].pc \in {"factor", "done"}
           => Seen(b).sv = req[b].born
    /\ cookie[b] # None => cookie[b].sv = cookie[b].born

Versions == (\A u \in Users : VersionOf(u)) /\ (\A b \in Browsers : Sound(b))

LEMMA VersionsCount ==
    ASSUME TInv, Versions, [Next]_vars, NEW u \in Users
    PROVE  VersionOf(u)'
<1>1. /\ account[u] \in Accounts /\ revoked[u] \in Nat /\ VersionOf(u)
  BY DEF TInv, TypeOK, Versions
<1>2. CASE Kept(u)
  BY <1>1, <1>2 DEF Kept, VersionOf
<1>3. CASE Erased(u)
  BY <1>1, <1>3 DEF Erased, VersionOf
<1>4. CASE Cut(u)
  BY <1>1, <1>4 DEF Cut, Deactivate, Versions, Sound, VersionOf
<1>5. QED
  BY <1>2, <1>3, <1>4, RowsMove

\* A step of another browser leaves a request as sound as it was.
LEMMA OthersStaySound ==
    ASSUME TInv, Versions, [Next]_vars, NEW c \in Browsers,
           req'[c] = req[c], cookie'[c] = cookie[c] \/ cookie'[c] = None
    PROVE  Sound(c)'
<1>1. Names(req[c]) /\ Sound(c)
  BY DEF TInv, Named, Versions
<1>2. ASSUME NEW u \in Users, account[u].state = "active"
      PROVE  account'[u].state = "active"
  BY <1>2, RowsMove DEF Kept, Erased, Cut
<1>3. ASSUME At(c, "deactivate", "write")
      PROVE  account'[Target(c)].state = "active"
  BY <1>1, <1>2, <1>3 DEF Sound, At, Names, AdminOps, Target
<1>4. ASSUME At(c, "revoke", "write")
      PROVE  account'[Self(c)].state = "active"
  BY <1>1, <1>2, <1>4 DEF Sound, At, Names, Tokens, Self
<1>5. QED
  BY <1>1, <1>3, <1>4 DEF Sound, At, Target, Self, Seen

LEMMA VersionsKept ==
    ASSUME TInv, Versions, [Next]_vars
    PROVE  Versions'
<1>1. /\ \A b \in Browsers : req[b] \in Requests /\ Names(req[b])
      /\ req \in [Browsers -> Requests] /\ cookie \in [Browsers -> Tokens \cup {None}]
  BY DEF TInv, TypeOK, Named
<1>2. ASSUME NEW b \in Browsers,
             /\ req' \in [Browsers -> Requests] /\ cookie' \in [Browsers -> Tokens \cup {None}]
             /\ \A c \in Browsers : c # b => req'[c] = req[c] /\ cookie'[c] = cookie[c],
             Sound(b)'
      PROVE  Versions'
  BY <1>2, VersionsCount, OthersStaySound DEF Versions
<1>3. CASE UNCHANGED <<req, cookie>>
  BY <1>3, VersionsCount, OthersStaySound DEF Versions
<1>4. ASSUME NEW b \in Browsers, NEW r \in Requests, req' = [req EXCEPT ![b] = r], cookie' = cookie,
             At(b, "deactivate", "write")' => account'[r.target].state = "active",
             At(b, "revoke", "write")' => account'[r.token.user].state = "active",
             r.op \in {"login", "accept"} /\ r.pc \in {"factor", "done"} => r.seen.sv = r.born
      PROVE  Versions'
  <2>1. /\ req'[b] = r
        /\ req' \in [Browsers -> Requests] /\ cookie' \in [Browsers -> Tokens \cup {None}]
        /\ \A c \in Browsers : c # b => req'[c] = req[c] /\ cookie'[c] = cookie[c]
    BY <1>1, <1>4
  <2>2. Sound(b)
    BY DEF Versions
  <2>3. Sound(b)'
    BY <1>4, <2>1, <2>2 DEF Sound, At, Target, Self, Seen
  <2>4. QED
    BY <1>2, <2>1, <2>3
<1>5. ASSUME NEW b \in Browsers, NEW pc \in Pcs, Goto(b, pc), cookie' = cookie,
             req[b].op = "deactivate" /\ pc = "write" => account'[Target(b)].state = "active",
             req[b].op = "revoke" /\ pc = "write" => account'[Self(b)].state = "active",
             req[b].op \in {"login", "accept"} /\ pc \in {"factor", "done"}
                 => Seen(b).sv = req[b].born
      PROVE  Versions'
  <2> DEFINE r == [req[b] EXCEPT !.pc = pc]
  <2>1. /\ r \in Requests /\ r.pc = pc
        /\ r.op = req[b].op /\ r.target = req[b].target /\ r.token = req[b].token
        /\ r.seen = req[b].seen /\ r.born = req[b].born
    BY <1>1 DEF Requests
  <2>2. req' = [req EXCEPT ![b] = r]
    BY <1>5 DEF Goto
  <2>3. req'[b] = r
    BY <1>1, <2>2
  <2> HIDE DEF r
  <2>4. QED
    BY <1>4, <1>5, <2>1, <2>2, <2>3 DEF At, Target, Self, Seen
<1>6. ASSUME NEW b \in Browsers, Form(b)
      PROVE  Versions'
  <2>1. PICK r \in Requests : Sent(r) /\ Sends(b, r)
    BY <1>6, FormsSend
  <2>2. req' = [req EXCEPT ![b] = r] /\ req'[b] = r /\ cookie' = cookie
    BY <1>1, <2>1 DEF Sends
  <2>3. QED
    BY <1>4, <2>1, <2>2 DEF Sent, At
<1>7. ASSUME NEW b \in Browsers, Authorise(b)
      PROVE  Versions'
  <2>1. /\ account' = account /\ cookie' = cookie
        /\ \/ Goto(b, "failed")
           \/ /\ Goto(b, FirstStep(b)) /\ account[Self(b)].state = "active"
              /\ FirstStep(b) \in {"read", "write", "check", "failed", "lock"}
              /\ req[b].op = "deactivate" => FirstStep(b) # "write"
    BY <1>7 DEF Authorise, Live, Usable, Self, FirstStep
  <2>2. QED
    BY <1>5, <2>1 DEF Pcs, Answers
<1>8. ASSUME NEW b \in Browsers, ReadSignIn(b)
      PROVE  Versions'
  <2>1. CASE Goto(b, "failed")
    BY <1>5, <1>8, <2>1 DEF ReadSignIn, At, Pcs, Answers
  <2>2. CASE ~Goto(b, "failed")
    <3> DEFINE u == Target(b)
               r == [req[b] EXCEPT !.seen = account[u], !.born = revoked[u],
                                   !.pc = IF account[u].enabled THEN "factor" ELSE "done"]
    <3>1. req' = [req EXCEPT ![b] = r] /\ cookie' = cookie /\ req[b].op = "login"
      BY <1>8, <2>2 DEF ReadSignIn, At
    <3>2. u \in Users /\ account[u] \in Accounts /\ revoked[u] \in Nat /\ account[u].sv = revoked[u]
      BY <1>1, <3>1 DEF TInv, TypeOK, Target, Names, Versions, VersionOf
    <3>3. r \in Requests /\ r.op = "login" /\ r.seen.sv = r.born
      BY <1>1, <3>1, <3>2 DEF Requests, Pcs, Answers
    <3>4. req'[b].op = "login"
      BY <1>1, <3>1, <3>3
    <3>5. QED
      BY <1>4, <3>1, <3>3, <3>4 DEF At
  <2>3. QED
    BY <2>1, <2>2
<1>9. ASSUME NEW b \in Browsers, CheckSignIn(b) \/ CheckDisable(b)
      PROVE  Versions'
  <2>1. /\ \E pc \in {"needs", "failed", "done", "write"} : Goto(b, pc)
        /\ req[b].op \in {"login", "disable"} /\ req[b].pc = "factor" /\ cookie' = cookie
    BY <1>9 DEF CheckSignIn, CheckDisable, SecondFactor
  <2>2. QED
    BY <1>5, <2>1 DEF Versions, Sound, Pcs, Answers
<1>10. ASSUME NEW b \in Browsers, ReadFactor(b) \/ ReadStatus(b)
       PROVE  Versions'
  <2>1. /\ req[b].op \in {"status", "enrol", "confirm", "disable"} /\ cookie' = cookie
        /\ Self(b) \in Users /\ account[Self(b)] \in Accounts
    BY <1>1, <1>10 DEF ReadFactor, ReadStatus, At, TInv, TypeOK, Names, Self, Tokens
  <2>2. PICK pc \in {"failed", "write", "factor", "done"} :
            req' = [req EXCEPT ![b] = [@ EXCEPT !.seen = account[Self(b)], !.pc = pc]]
    BY <1>10 DEF ReadFactor, ReadStatus
  <2> DEFINE r == [req[b] EXCEPT !.seen = account[Self(b)], !.pc = pc]
  <2>3. r \in Requests /\ r.op = req[b].op
    BY <1>1, <2>1 DEF Requests, Pcs, Answers
  <2>4. req' = [req EXCEPT ![b] = r] /\ req'[b] = r
    BY <1>1, <2>2
  <2>5. QED
    BY <1>4, <2>1, <2>3, <2>4 DEF At
<1>11. ASSUME NEW b \in Browsers, WriteSecret(b)
       PROVE  Versions'
  <2> DEFINE n == issued'.secrets
             r == [req[b] EXCEPT !.pc = "done", !.code.n = n]
  <2>1. n \in Nat /\ req[b].op = "enrol" /\ cookie' = cookie
        /\ req' = [req EXCEPT ![b].pc = "done", ![b].code.n = n]
    BY <1>11 DEF WriteSecret, At, TInv, TypeOK
  <2> HIDE DEF n
  <2>2. r \in Requests /\ r.op = "enrol"
    <3>1. req[b] \in Requests
      BY <1>1
    <3>2. QED
      BY <2>1, <3>1 DEF Requests, Pcs, Answers, SecondFactors
  <2>3. req' = [req EXCEPT ![b] = r]
    BY <2>1
  <2>4. req'[b] = r
    BY <1>1, <2>3
  <2>5. QED
    BY <1>4, <2>1, <2>2, <2>3, <2>4 DEF At
<1>12. ASSUME NEW b \in Browsers,
              WriteEnabled(b) \/ WriteDisabled(b) \/ ReadInvited(b) \/ WriteInvitation(b)
              \/ Withdraw(b) \/ Reactivate(b)
       PROVE  Versions'
  <2>1. /\ req[b].op \in {"confirm", "disable", "invite", "withdraw", "reactivate"}
        /\ cookie' = cookie
        /\ \E pc \in {"failed", "write", "done"} : Goto(b, pc)
    BY <1>12 DEF WriteEnabled, WriteDisabled, ReadInvited, WriteInvitation, Withdraw, Reactivate, At
  <2>2. QED
    BY <1>5, <2>1 DEF Pcs, Answers
<1>13. ASSUME NEW b \in Browsers, TakeLock(b) \/ CountAdmins(b) \/ Deactivate(b) \/ Revoke(b)
       PROVE  Versions'
  <2>1. /\ req[b].op \in {"deactivate", "revoke"} /\ cookie' = cookie
        /\ \/ \E pc \in {"failed", "count", "done"} : Goto(b, pc)
           \/ /\ Goto(b, "write") /\ req[b].op = "deactivate"
              /\ account' = account /\ account[Target(b)].state = "active"
    BY <1>13 DEF TakeLock, CountAdmins, Deactivate, Revoke, At, Usable
  <2>2. QED
    BY <1>5, <2>1 DEF Pcs, Answers
<1>14. ASSUME NEW b \in Browsers, Accept(b)
       PROVE  Versions'
  <2>1. cookie' = cookie /\ req[b].op = "accept"
    BY <1>14 DEF Accept, At
  <2>2. CASE Goto(b, "failed")
    BY <1>5, <2>1, <2>2 DEF Pcs, Answers
  <2>3. CASE ~Goto(b, "failed")
    <3>1. PICK u \in Users :
            /\ account[u].state = "invited"
            /\ req' = [req EXCEPT ![b].target = u, ![b].pc = "done",
                                  ![b].seen = [NoAccount EXCEPT !.role = account[u].role],
                                  ![b].born = revoked[u]]
      BY <1>14, <2>3 DEF Accept, Acceptable
    <3>2. account[u] \in Accounts /\ revoked[u] = 0
      BY <3>1 DEF TInv, TypeOK, Versions, VersionOf
    <3> DEFINE seen == [NoAccount EXCEPT !.role = account[u].role]
               r == [req[b] EXCEPT !.target = u, !.pc = "done", !.seen = seen,
                                   !.born = revoked[u]]
    <3>3. seen \in Accounts /\ seen.sv = 0
      <4>1. NoAccount \in Accounts /\ NoAccount.sv = 0
        BY ConstantsTyped DEF NoAccount
      <4>2. QED
        BY <3>2, <4>1 DEF Accounts
    <3>4. req' = [req EXCEPT ![b] = r]
      BY <3>1
    <3> HIDE DEF seen
    <3>5. r \in Requests /\ r.op = "accept" /\ r.seen.sv = r.born
      <4>1. req[b] \in Requests /\ 0 \in Nat
        BY <1>1
      <4>2. QED
        BY <2>1, <3>2, <3>3, <4>1 DEF Requests, Pcs, Answers
    <3>6. req'[b] = r
      BY <1>1, <3>4
    <3>7. QED
      BY <1>4, <2>1, <3>4, <3>5, <3>6 DEF At
  <2>4. QED
    BY <2>2, <2>3
<1>15. ASSUME NEW b \in Browsers, Answered(b)
       PROVE  Versions'
  <2>1. /\ \E r \in {Idle, [Idle EXCEPT !.pc = "busy"]} : req' = [req EXCEPT ![b] = r]
        /\ cookie' = [cookie EXCEPT ![b] =
               IF req[b].pc = "done" /\ req[b].op \in {"login", "accept"} THEN Token(b) ELSE @]
    BY <1>15 DEF Answered
  <2>2. req'[b].op = "none"
    BY <1>1, <2>1 DEF Idle
  <2>3. cookie'[b] # None => cookie'[b].sv = cookie'[b].born
    <3>1. Sound(b)
      BY DEF Versions
    <3>2. CASE req[b].pc = "done" /\ req[b].op \in {"login", "accept"}
      <4>1. cookie'[b] = Token(b)
        BY <1>1, <2>1, <3>2
      <4>2. Token(b).sv = Seen(b).sv /\ Token(b).born = req[b].born
        BY DEF Token
      <4>3. QED
        BY <3>1, <3>2, <4>1, <4>2 DEF Sound
    <3>3. CASE ~(req[b].pc = "done" /\ req[b].op \in {"login", "accept"})
      BY <1>1, <2>1, <3>1, <3>3 DEF Sound
    <3>4. QED
      BY <3>2, <3>3
  <2>4. Sound(b)'
    BY <2>2, <2>3 DEF Sound, At
  <2>5. TypeOK'
    BY NextTyped DEF TInv
  <2>6. \A c \in Browsers : c # b => req'[c] = req[c] /\ cookie'[c] = cookie[c]
    BY <1>1, <2>1
  <2>7. QED
    BY <1>2, <2>4, <2>5, <2>6 DEF TypeOK
<1>16. ASSUME NEW b \in Browsers, Lost(b) \/ Reload(b)
       PROVE  Versions'
  <2>1. PICK r \in {Idle, [Idle EXCEPT !.pc = "busy"]} :
            req' = [req EXCEPT ![b] = r] /\ cookie' = cookie
    BY <1>16 DEF Lost, Reload
  <2>2. r \in Requests /\ r.op = "none" /\ req'[b] = r
    BY <1>1, <2>1, ConstantsTyped DEF Idle, Requests, Pcs
  <2>3. QED
    BY <1>4, <2>1, <2>2 DEF At
<1>17. ASSUME NEW b \in Browsers, SignOut(b)
       PROVE  Versions'
  <2>1. \A c \in Browsers : req'[c] = req[c] /\ (cookie'[c] = cookie[c] \/ cookie'[c] = None)
    BY <1>1, <1>17 DEF SignOut
  <2>2. QED
    BY <2>1, VersionsCount, OthersStaySound DEF Versions
<1>18. ASSUME NEW u \in Users, InvitationExpires(u)
       PROVE  Versions'
  BY <1>3, <1>18 DEF InvitationExpires
<1>19. QED
  BY <1>3, <1>6, <1>7, <1>8, <1>9, <1>10, <1>11, <1>12, <1>13, <1>14, <1>15, <1>16, <1>17, <1>18
     DEF Next, Handler, vars

LEMMA VersionsInit == Init => Versions
<1> SUFFICES ASSUME Init PROVE Versions
  OBVIOUS
<1>1. \A u \in Users : account[u].sv = 0 /\ revoked[u] = 0
  BY DEF Init, NoAccount
<1>2. \A b \in Browsers : cookie[b] = None /\ req[b].op = "none"
  BY DEF Init, Idle
<1>3. QED
  BY <1>1, <1>2 DEF Versions, VersionOf, Sound, At

\* A session is honoured only while its account's sessions have not been revoked since
\* the sign-in that made it read the account.
THEOREM RevokedSessionsRefused == Spec => []NoStaleSession
<1>1. TInv /\ Versions => NoStaleSession
  BY DEF TInv, TypeOK, Versions, VersionOf, Sound, NoStaleSession, Live, Tokens
<1>2. Init => TInv /\ Versions
  BY InitTyped, VersionsInit
<1>3. TInv /\ Versions /\ [Next]_vars => (TInv /\ Versions)'
  BY NextTyped, VersionsKept
<1>4. QED
  BY <1>1, <1>2, <1>3, PTL DEF Spec

-----------------------------------------------------------------------------
(* Recovery codes.                                                          *)

\* A list belongs to one account, and is gone from it once it has been used.
Listed ==
    /\ \A u \in Users : account[u].codes \subseteq DOMAIN spent
    /\ \A u, v \in Users : u # v => account[u].codes \cap account[v].codes = {}
    /\ \A u \in Users : \A n \in account[u].codes : spent[n] = 0
    /\ CodeSpentOnce

CodesKept == spent' = spent /\ \A u \in Users : account'[u].codes \subseteq account[u].codes

CodeUsed(u, n) ==
    /\ n \in account[u].codes /\ spent' = [spent EXCEPT ![n] = @ + 1]
    /\ account'[u].codes = account[u].codes \ {n}
    /\ \A v \in Users : v # u => account'[v].codes = account[v].codes

CodesMade(u) ==
    /\ spent' = Append(spent, 0) /\ account'[u].codes = {Len(spent) + 1}
    /\ \A v \in Users : v # u => account'[v].codes = account[v].codes

LEMMA CodesMove ==
    ASSUME TInv, [Next]_vars
    PROVE  \/ CodesKept
           \/ \E u \in Users : CodesMade(u) \/ \E n : CodeUsed(u, n)
<1>1. /\ account \in [Users -> Accounts] /\ \A u \in Users : account[u] \in Accounts
      /\ \A b \in Browsers : req[b] \in Requests /\ Names(req[b])
  BY DEF TInv, TypeOK, Named
<1>2. CASE UNCHANGED <<account, revoked, spent, clobbered>>
  BY <1>2 DEF CodesKept
<1>3. ASSUME NEW w \in Users, NEW row,
             row.codes \subseteq account[w].codes,
             account' = [account EXCEPT ![w] = row], spent' = spent
      PROVE  CodesKept
  BY <1>1, <1>3 DEF CodesKept
<1>4. ASSUME NEW v \in Users, InvitationExpires(v)
      PROVE  CodesKept
  <2> DEFINE row == [account[v] EXCEPT !.fresh = FALSE]
  <2>1. row.codes = account[v].codes
    BY <1>1 DEF Accounts
  <2>2. account' = [account EXCEPT ![v] = row] /\ spent' = spent
    BY <1>4 DEF InvitationExpires
  <2> HIDE DEF row
  <2>3. QED
    BY <1>3, <2>1, <2>2
<1>5. ASSUME NEW b \in Browsers, Writes(b)
      PROVE  \/ CodesKept
             \/ \E u \in Users : CodesMade(u) \/ \E n : CodeUsed(u, n)
  <2>1. ASSUME NEW w \in Users, NEW next, SecondFactor(b, w, next)
        PROVE  CodesKept \/ \E n : CodeUsed(w, n)
    <3> DEFINE c == req[b].code
               later == [account[w] EXCEPT !.last = IF @ < c.step THEN c.step ELSE @]
               fewer == [account[w] EXCEPT !.codes = @ \ {c.n}]
    <3>1. later.codes = account[w].codes /\ fewer.codes = account[w].codes \ {c.n}
      BY <1>1 DEF Accounts
    <3>2. \/ UNCHANGED <<account, spent>>
          \/ account' = [account EXCEPT ![w] = later] /\ spent' = spent
          \/ /\ c.n \in account[w].codes
             /\ account' = [account EXCEPT ![w] = fewer]
             /\ spent' = [spent EXCEPT ![c.n] = @ + 1]
      BY <2>1 DEF SecondFactor, Unspent
    <3> HIDE DEF c, later, fewer
    <3>3. QED
      BY <1>1, <1>3, <3>1, <3>2 DEF CodesKept, CodeUsed
  <2>2. CASE CheckSignIn(b) \/ CheckDisable(b)
    BY <1>1, <2>1, <2>2 DEF CheckSignIn, CheckDisable, Names, AdminOps, Target, Self, Tokens
  <2>3. CASE WriteSecret(b)
    <3> DEFINE w == Self(b)
               n == issued'.secrets
               row == [account[w] EXCEPT !.secret = n, !.last = 0]
    <3>1. w \in Users
      BY <1>1, <2>3 DEF WriteSecret, At, Names, Self, Tokens
    <3>2. row.codes = account[w].codes
      BY <1>1, <3>1 DEF Accounts
    <3>5. account' = [account EXCEPT ![w].secret = n, ![w].last = 0] /\ spent' = spent
      BY <2>3 DEF WriteSecret
    <3> HIDE DEF n
    <3>3. account' = [account EXCEPT ![w] = row] /\ spent' = spent
      BY <3>5
    <3> HIDE DEF row
    <3>4. QED
      BY <1>3, <3>1, <3>2, <3>3
  <2>4. CASE WriteEnabled(b)
    <3> DEFINE w == Self(b)
               row == [account[w] EXCEPT !.enabled = TRUE, !.codes = {Len(spent) + 1},
                                         !.last = req[b].code.step]
    <3>1. w \in Users
      BY <1>1, <2>4 DEF WriteEnabled, At, Names, Self, Tokens
    <3>2. row.codes = {Len(spent) + 1}
      BY <1>1, <3>1 DEF Accounts
    <3>3. \/ UNCHANGED <<account, spent>>
          \/ account' = [account EXCEPT ![w] = row] /\ spent' = Append(spent, 0)
      BY <2>4 DEF WriteEnabled
    <3> HIDE DEF row
    <3>4. QED
      BY <1>1, <3>1, <3>2, <3>3 DEF CodesKept, CodesMade
  <2>5. CASE WriteDisabled(b)
    <3> DEFINE w == Self(b)
               row == [account[w] EXCEPT !.secret = 0, !.enabled = FALSE, !.last = 0, !.codes = {}]
    <3>1. w \in Users
      BY <1>1, <2>5 DEF WriteDisabled, At, Names, Self, Tokens
    <3>2. row.codes = {}
      BY <1>1, <3>1 DEF Accounts
    <3>3. account' = [account EXCEPT ![w] = row] /\ spent' = spent
      BY <2>5 DEF WriteDisabled
    <3> HIDE DEF row
    <3>4. QED
      BY <1>3, <3>1, <3>2, <3>3
  <2>6. CASE WriteInvitation(b)
    <3> DEFINE w == Target(b)
               row == Invited(account[w], req[b].role, issued'.invites)
    <3>1. w \in Users /\ req[b].role \in Roles /\ issued'.invites \in Nat
      BY <1>1, <2>6 DEF WriteInvitation, At, TInv, TypeOK, Names, AdminOps, Target, Requests
    <3>2. row.codes = account[w].codes
      BY <1>1, <3>1, InvitedRow
    <3>3. account' = [account EXCEPT ![w] = row] /\ spent' = spent
      BY <2>6 DEF WriteInvitation
    <3> HIDE DEF row
    <3>4. QED
      BY <1>3, <3>1, <3>2, <3>3
  <2>7. CASE Withdraw(b)
    <3>1. Target(b) \in Users /\ NoAccount.codes = {}
      BY <1>1, <2>7 DEF Withdraw, At, Names, AdminOps, Target, NoAccount
    <3>2. QED
      BY <1>3, <2>7, <3>1 DEF Withdraw, CodesKept
  <2>8. CASE Accept(b)
    <3>1. CASE UNCHANGED account
      BY <2>8, <3>1 DEF Accept, CodesKept
    <3>2. CASE ~UNCHANGED account
      <4>1. PICK w \in Users :
                account' = [account EXCEPT ![w].state = "active", ![w].password = req[b].invite,
                                           ![w].invite = 0, ![w].fresh = FALSE]
        BY <2>8, <3>2 DEF Accept
      <4> DEFINE row == [account[w] EXCEPT !.state = "active", !.password = req[b].invite,
                                           !.invite = 0, !.fresh = FALSE]
      <4>2. row.codes = account[w].codes
        BY <1>1 DEF Accounts
      <4>3. account' = [account EXCEPT ![w] = row] /\ spent' = spent
        BY <2>8, <4>1 DEF Accept
      <4> HIDE DEF row
      <4>4. QED
        BY <1>3, <4>2, <4>3
    <3>3. QED
      BY <3>1, <3>2
  <2>9. CASE Deactivate(b)
    <3>1. Target(b) \in Users
      BY <1>1, <2>9 DEF Deactivate, At, Names, AdminOps, Target
    <3>2. Deactivated(account[Target(b)]).codes = account[Target(b)].codes
      BY <1>1, <3>1, DeactivatedRow
    <3>3. account' = [account EXCEPT ![Target(b)] = Deactivated(account[Target(b)])] /\ spent' = spent
      BY <2>9 DEF Deactivate
    <3>4. QED
      BY <1>3, <3>1, <3>2, <3>3
  <2>10. CASE Reactivate(b)
    <3> DEFINE w == Target(b)
               row == [account[w] EXCEPT !.off = FALSE]
    <3>1. w \in Users
      BY <1>1, <2>10 DEF Reactivate, At, Names, AdminOps, Target
    <3>2. row.codes = account[w].codes
      BY <1>1, <3>1 DEF Accounts
    <3>3. (account' = account \/ account' = [account EXCEPT ![w] = row]) /\ spent' = spent
      BY <2>10 DEF Reactivate
    <3> HIDE DEF row
    <3>4. QED
      BY <1>3, <3>1, <3>2, <3>3 DEF CodesKept
  <2>11. CASE Revoke(b)
    <3> DEFINE w == Self(b)
               n == account[w].sv + 1
               row == [account[w] EXCEPT !.sv = n]
    <3>1. w \in Users
      BY <1>1, <2>11 DEF Revoke, At, Names, AdminOps, Self, Tokens
    <3>2. row.codes = account[w].codes
      BY <1>1, <3>1 DEF Accounts
    <3>3. account' = [account EXCEPT ![w] = row] /\ spent' = spent
      BY <2>11 DEF Revoke
    <3> HIDE DEF row
    <3>4. QED
      BY <1>3, <3>1, <3>2, <3>3
  <2>12. QED
    BY <1>5, <2>2, <2>3, <2>4, <2>5, <2>6, <2>7, <2>8, <2>9, <2>10, <2>11 DEF Writes
<1>6. QED
  BY <1>2, <1>4, <1>5, OtherStepsOnlyRead

LEMMA ListedKept ==
    ASSUME TInv, Listed, [Next]_vars
    PROVE  Listed'
<1>1. spent \in Seq(Nat) /\ \A n \in DOMAIN spent : spent[n] \in Nat
  BY DEF TInv, TypeOK
<1>2. CASE CodesKept
  BY <1>2 DEF CodesKept, Listed, CodeSpentOnce
<1>3. ASSUME NEW u \in Users, NEW n, CodeUsed(u, n)
      PROVE  Listed'
  <2>1. /\ n \in DOMAIN spent /\ spent[n] = 0 /\ DOMAIN spent' = DOMAIN spent /\ spent'[n] = 1
        /\ \A m \in DOMAIN spent : m # n => spent'[m] = spent[m]
    BY <1>1, <1>3 DEF CodeUsed, Listed
  <2>2. \A v \in Users : account'[v].codes \subseteq account[v].codes \ {n}
    BY <1>3 DEF CodeUsed, Listed
  <2>3. QED
    BY <2>1, <2>2 DEF Listed, CodeSpentOnce
<1>4. ASSUME NEW u \in Users, CodesMade(u)
      PROVE  Listed'
  <2> DEFINE new == Len(spent) + 1
  <2>1. /\ DOMAIN spent' = DOMAIN spent \cup {new} /\ new \notin DOMAIN spent /\ spent'[new] = 0
        /\ \A m \in DOMAIN spent : spent'[m] = spent[m]
    BY <1>1, <1>4 DEF CodesMade
  <2>2. account'[u].codes = {new} /\ \A v \in Users : v # u => account'[v].codes = account[v].codes
    BY <1>4 DEF CodesMade
  <2> HIDE DEF new
  <2>3. QED
    BY <2>1, <2>2 DEF Listed, CodeSpentOnce
<1>5. QED
  BY <1>2, <1>3, <1>4, CodesMove

\* A recovery code lets somebody in once, however many requests carry it at a time.
THEOREM RecoveryCodeSpentOnce == Spec => []CodeSpentOnce
<1>1. Init => TInv /\ Listed
  BY InitTyped DEF Init, Listed, CodeSpentOnce, NoAccount
<1>2. TInv /\ Listed /\ [Next]_vars => (TInv /\ Listed)'
  BY NextTyped, ListedKept
<1>3. Listed => CodeSpentOnce
  BY DEF Listed
<1>4. QED
  BY <1>1, <1>2, <1>3, PTL DEF Spec

-----------------------------------------------------------------------------
(* The last admin.                                                          *)

\* A deactivation that has counted the admins is about an account in use, and an admin
\* it would leave is still one - unless an invitation was written over an account.
Guarded(b) ==
    At(b, "deactivate", "write") =>
        /\ Usable(Target(b))
        /\ clobbered \/ \E v \in Admins : v # Target(b)

AdminsGuarded == SomeAdminLeft /\ \A b \in Browsers : Guarded(b)

LEMMA UsableKept ==
    ASSUME TInv, [Next]_vars, NEW u \in Users, Usable(u),
           ~ \E b \in Browsers : Deactivate(b) /\ u = Target(b)
    PROVE  Usable(u)' /\ (clobbered' \/ account'[u].role = account[u].role)
BY RowsMove DEF Kept, Erased, Cut, Usable

LEMMA ClobberedStays == ASSUME [Next]_vars, clobbered PROVE clobbered'
<1>1. ASSUME NEW b \in Browsers, Writes(b)
      PROVE  clobbered'
  BY <1>1 DEF Writes, CheckSignIn, CheckDisable, SecondFactor, WriteSecret, WriteEnabled,
              WriteDisabled, WriteInvitation, Withdraw, Accept, Deactivate, Reactivate, Revoke
<1>2. QED
  BY <1>1, OtherStepsOnlyRead DEF InvitationExpires

\* Only the deactivation that holds the lock takes an admin away.
LEMMA AdminsStay ==
    ASSUME TInv, [Next]_vars, NEW v \in Admins,
           ~ \E b \in Browsers : Deactivate(b) /\ v = Target(b)
    PROVE  clobbered' \/ v \in Admins'
BY UsableKept DEF Admins, Usable

\* Nothing but the count of the admins brings a deactivation to its update.
LEMMA CountedFirst ==
    ASSUME TInv, [Next]_vars, NEW c \in Browsers, At(c, "deactivate", "write")'
    PROVE  req'[c] = req[c] \/ CountAdmins(c)
<1>1. /\ \A b \in Browsers : req[b] \in Requests /\ Names(req[b])
      /\ req \in [Browsers -> Requests]
  BY DEF TInv, TypeOK, Named
<1>2. ASSUME NEW b \in Browsers, NEW r, req' = [req EXCEPT ![b] = r],
             r.op # "deactivate" \/ r.pc # "write"
      PROVE  req'[c] = req[c]
  BY <1>1, <1>2 DEF At
<1>3. ASSUME NEW b \in Browsers, NEW pc \in Pcs, Goto(b, pc),
             req[b].op # "deactivate" \/ pc # "write"
      PROVE  req'[c] = req[c]
  <2> DEFINE r == [req[b] EXCEPT !.pc = pc]
  <2>1. r.op = req[b].op /\ r.pc = pc /\ req' = [req EXCEPT ![b] = r]
    BY <1>1, <1>3 DEF Goto, Requests
  <2> HIDE DEF r
  <2>2. QED
    BY <1>2, <1>3, <2>1
<1>4. ASSUME NEW b \in Browsers, NEW r, req' = [req EXCEPT ![b] = r],
             r.op = req[b].op, req[b].op # "deactivate"
      PROVE  req'[c] = req[c]
  BY <1>2, <1>4
<1>5. ASSUME NEW b \in Browsers, Form(b)
      PROVE  req'[c] = req[c]
  <2>1. PICK r \in Requests : Sent(r) /\ Sends(b, r)
    BY <1>5, FormsSend
  <2>2. QED
    BY <1>2, <2>1 DEF Sent, Sends
<1>6. ASSUME NEW b \in Browsers, Authorise(b)
      PROVE  req'[c] = req[c]
  <2>1. \E pc \in {"read", "write", "check", "failed", "lock"} :
            Goto(b, pc) /\ (req[b].op = "deactivate" => pc \in {"failed", "lock"})
    BY <1>6 DEF Authorise, FirstStep
  <2>2. QED
    BY <1>3, <2>1 DEF Pcs, Answers
<1>7. ASSUME NEW b \in Browsers, ReadSignIn(b)
      PROVE  req'[c] = req[c]
  <2>1. CASE Goto(b, "failed")
    BY <1>3, <2>1 DEF Pcs, Answers
  <2>2. CASE ~Goto(b, "failed")
    <3> DEFINE u == Target(b)
               r == [req[b] EXCEPT !.seen = account[u], !.born = revoked[u],
                                   !.pc = IF account[u].enabled THEN "factor" ELSE "done"]
    <3>1. req' = [req EXCEPT ![b] = r] /\ req[b].op = "login"
      BY <1>7, <2>2 DEF ReadSignIn, At
    <3>2. r.op = req[b].op
      BY <1>1 DEF Requests
    <3> HIDE DEF r
    <3>3. QED
      BY <1>4, <3>1, <3>2
  <2>3. QED
    BY <2>1, <2>2
<1>8. ASSUME NEW b \in Browsers, CheckSignIn(b) \/ CheckDisable(b)
      PROVE  req'[c] = req[c]
  <2>1. \E pc \in {"needs", "failed", "done", "write"} :
            Goto(b, pc) /\ req[b].op # "deactivate"
    BY <1>8 DEF CheckSignIn, CheckDisable, SecondFactor
  <2>2. QED
    BY <1>3, <2>1 DEF Pcs, Answers
<1>9. ASSUME NEW b \in Browsers, ReadFactor(b) \/ ReadStatus(b)
      PROVE  req'[c] = req[c]
  <2>1. PICK pc :
            req' = [req EXCEPT ![b] = [@ EXCEPT !.seen = account[Self(b)], !.pc = pc]]
    BY <1>9 DEF ReadFactor, ReadStatus
  <2> DEFINE r == [req[b] EXCEPT !.seen = account[Self(b)], !.pc = pc]
  <2>2. r.op = req[b].op /\ req' = [req EXCEPT ![b] = r]
    BY <1>1, <2>1 DEF Requests
  <2>3. req[b].op # "deactivate"
    BY <1>9 DEF ReadFactor, ReadStatus, At
  <2> HIDE DEF r
  <2>4. QED
    BY <1>4, <2>2, <2>3
<1>10. ASSUME NEW b \in Browsers, WriteSecret(b)
       PROVE  req'[c] = req[c]
  <2> DEFINE n == issued'.secrets
             r == [req[b] EXCEPT !.pc = "done", !.code.n = n]
  <2>1. req[b].op = "enrol" /\ req' = [req EXCEPT ![b].pc = "done", ![b].code.n = n]
    BY <1>10 DEF WriteSecret, At
  <2> HIDE DEF n
  <2>2. r.op = req[b].op /\ req' = [req EXCEPT ![b] = r]
    BY <1>1, <2>1 DEF Requests
  <2> HIDE DEF r
  <2>3. QED
    BY <1>4, <2>1, <2>2
<1>11. ASSUME NEW b \in Browsers,
              WriteEnabled(b) \/ WriteDisabled(b) \/ ReadInvited(b) \/ WriteInvitation(b)
              \/ Withdraw(b) \/ Reactivate(b) \/ Revoke(b)
       PROVE  req'[c] = req[c]
  <2>1. \E pc \in {"failed", "write", "done"} : Goto(b, pc) /\ req[b].op # "deactivate"
    BY <1>11 DEF WriteEnabled, WriteDisabled, ReadInvited, WriteInvitation, Withdraw,
                 Reactivate, Revoke, At
  <2>2. QED
    BY <1>3, <2>1 DEF Pcs, Answers
<1>12. ASSUME NEW b \in Browsers, Accept(b)
       PROVE  req'[c] = req[c]
  <2>1. CASE Goto(b, "failed")
    BY <1>3, <2>1 DEF Pcs, Answers
  <2>2. CASE ~Goto(b, "failed")
    <3>1. PICK u \in Users :
            req' = [req EXCEPT ![b].target = u, ![b].pc = "done",
                               ![b].seen = [NoAccount EXCEPT !.role = account[u].role],
                               ![b].born = revoked[u]]
      BY <1>12, <2>2 DEF Accept
    <3> DEFINE seen == [NoAccount EXCEPT !.role = account[u].role]
    <3> HIDE DEF seen
    <3> DEFINE r == [req[b] EXCEPT !.target = u, !.pc = "done", !.seen = seen,
                                   !.born = revoked[u]]
    <3>2. r.op = req[b].op
      BY <1>1 DEF Requests
    <3>3. req' = [req EXCEPT ![b] = r] /\ req[b].op = "accept"
      BY <1>12, <3>1 DEF seen, Accept, At
    <3> HIDE DEF r
    <3>4. QED
      BY <1>4, <3>2, <3>3
  <2>3. QED
    BY <2>1, <2>2
<1>13. ASSUME NEW b \in Browsers, TakeLock(b) \/ Deactivate(b)
       PROVE  req'[c] = req[c]
  <2>1. \E pc \in {"count", "done"} : Goto(b, pc)
    BY <1>13 DEF TakeLock, Deactivate
  <2>2. QED
    BY <1>3, <2>1 DEF Pcs, Answers
<1>14. ASSUME NEW b \in Browsers, CountAdmins(b)
       PROVE  req'[c] = req[c] \/ CountAdmins(c)
  <2>1. CASE b = c
    BY <1>14, <2>1
  <2>2. CASE b # c
    BY <1>1, <1>14, <2>2 DEF CountAdmins, Goto
  <2>3. QED
    BY <2>1, <2>2
<1>15. ASSUME NEW b \in Browsers, Answered(b) \/ Lost(b) \/ Reload(b)
       PROVE  req'[c] = req[c]
  <2>1. \E r \in {Idle, [Idle EXCEPT !.pc = "busy"]} : req' = [req EXCEPT ![b] = r]
    BY <1>15 DEF Answered, Lost, Reload
  <2>2. QED
    BY <1>2, <2>1 DEF Idle
<1>16. QED
  BY <1>5, <1>6, <1>7, <1>8, <1>9, <1>10, <1>11, <1>12, <1>13, <1>14, <1>15
     DEF Next, Handler, vars, SignOut, InvitationExpires

\* Of more than one admin, one is another.
LEMMA AnotherAdmin ==
    ASSUME NEW u, Cardinality(Admins) > 1
    PROVE  \E v \in Admins : v # u
<1>1. CASE Admins = {}
  BY <1>1, FS_EmptySet
<1>2. CASE Admins # {} /\ \A v \in Admins : v = u
  <2>1. Admins = {u}
    BY <1>2
  <2>2. Cardinality({u}) = 1
    BY FS_Singleton
  <2>3. QED
    BY <2>1, <2>2
<1>3. QED
  BY <1>1, <1>2

LEMMA AdminsKept ==
    ASSUME TInv, AdminsGuarded, [Next]_vars
    PROVE  AdminsGuarded'
<1>1. /\ \A b \in Browsers : Names(req[b]) /\ req[b] \in Requests
      /\ req \in [Browsers -> Requests] /\ clobbered \in BOOLEAN
  BY DEF TInv, TypeOK, Named
<1>2. CASE \E b \in Browsers : Deactivate(b)
  <2>1. PICK b \in Browsers : Deactivate(b)
    BY <1>2
  <2>2. At(b, "deactivate", "write") /\ (clobbered \/ \E v \in Admins : v # Target(b))
    BY <2>1 DEF AdminsGuarded, Guarded, Deactivate
  <2>3. lock = b /\ \A c \in Browsers : c # b => ~At(c, "deactivate", "write")
    BY <2>2 DEF TInv, TypeOK, At
  <2>4. SomeAdminLeft'
    BY <2>2, <2>3, AdminsStay, ClobberedStays DEF SomeAdminLeft, Deactivate
  <2>5. /\ req' = [req EXCEPT ![b].pc = "done"]
        /\ \A c \in Browsers : c # b => req'[c] = req[c]
    BY <1>1, <2>1 DEF Deactivate, Goto
  <2>6. req'[b].pc = "done"
    BY <1>1, <2>5 DEF Requests
  <2>7. ASSUME NEW c \in Browsers
        PROVE  Guarded(c)'
    BY <2>3, <2>5, <2>6 DEF Guarded, At
  <2>8. QED
    BY <2>4, <2>7 DEF AdminsGuarded
<1>3. CASE ~ \E b \in Browsers : Deactivate(b)
  <2>1. SomeAdminLeft'
    BY <1>3, AdminsStay, ClobberedStays DEF AdminsGuarded, SomeAdminLeft
  <2>2. ASSUME NEW c \in Browsers, Guarded(c), req'[c] = req[c]
        PROVE  Guarded(c)'
    <3>1. SUFFICES ASSUME At(c, "deactivate", "write")
                   PROVE  /\ Usable(Target(c))'
                          /\ clobbered' \/ \E v \in Admins' : v # Target(c)
      BY <2>2 DEF Guarded, At, Target
    <3>2. Target(c) \in Users
      BY <1>1, <3>1 DEF At, Target, Names, AdminOps
    <3>3. Usable(Target(c)) /\ (clobbered \/ \E v \in Admins : v # Target(c))
      BY <2>2, <3>1 DEF Guarded
    <3>4. /\ account'[Target(c)].state = "active" /\ ~account'[Target(c)].off
      BY <1>3, <3>2, <3>3, UsableKept DEF Usable
    <3>5. Usable(Target(c))'
      BY <2>2, <3>4 DEF Usable, Target
    <3>6. clobbered' \/ \E v \in Admins' : v # Target(c)
      BY <1>3, <3>3, AdminsStay, ClobberedStays
    <3>7. QED
      BY <3>5, <3>6
  <2>3. ASSUME NEW c \in Browsers, CountAdmins(c)
        PROVE  Guarded(c)'
    <3> DEFINE u == Target(c)
    <3>1. /\ account' = account /\ clobbered' = clobbered /\ Admins' = Admins
      BY <2>3 DEF CountAdmins, Admins, Usable
    <3>2. Target(c)' = u
      BY <1>1, <2>3 DEF CountAdmins, Goto, Target, Requests
    <3>3. CASE Usable(u) /\ (account[u].role = "admin" => Cardinality(Admins) > 1)
      <4>1. clobbered \/ \E v \in Admins : v # u
        <5>1. CASE account[u].role = "admin"
          BY <3>3, <5>1, AnotherAdmin
        <5>2. CASE account[u].role # "admin"
          BY <5>2 DEF AdminsGuarded, SomeAdminLeft, Admins
        <5>3. QED
          BY <5>1, <5>2
      <4>2. Usable(u)'
        BY <3>1, <3>2, <3>3 DEF Usable
      <4>3. QED
        BY <3>1, <3>2, <3>3, <4>1 DEF Guarded, Usable
    <3>4. CASE ~(Usable(u) /\ (account[u].role = "admin" => Cardinality(Admins) > 1))
      <4>1. Goto(c, "failed")
        BY <2>3, <3>4 DEF CountAdmins
      <4>2. req'[c].pc = "failed"
        BY <1>1, <4>1 DEF Goto, Requests
      <4>3. QED
        BY <4>2 DEF Guarded, At
    <3>5. QED
      BY <3>3, <3>4
  <2>4. ASSUME NEW c \in Browsers
        PROVE  Guarded(c)'
    BY <2>2, <2>3, CountedFirst DEF AdminsGuarded, Guarded
  <2>5. QED
    BY <2>1, <2>4 DEF AdminsGuarded
<1>4. QED
  BY <1>2, <1>3

\* Whatever deactivations run at the same time, an admin in use is left - unless an
\* invitation was written over an active account.
THEOREM LastAdminKept == Spec => []SomeAdminLeft
<1>1. Init => TInv /\ AdminsGuarded
  <2> SUFFICES ASSUME Init PROVE AdminsGuarded
    BY InitTyped
  <2>1. Founder \in Users /\ account[Founder] = [NoAccount EXCEPT !.state = "active", !.role = "admin"]
    BY StaffAssumption DEF StaffAssumption, Init
  <2>2. Founder \in Admins
    BY <2>1 DEF Admins, Usable, NoAccount
  <2>3. \A b \in Browsers : req[b].op = "none"
    BY DEF Init, Idle
  <2>4. QED
    BY <2>2, <2>3 DEF AdminsGuarded, Guarded, SomeAdminLeft, At
<1>2. TInv /\ AdminsGuarded /\ [Next]_vars => (TInv /\ AdminsGuarded)'
  BY NextTyped, AdminsKept
<1>3. AdminsGuarded => SomeAdminLeft
  BY DEF AdminsGuarded
<1>4. QED
  BY <1>1, <1>2, <1>3, PTL DEF Spec
=============================================================================
