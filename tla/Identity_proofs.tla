-------------------------- MODULE Identity_proofs --------------------------
(***************************************************************************)
(* Theorems about Identity for every set of accounts, emails, passwords,   *)
(* roles, tokens and concurrent clients.                                   *)
(***************************************************************************)
EXTENDS Identity, TLAPS

(* A session about to be written has a token of its own, never issued. *)
InsertsOK ==
  \A c \in Clients : At(c, "insert") =>
    /\ call[c].token \in Tokens \ issued
    /\ call[c].account \in Accounts
    /\ call[c].expires \in Times
    /\ \A d \in Clients : At(d, "insert") /\ call[d].token = call[c].token => c = d

(* A call of verify knows an issued token and revocations of the past. *)
LookupsOK ==
  \A c \in Clients : At(c, "lookup") =>
    /\ call[c].token \in issued
    /\ call[c].now \in Times
    /\ call[c].before \subseteq revoked

(* A row lives from its insertion to its revocation. *)
RowsAreIssued ==
  \A t \in Tokens : sessions[t] # None <=> t \in issued \ revoked

CallIsFunction == call = [c \in Clients |-> call[c]]

SessionInv ==
  /\ TypeOK
  /\ CallIsFunction
  /\ InsertsOK
  /\ LookupsOK
  /\ RowsAreIssued
  /\ VerifyIsRight


Places == {"idle", "row", "roles", "verify", "found", "insert", "lookup", "verified"}

LEMMA InitSession == Init => SessionInv
<1> SUFFICES ASSUME Init PROVE SessionInv
  OBVIOUS
<1> USE IdentityAssumption DEF Init, At, Idle
<1>1. TypeOK
  BY DEF TypeOK, Times, Exists
<1>2. CallIsFunction /\ InsertsOK /\ LookupsOK /\ VerifyIsRight
  BY DEF CallIsFunction, InsertsOK, LookupsOK, VerifyIsRight
<1>3. RowsAreIssued
  BY DEF RowsAreIssued
<1> QED BY <1>1, <1>2, <1>3 DEF SessionInv

(* A step of one client that touches no table keeps the invariant if the place
   it goes to satisfies it. *)
LEMMA GotoKeeps ==
  ASSUME SessionInv, NEW c \in Clients, NEW next, Goto(c, next),
         UNCHANGED <<accountVars, sessionVars, clock>>,
         next.at \in Places,
         next.at = "insert" =>
           /\ next.token \in Tokens \ issued
           /\ next.account \in Accounts
           /\ next.expires \in Times
           /\ \A d \in Clients : At(d, "insert") => call[d].token # next.token,
         next.at = "lookup" =>
           /\ next.token \in issued
           /\ next.now \in Times
           /\ next.before \subseteq revoked,
         next.at = "verified" =>
           IF next.accepted
             THEN next.token \in issued \ next.before /\ next.session.expires > next.now
             ELSE next.token \in revoked \/ next.session.expires <= next.now
  PROVE  SessionInv'
<1> USE DEF SessionInv, Goto
<1>1. /\ call' = [d \in Clients |-> IF d = c THEN next ELSE call[d]]
      /\ call'[c] = next
      /\ \A d \in Clients \ {c} : call'[d] = call[d]
  BY DEF CallIsFunction
<1>2. UNCHANGED <<accounts, roles, sellers, outbox, sessions, issued, revoked, clock>>
  BY DEF accountVars, sessionVars
<1>3. TypeOK'
  BY <1>1, <1>2 DEF TypeOK, Exists, Places
<1>4. CallIsFunction'
  BY <1>1 DEF CallIsFunction
<1>5. InsertsOK'
  BY <1>1, <1>2 DEF InsertsOK, At
<1>6. LookupsOK'
  BY <1>1, <1>2 DEF LookupsOK, At
<1>7. RowsAreIssued'
  BY <1>2 DEF RowsAreIssued
<1>8. VerifyIsRight'
  BY <1>1, <1>2 DEF VerifyIsRight, At
<1> QED BY <1>3, <1>4, <1>5, <1>6, <1>7, <1>8

(* A write to the account tables concerns the types alone. *)
LEMMA AccountWriteKeeps ==
  ASSUME SessionInv, UNCHANGED <<sessionVars, clock, call>>, TypeOK'
  PROVE  SessionInv'
BY DEF SessionInv, sessionVars, CallIsFunction, InsertsOK, LookupsOK, RowsAreIssued,
   VerifyIsRight, At

LEMMA AccountStep ==
  ASSUME SessionInv, NEW a \in Accounts,
         \/ \E email \in Emails, password \in Passwords : Register(a, email, password)
         \/ \E role \in Roles : GrantRole(a, role) \/ RevokeRole(a, role)
         \/ RegisterSeller(a)
  PROVE  SessionInv'
<1> USE IdentityAssumption
<1>0. TypeOK
  BY DEF SessionInv
<1>1. ASSUME NEW email \in Emails, NEW password \in Passwords, Register(a, email, password)
      PROVE  TypeOK' /\ UNCHANGED <<sessionVars, clock, call>>
  <2>1. \A b \in Accounts : Exists(b) => Exists(b)'
    BY <1>0, <1>1 DEF Register, Exists, TypeOK
  <2>2. Exists(a)'
    BY <1>0, <1>1 DEF Register, Exists, TypeOK
  <2>3. accounts' \in [Accounts -> [email : Emails, password : Passwords] \cup {None}]
    BY <1>0, <1>1 DEF Register, TypeOK
  <2>4. roles' \subseteq {b \in Accounts : Exists(b)'} \X Roles
    BY <1>0, <1>1, <2>1, <2>2 DEF Register, TypeOK
  <2>5. outbox' \in Seq(Accounts)
    BY <1>0, <1>1 DEF Register, TypeOK
  <2>6. sessions' \in [Tokens -> [account : {b \in Accounts : Exists(b)'}, expires : Times]
                                   \cup {None}]
    BY <1>0, <1>1, <2>1 DEF Register, TypeOK, sessionVars
  <2>7. sellers' \subseteq {b \in Accounts : Exists(b)'}
    BY <1>0, <1>1, <2>1 DEF Register, TypeOK
  <2> QED BY <1>0, <1>1, <2>3, <2>4, <2>5, <2>6, <2>7 DEF Register, TypeOK, sessionVars
<1>2. ASSUME NEW role \in Roles, GrantRole(a, role)
      PROVE  TypeOK' /\ UNCHANGED <<sessionVars, clock, call>>
  BY <1>0, <1>2 DEF GrantRole, TypeOK, Exists, sessionVars
<1>3. ASSUME NEW role \in Roles, RevokeRole(a, role)
      PROVE  TypeOK' /\ UNCHANGED <<sessionVars, clock, call>>
  BY <1>0, <1>3 DEF RevokeRole, TypeOK, Exists, sessionVars
<1>4. ASSUME RegisterSeller(a)
      PROVE  TypeOK' /\ UNCHANGED <<sessionVars, clock, call>>
  BY <1>0, <1>4 DEF RegisterSeller, TypeOK, Exists, sessionVars
<1> QED BY <1>1, <1>2, <1>3, <1>4, AccountWriteKeeps
(* The steps of find_by_id and authenticate, and the return of any call. *)
LEMMA QuestionStep ==
  ASSUME SessionInv, NEW c \in Clients,
         Ask(c) \/ FetchRow(c) \/ FetchRoles(c) \/ VerifyPassword(c) \/ Return(c)
  PROVE  SessionInv'
<1>1. CASE Ask(c)
  <2>1. ASSUME NEW next, next.at = "row", Goto(c, next),
               UNCHANGED <<accountVars, sessionVars, clock>>
        PROVE  SessionInv'
    BY <2>1, GotoKeeps DEF Places
  <2> QED BY <1>1, <2>1 DEF Ask
<1>2. CASE FetchRow(c)
  <2>1. UNCHANGED <<accountVars, sessionVars, clock>>
    BY <1>2 DEF FetchRow
  <2>2. ASSUME NEW a, Goto(c, [at |-> "roles", question |-> call[c], account |-> a])
        PROVE  SessionInv'
    <3> DEFINE next == [at |-> "roles", question |-> call[c], account |-> a]
    <3>1. next.at = "roles" /\ Goto(c, next)
      BY <2>2
    <3> HIDE DEF next
    <3> QED BY <2>1, <3>1, GotoKeeps DEF Places
  <2>3. ASSUME Goto(c, [at |-> "verify", question |-> call[c], account |-> None, roles |-> {}])
        PROVE  SessionInv'
    <3> DEFINE next == [at |-> "verify", question |-> call[c], account |-> None, roles |-> {}]
    <3>1. next.at = "verify" /\ Goto(c, next)
      BY <2>3
    <3> HIDE DEF next
    <3> QED BY <2>1, <3>1, GotoKeeps DEF Places
  <2> QED BY <1>2, <2>2, <2>3 DEF FetchRow
<1>3. CASE FetchRoles(c)
  <2> DEFINE next == [at |-> "verify", question |-> call[c].question,
                      account |-> call[c].account, roles |-> RolesOf(call[c].account)]
  <2>1. next.at = "verify"
    OBVIOUS
  <2> QED BY <1>3, <2>1, GotoKeeps DEF FetchRoles, Places
<1>4. CASE VerifyPassword(c)
  <2> DEFINE next ==
        IF Passes(call[c])
          THEN [at |-> "found", account |-> call[c].account, roles |-> call[c].roles]
          ELSE [at |-> "found", account |-> None]
  <2>1. next.at = "found"
    OBVIOUS
  <2>2. Goto(c, next) /\ UNCHANGED <<accountVars, sessionVars, clock>>
    BY <1>4 DEF VerifyPassword
  <2> HIDE DEF next
  <2> QED BY <2>1, <2>2, GotoKeeps DEF Places
<1>5. CASE Return(c)
  BY <1>5, GotoKeeps DEF Return, Idle, Places
<1> QED BY <1>1, <1>2, <1>3, <1>4, <1>5

(* create: the token is new until it is inserted. *)
LEMMA CheckExpiryStep ==
  ASSUME SessionInv, NEW c \in Clients, NEW t \in Tokens, NEW a \in Accounts,
         NEW expires \in Times, CheckExpiry(c, t, a, expires)
  PROVE  SessionInv'
<1> DEFINE next == [at |-> "insert", token |-> t, account |-> a, expires |-> expires]
<1>1. /\ next.at = "insert" /\ next.token = t /\ next.account = a
      /\ next.expires = expires
  OBVIOUS
<1>2. /\ Goto(c, next) /\ UNCHANGED <<accountVars, sessionVars, clock>>
      /\ t \notin issued /\ \A d \in Clients : At(d, "insert") => call[d].token # t
  BY DEF CheckExpiry
<1> HIDE DEF next
<1> QED BY <1>1, <1>2, GotoKeeps DEF Places

(* The row appears, and its token is issued and was never revoked. *)
LEMMA InsertSessionStep ==
  ASSUME SessionInv, NEW c \in Clients, InsertSession(c)
  PROVE  SessionInv'
<1> USE DEF SessionInv
<1> DEFINE t == call[c].token
           row == [account |-> call[c].account, expires |-> call[c].expires]
<1>1. /\ t \in Tokens \ issued /\ call[c].account \in Accounts /\ call[c].expires \in Times
      /\ \A d \in Clients : At(d, "insert") /\ call[d].token = t => c = d
  BY DEF InsertSession, InsertsOK
<1>2. /\ call' = [d \in Clients |-> IF d = c THEN Idle ELSE call[d]]
      /\ UNCHANGED <<accounts, roles, sellers, outbox, revoked, clock>>
  BY DEF InsertSession, Goto, CallIsFunction, accountVars
<1>3. CASE ~ Exists(call[c].account)
  <2>1. UNCHANGED <<accountVars, sessionVars, clock>> /\ Goto(c, Idle)
    BY <1>2, <1>3 DEF InsertSession, accountVars, sessionVars
  <2> QED BY <2>1, GotoKeeps DEF Idle, Places
<1>4. CASE Exists(call[c].account)
  <2>1. /\ sessions' = [sessions EXCEPT ![t] = row]
        /\ issued' = issued \cup {t}
    BY <1>4 DEF InsertSession
  <2>2. row \in [account : {a \in Accounts : Exists(a)}, expires : Times]
    BY <1>1, <1>4
  <2>3. row # None
    BY <1>1, IdentityAssumption DEF Times
  <2> HIDE DEF row
  <2>4. TypeOK'
    BY <1>1, <1>2, <2>1, <2>2 DEF TypeOK, Exists, Idle
  <2>5. CallIsFunction'
    BY <1>2 DEF CallIsFunction
  <2>6. InsertsOK'
    <3> SUFFICES ASSUME NEW d \in Clients, At(d, "insert")' PROVE
          /\ call'[d].token \in Tokens \ issued'
          /\ call'[d].account \in Accounts
          /\ call'[d].expires \in Times
          /\ \A e \in Clients : At(e, "insert")' /\ call'[e].token = call'[d].token => d = e
      BY DEF InsertsOK
    <3>1. d # c /\ call'[d] = call[d] /\ At(d, "insert")
      BY <1>2 DEF At, Idle
    <3>2. call[d].token # t
      BY <1>1, <3>1
    <3>3. \A e \in Clients : At(e, "insert")' => call'[e] = call[e] /\ At(e, "insert")
      BY <1>2 DEF At, Idle
    <3> QED BY <2>1, <3>1, <3>2, <3>3 DEF InsertsOK
  <2>7. LookupsOK'
    BY <1>2, <2>1 DEF LookupsOK, At, Idle
  <2>8. RowsAreIssued'
    BY <1>1, <1>2, <2>1, <2>3 DEF RowsAreIssued, TypeOK
  <2>9. VerifyIsRight'
    BY <1>2, <2>1 DEF VerifyIsRight, At, Idle
  <2> QED BY <2>4, <2>5, <2>6, <2>7, <2>8, <2>9
<1> QED BY <1>3, <1>4

(* What verify binds is the present. *)
LEMMA BindNowStep ==
  ASSUME SessionInv, NEW c \in Clients, NEW t \in Tokens, BindNow(c, t)
  PROVE  SessionInv'
<1> DEFINE next == [at |-> "lookup", token |-> t, now |-> clock, before |-> revoked]
<1>1. /\ next.at = "lookup" /\ next.token = t /\ next.now = clock /\ next.before = revoked
  OBVIOUS
<1>2. /\ Goto(c, next) /\ UNCHANGED <<accountVars, sessionVars, clock>>
      /\ t \in issued /\ clock \in Times
  BY DEF BindNow, SessionInv, TypeOK
<1> HIDE DEF next
<1> QED BY <1>1, <1>2, GotoKeeps DEF Places

(* An issued session without a row was revoked; one with a row was not. *)
LEMMA LookUpStep ==
  ASSUME SessionInv, NEW c \in Clients, LookUp(c)
  PROVE  SessionInv'
<1> DEFINE v == call[c]
           next == [at |-> "verified", token |-> v.token, accepted |-> Live(v.token, v.now),
                    now |-> v.now, before |-> v.before, session |-> sessions[v.token]]
<1>1. /\ v.token \in issued /\ v.token \in Tokens /\ v.now \in Times /\ v.before \subseteq revoked
  BY DEF LookUp, SessionInv, LookupsOK, TypeOK
<1>2. Goto(c, next) /\ UNCHANGED <<accountVars, sessionVars, clock>>
  BY DEF LookUp
<1>3. /\ next.at = "verified" /\ next.token = v.token /\ next.now = v.now
      /\ next.before = v.before /\ next.session = sessions[v.token]
  OBVIOUS
<1>4. next.accepted = Live(v.token, v.now)
  BY Zenon
<1>5. next.accepted => next.token \in issued \ next.before /\ next.session.expires > next.now
  BY <1>1, <1>3, <1>4 DEF Live, SessionInv, RowsAreIssued
<1>6. ~ next.accepted => next.token \in revoked \/ next.session.expires <= next.now
  <2> SUFFICES ASSUME ~ Live(v.token, v.now), v.token \notin revoked
               PROVE  sessions[v.token].expires <= v.now
    BY <1>3, <1>4
  <2>1. sessions[v.token] # None
    BY <1>1 DEF SessionInv, RowsAreIssued
  <2>2. sessions[v.token].expires \in Times
    BY <1>1, <2>1 DEF SessionInv, TypeOK
  <2> QED BY <1>1, <2>1, <2>2, IdentityAssumption DEF Live, Times
<1> HIDE DEF next
<1> QED BY <1>2, <1>3, <1>5, <1>6, GotoKeeps DEF Places

(* Rows go, and their tokens are revoked from then on. *)
LEMMA RevocationKeeps ==
  ASSUME SessionInv, NEW gone \in SUBSET issued,
         sessions' = [t \in Tokens |-> IF t \in gone THEN None ELSE sessions[t]],
         revoked' = revoked \cup gone,
         UNCHANGED <<accountVars, issued, clock, call>>
  PROVE  SessionInv'
<1> USE DEF SessionInv, accountVars
<1>1. TypeOK'
  BY DEF TypeOK, Exists
<1>2. CallIsFunction' /\ InsertsOK' /\ LookupsOK'
  BY DEF CallIsFunction, InsertsOK, LookupsOK, At
<1>3. RowsAreIssued'
  BY DEF RowsAreIssued
<1>4. VerifyIsRight'
  BY DEF VerifyIsRight, At
<1> QED BY <1>1, <1>2, <1>3, <1>4

LEMMA RevokeStep ==
  ASSUME SessionInv, NEW t \in Tokens, Revoke(t)
  PROVE  SessionInv'
<1>1. t \in issued /\ sessions \in [Tokens -> [account : {a \in Accounts : Exists(a)},
                                               expires : Times] \cup {None}]
  BY DEF Revoke, SessionInv, TypeOK
<1>2. sessions' = [u \in Tokens |-> IF u \in {t} THEN None ELSE sessions[u]]
  BY <1>1 DEF Revoke
<1> QED BY <1>1, <1>2, RevocationKeeps DEF Revoke

LEMMA RevokeAllStep ==
  ASSUME SessionInv, NEW a \in Accounts, RevokeAll(a)
  PROVE  SessionInv'
<1>1. SessionsOf(a) \in SUBSET issued
  BY DEF SessionsOf, SessionInv, RowsAreIssued
<1> QED BY <1>1, RevocationKeeps DEF RevokeAll

LEMMA TickStep == SessionInv /\ Tick => SessionInv'
<1> SUFFICES ASSUME SessionInv, Tick PROVE SessionInv'
  OBVIOUS
<1> USE DEF SessionInv, Tick, accountVars, sessionVars
<1>1. TypeOK'
  BY IdentityAssumption DEF TypeOK, Exists, Times
<1>2. CallIsFunction' /\ InsertsOK' /\ LookupsOK' /\ RowsAreIssued' /\ VerifyIsRight'
  BY DEF CallIsFunction, InsertsOK, LookupsOK, RowsAreIssued, VerifyIsRight, At
<1> QED BY <1>1, <1>2

LEMMA NextSession == SessionInv /\ [Next]_vars => SessionInv'
<1> SUFFICES ASSUME SessionInv, [Next]_vars PROVE SessionInv'
  OBVIOUS
<1>1. CASE Write
  BY <1>1, AccountStep, RevokeAllStep, RevokeStep DEF Write
<1>2. CASE Tick
  BY <1>2, TickStep
<1>3. ASSUME NEW c \in Clients,
             \/ Ask(c) \/ FetchRow(c) \/ FetchRoles(c) \/ VerifyPassword(c)
             \/ \E t \in Tokens, a \in Accounts, expires \in Times : CheckExpiry(c, t, a, expires)
             \/ InsertSession(c)
             \/ \E t \in Tokens : BindNow(c, t)
             \/ LookUp(c)
             \/ Return(c)
      PROVE  SessionInv'
  BY <1>3, QuestionStep, CheckExpiryStep, InsertSessionStep, BindNowStep, LookUpStep
<1>4. CASE UNCHANGED vars
  <2>1. UNCHANGED <<sessionVars, clock, call>> /\ TypeOK'
    BY <1>4 DEF vars, accountVars, sessionVars, SessionInv, TypeOK, Exists
  <2> QED BY <2>1, AccountWriteKeeps
<1> QED BY <1>1, <1>2, <1>3, <1>4 DEF Next

LEMMA SessionsAlways == Spec => []SessionInv
BY InitSession, NextSession, PTL DEF Spec

-----------------------------------------------------------------------------
(* The tables of identity.db keep their types and foreign keys. *)
THEOREM IdentityTypeCorrect == Spec => []TypeOK
<1>1. SessionInv => TypeOK
  BY DEF SessionInv
<1> QED BY <1>1, SessionsAlways, PTL

(* A revoked session never comes back, for any number of concurrent calls of
   create, verify and both revocations. *)
THEOREM RevocationIsFinal == Spec => []RevokedForGood
<1>1. SessionInv => RevokedForGood
  BY DEF SessionInv, RevokedForGood, RowsAreIssued, TypeOK
<1> QED BY <1>1, SessionsAlways, PTL

(* verify answers rightly for some moment of the call. *)
THEOREM VerifyCorrect == Spec => []VerifyIsRight
<1>1. SessionInv => VerifyIsRight
  BY DEF SessionInv
<1> QED BY <1>1, SessionsAlways, PTL
-----------------------------------------------------------------------------
(* A new account extends the log of registrations by one that is not in it;
   nothing else touches either. *)
LEMMA RegistrationStep ==
  SessionInv /\ RegistrationIsWhole /\ [Next]_vars => RegistrationIsWhole'
<1> SUFFICES ASSUME SessionInv, RegistrationIsWhole, [Next]_vars PROVE RegistrationIsWhole'
  OBVIOUS
<1> USE DEF Exists
<1>0. TypeOK
  BY DEF SessionInv
<1>1. ASSUME NEW a \in Accounts, NEW email \in Emails, NEW password \in Passwords,
             Register(a, email, password)
      PROVE  RegistrationIsWhole'
  <2> DEFINE row == [email |-> email, password |-> password]
  <2>1. row \in [email : Emails, password : Passwords] /\ row.email = email
    OBVIOUS
  <2>2. row # None
    BY <2>1, IdentityAssumption
  <2>3. /\ outbox \in Seq(Accounts) /\ outbox' = Append(outbox, a)
        /\ accounts' = [accounts EXCEPT ![a] = row] /\ accounts[a] = None
    BY <1>0, <1>1 DEF TypeOK, Register
  <2> HIDE DEF row
  <2>4. \A b \in Accounts : accounts'[b] = IF b = a THEN row ELSE accounts[b]
    BY <1>0, <2>3 DEF TypeOK
  <2>5. a \notin ToSet(outbox)
    BY <2>3 DEF RegistrationIsWhole
  <2>6. /\ \A i \in DOMAIN outbox' : \/ i \in DOMAIN outbox /\ outbox'[i] = outbox[i]
                                     \/ i = Len(outbox) + 1 /\ outbox'[i] = a
        /\ \A i \in DOMAIN outbox : i \in DOMAIN outbox' /\ outbox'[i] = outbox[i]
        /\ Len(outbox) + 1 \in DOMAIN outbox' /\ outbox'[Len(outbox) + 1] = a
    <3>1. outbox' \in Seq(Accounts)
      BY <2>3
    <3>2. Len(outbox) \in Nat /\ DOMAIN outbox = 1 .. Len(outbox)
      BY <2>3
    <3>3. /\ Len(outbox') = Len(outbox) + 1 /\ DOMAIN outbox' = 1 .. Len(outbox')
          /\ outbox'[Len(outbox) + 1] = a
      BY <2>3, <3>1
    <3>4. \A i \in 1 .. Len(outbox) : outbox'[i] = outbox[i]
      BY <2>3, <3>2
    <3> QED BY <3>2, <3>3, <3>4
  <2>7. IsInjective(outbox)'
    BY <2>5, <2>6 DEF IsInjective, RegistrationIsWhole, ToSet
  <2>8. ToSet(outbox') = ToSet(outbox) \cup {a}
    BY <2>6 DEF ToSet
  <2>9. ToSet(outbox)' = {b \in Accounts : accounts'[b] # None}
    BY <2>2, <2>3, <2>4, <2>8 DEF RegistrationIsWhole
  <2>10. \A b \in Accounts : accounts[b] # None => accounts[b].email # email
    BY <1>1 DEF Register, EmailTaken
  <2>11. \A b, d \in Accounts :
           accounts'[b] # None /\ accounts'[d] # None /\ accounts'[b].email = accounts'[d].email
             => b = d
    BY <2>1, <2>2, <2>3, <2>4, <2>10 DEF RegistrationIsWhole
  <2> QED BY <2>7, <2>9, <2>11 DEF RegistrationIsWhole
<1>2. ASSUME UNCHANGED <<accounts, outbox>>
      PROVE  RegistrationIsWhole'
  BY <1>2 DEF RegistrationIsWhole
<1>3. CASE Write
  BY <1>1, <1>2, <1>3 DEF Write, GrantRole, RevokeRole, RegisterSeller, RevokeAll, Revoke,
     accountVars
<1>4. CASE Tick \/ UNCHANGED vars
  BY <1>2, <1>4 DEF Tick, vars, accountVars
<1>5. ASSUME NEW c \in Clients,
             \/ Ask(c) \/ FetchRow(c) \/ FetchRoles(c) \/ VerifyPassword(c)
             \/ \E t \in Tokens, a \in Accounts, expires \in Times : CheckExpiry(c, t, a, expires)
             \/ InsertSession(c)
             \/ \E t \in Tokens : BindNow(c, t)
             \/ LookUp(c)
             \/ Return(c)
      PROVE  UNCHANGED accountVars
  BY <1>5 DEF Ask, FetchRow, FetchRoles, VerifyPassword, CheckExpiry, InsertSession, BindNow,
     LookUp, Return
<1> QED BY <1>2, <1>3, <1>4, <1>5 DEF Next, accountVars

(* Every account has its one event, every event its account, and no email is
   registered twice. *)
THEOREM RegistrationAtomic == Spec => []RegistrationIsWhole
<1>1. Init => RegistrationIsWhole
  BY DEF Init, RegistrationIsWhole, Exists, IsInjective, ToSet
<1> QED BY <1>1, RegistrationStep, SessionsAlways, PTL DEF Spec

-----------------------------------------------------------------------------
(***************************************************************************)
(* Identity implements AccountDirectory: an account is read at the moment  *)
(* its roles are, because what the first query read of it never changes.   *)
(***************************************************************************)

IsQuestion(q) ==
  \/ q.by = "id" /\ q.id \in Accounts
  \/ q.by = "email" /\ q.email \in Emails /\ q.password \in Passwords

(* What a call carries from one await to the next is still true. *)
CallOK(s) ==
  /\ s.at = "row" => IsQuestion(s)
  /\ s.at = "roles" => IsQuestion(s.question) /\ s.account \in RowsFound(s.question)
  /\ s.at = "verify" =>
       /\ IsQuestion(s.question)
       /\ s.account # None => s.account \in RowsFound(s.question)
  /\ s.at = "found" => s.account = None \/ (s.account \in Accounts /\ Exists(s.account))

CallsOK == \A c \in Clients : CallOK(call[c])

DirectoryInv == SessionInv /\ RegistrationIsWhole /\ CallsOK

(* The variables of the abstract specification. *)
Dir == [a \in Accounts |-> IF Exists(a) THEN Profile(a, RolesOf(a)) ELSE None]

Calls == [c \in Clients |-> AbstractCall(call[c])]

(* An account that exists keeps its row. *)
RowsKept == \A a \in Accounts : Exists(a) => accounts'[a] = accounts[a]

LEMMA RowsAreKept == SessionInv /\ [Next]_vars => RowsKept
<1> SUFFICES ASSUME SessionInv, [Next]_vars PROVE RowsKept
  OBVIOUS
<1>0. TypeOK
  BY DEF SessionInv
<1>1. ASSUME NEW a \in Accounts, NEW email \in Emails, NEW password \in Passwords,
             Register(a, email, password)
      PROVE  RowsKept
  BY <1>0, <1>1 DEF Register, RowsKept, TypeOK, Exists
<1>2. ASSUME UNCHANGED accounts
      PROVE  RowsKept
  BY <1>2 DEF RowsKept
<1>3. CASE Write
  BY <1>1, <1>2, <1>3 DEF Write, GrantRole, RevokeRole, RegisterSeller, RevokeAll, Revoke,
     accountVars
<1>4. CASE Tick \/ UNCHANGED vars
  BY <1>2, <1>4 DEF Tick, vars, accountVars
<1>5. ASSUME NEW c \in Clients,
             \/ Ask(c) \/ FetchRow(c) \/ FetchRoles(c) \/ VerifyPassword(c)
             \/ \E t \in Tokens, a \in Accounts, expires \in Times : CheckExpiry(c, t, a, expires)
             \/ InsertSession(c)
             \/ \E t \in Tokens : BindNow(c, t)
             \/ LookUp(c)
             \/ Return(c)
      PROVE  UNCHANGED accountVars
  BY <1>5 DEF Ask, FetchRow, FetchRoles, VerifyPassword, CheckExpiry, InsertSession, BindNow,
     LookUp, Return
<1> QED BY <1>2, <1>3, <1>4, <1>5 DEF Next, accountVars

(* Facts about existing accounts outlive every step. *)
LEMMA CallOKKept ==
  ASSUME RowsKept, NEW s, CallOK(s), SessionInv
  PROVE  CallOK(s)'
<1>1. \A a \in Accounts : Exists(a) => Exists(a)' /\ accounts'[a] = accounts[a]
  BY DEF RowsKept, Exists
<1>2. \A q : \A a \in RowsFound(q) : a \in RowsFound(q)'
  BY <1>1 DEF RowsFound
<1> QED BY <1>1, <1>2 DEF CallOK, IsQuestion, RowsFound

LEMMA AbstractCallKept ==
  ASSUME RowsKept, NEW s, CallOK(s), SessionInv
  PROVE  AbstractCall(s)' = AbstractCall(s)
<1>1. \A a \in Accounts : Exists(a) => accounts'[a] = accounts[a]
  BY DEF RowsKept
<1>2. \A a \in Accounts : \A held : Exists(a) => Profile(a, held)' = Profile(a, held)
  BY <1>1 DEF Profile
<1>3. CASE s.at \in {"verify", "found"} /\ s.account # None
  <2>1. s.account \in Accounts /\ Exists(s.account)
    BY <1>3 DEF CallOK, RowsFound
  <2>2. Passes(s)' <=> Passes(s)
    BY <1>1, <2>1 DEF Passes
  <2>3. Answered(s)' = Answered(s)
    BY <1>2, <2>1 DEF Answered
  <2>4. Answered([account |-> None])' = Answered([account |-> None])
    BY DEF Answered
  <2> QED BY <1>3, <2>2, <2>3, <2>4 DEF AbstractCall
<1>4. CASE s.at \in {"verify", "found"} /\ s.account = None
  BY <1>4 DEF AbstractCall, Passes, Answered
<1>5. CASE s.at \notin {"verify", "found"}
  BY <1>5 DEF AbstractCall, Asked, Question
<1> QED BY <1>3, <1>4, <1>5

(* A step of one client that writes no account. *)
LEMMA GotoCalls ==
  ASSUME DirectoryInv, RowsKept, NEW c \in Clients, NEW next, Goto(c, next), CallOK(next)
  PROVE  CallsOK' /\ Calls' = [Calls EXCEPT ![c] = AbstractCall(next)]
<1> USE DEF DirectoryInv
<1>1. \A d \in Clients : call'[d] = IF d = c THEN next ELSE call[d]
  BY DEF SessionInv, CallIsFunction, Goto
<1>2. \A d \in Clients : CallOK(call'[d])
  BY <1>1 DEF CallsOK
<1>3. \A s : CallOK(s) => CallOK(s)' /\ AbstractCall(s)' = AbstractCall(s)
  BY CallOKKept, AbstractCallKept
<1>4. \A d \in Clients : CallOK(call[d])' /\ AbstractCall(call[d])' = AbstractCall(call'[d])
  BY <1>2, <1>3
<1>5. \A d \in Clients :
        AbstractCall(call[d])' = IF d = c THEN AbstractCall(next) ELSE AbstractCall(call[d])
  BY <1>1, <1>4
<1> QED BY <1>4, <1>5 DEF CallsOK, Calls

(* A write to the tables. *)
LEMMA WriteCalls ==
  ASSUME DirectoryInv, RowsKept, UNCHANGED call
  PROVE  CallsOK' /\ UNCHANGED Calls
<1> USE DEF DirectoryInv
<1>1. \A s : CallOK(s) => CallOK(s)' /\ AbstractCall(s)' = AbstractCall(s)
  BY CallOKKept, AbstractCallKept
<1>2. \A d \in Clients : CallOK(call[d])' /\ AbstractCall(call[d])' = AbstractCall(call[d])
  BY <1>1 DEF CallsOK
<1> QED BY <1>2 DEF CallsOK, Calls

(* What does not touch accounts and their roles leaves the directory alone. *)
LEMMA DirectoryKept == UNCHANGED <<accounts, roles>> => UNCHANGED Dir
BY DEF Dir, Exists, Profile, RolesOf

-----------------------------------------------------------------------------
(* Every write is a step of the directory, or none. *)

LEMMA ProfileIsNotNone ==
  ASSUME DirectoryInv, NEW a \in Accounts, Exists(a)
  PROVE  Profile(a, RolesOf(a)) # None
<1>1. accounts[a] \in [email : Emails, password : Passwords]
  BY DEF DirectoryInv, SessionInv, TypeOK, Exists
<1>2. Profile(a, RolesOf(a)) \in [email : Emails, password : Passwords, roles : SUBSET Roles]
  BY <1>1 DEF Profile, RolesOf
<1> QED BY <1>2, IdentityAssumption

AbstractStep == Directory!Next \/ UNCHANGED <<Dir, Calls>>

LEMMA EnrollStep ==
  ASSUME DirectoryInv, RowsKept, NEW a \in Accounts, NEW email \in Emails,
         NEW password \in Passwords, Register(a, email, password)
  PROVE  AbstractStep
<1> USE DEF DirectoryInv
<1>0. TypeOK
  BY DEF SessionInv
<1> DEFINE row == [email |-> email, password |-> password]
<1>1. row # None /\ row.email = email /\ row.password = password
  BY IdentityAssumption
<1>2. /\ \A b \in Accounts : accounts'[b] = IF b = a THEN row ELSE accounts[b]
      /\ roles' = roles \cup {<<a, "customer">>} /\ accounts[a] = None
      /\ UNCHANGED call
  BY <1>0 DEF Register, TypeOK, Exists
<1> HIDE DEF row
<1>3. Dir[a] = None /\ \A b \in Accounts : Dir[b] # None => Exists(b) /\ Dir[b].email = accounts[b].email
  BY <1>2 DEF Dir, Exists, Profile
<1>4. \A b \in Accounts : Dir[b] # None => Dir[b].email # email
  BY <1>3 DEF Register, EmailTaken
<1>5. RolesOf(a)' = {"customer"}
  BY <1>0, <1>2, IdentityAssumption DEF RolesOf, TypeOK, Exists
<1>6. \A b \in Accounts \ {a} : RolesOf(b)' = RolesOf(b)
  BY <1>2 DEF RolesOf
<1>7. Dir' = [Dir EXCEPT ![a] = [email |-> email, password |-> password, roles |-> {"customer"}]]
  BY <1>1, <1>2, <1>5, <1>6 DEF Dir, Exists, Profile
<1>8. UNCHANGED Calls
  BY <1>2, WriteCalls
<1>9. Directory!Enroll(a, email, password)
  BY <1>3, <1>4, <1>7, <1>8 DEF Directory!Enroll, Dir, Calls
<1> QED BY <1>9 DEF AbstractStep, Directory!Next

LEMMA ChangeRolesStep ==
  ASSUME DirectoryInv, RowsKept, NEW a \in Accounts,
         UNCHANGED <<accounts, call>>,
         \A b \in Accounts \ {a} : RolesOf(b)' = RolesOf(b)
  PROVE  AbstractStep
<1> USE DEF DirectoryInv
<1>1. UNCHANGED Calls
  BY WriteCalls
<1>2. CASE Exists(a)
  <2>1. Dir[a] # None
    BY <1>2, ProfileIsNotNone DEF Dir
  <2>2. Dir' = [Dir EXCEPT ![a].roles = RolesOf(a)']
    BY <1>2 DEF Dir, Exists, Profile
  <2>3. RolesOf(a)' \in SUBSET Roles
    BY DEF RolesOf
  <2>4. Directory!ChangeRoles(a, RolesOf(a)')
    BY <1>1, <2>1, <2>2 DEF Directory!ChangeRoles, Dir, Calls
  <2> QED BY <2>3, <2>4 DEF AbstractStep, Directory!Next
<1>3. CASE ~ Exists(a)
  <2>1. UNCHANGED Dir
    BY <1>3 DEF Dir, Exists, Profile
  <2> QED BY <1>1, <2>1 DEF AbstractStep
<1> QED BY <1>2, <1>3

-----------------------------------------------------------------------------
(* The steps of a call. *)

LEMMA QuestionSteps ==
  ASSUME DirectoryInv, RowsKept, NEW c \in Clients, Ask(c)
  PROVE  CallsOK' /\ AbstractStep
<1>1. PICK next : /\ Goto(c, next) /\ next.at = "row" /\ IsQuestion(next)
                  /\ Question(next) \in Directory!Questions
  <2>1. CASE \E a \in Accounts : Goto(c, [at |-> "row", by |-> "id", id |-> a])
    BY <2>1 DEF IsQuestion, Question, Directory!Questions
  <2>2. CASE \E email \in Emails, password \in Passwords :
               Goto(c, [at |-> "row", by |-> "email", email |-> email, password |-> password])
    BY <2>2 DEF IsQuestion, Question, Directory!Questions
  <2> QED BY <2>1, <2>2 DEF Ask
<1>2. CallOK(next)
  BY <1>1 DEF CallOK
<1>3. CallsOK' /\ Calls' = [Calls EXCEPT ![c] = AbstractCall(next)]
  BY <1>1, <1>2, GotoCalls
<1>4. AbstractCall(next) = [state |-> "asked", question |-> Question(next)]
  BY <1>1 DEF AbstractCall, Asked
<1>5. Calls[c] = [state |-> "idle"]
  BY DEF Calls, AbstractCall, Ask, At
<1>6. UNCHANGED Dir
  BY DirectoryKept DEF Ask, accountVars
<1>7. Directory!Ask(c, Question(next))
  BY <1>3, <1>4, <1>5, <1>6 DEF Directory!Ask, Directory!Idle, Dir, Calls
<1> QED BY <1>1, <1>3, <1>7 DEF AbstractStep, Directory!Next

(* No account matches: answered at once. *)
LEMMA NotFoundStep ==
  ASSUME DirectoryInv, RowsKept, NEW c \in Clients, At(c, "row"),
         RowsFound(call[c]) = {}, UNCHANGED accountVars,
         Goto(c, [at |-> "verify", question |-> call[c], account |-> None, roles |-> {}])
  PROVE  CallsOK' /\ AbstractStep
<1> DEFINE next == [at |-> "verify", question |-> call[c], account |-> None, roles |-> {}]
<1>1. IsQuestion(call[c])
  BY DEF DirectoryInv, CallsOK, CallOK, At
<1>2. CallOK(next)
  BY <1>1 DEF CallOK
<1>3. CallsOK' /\ Calls' = [Calls EXCEPT ![c] = AbstractCall(next)]
  BY <1>2, GotoCalls
<1>4. AbstractCall(next) = [state |-> "answered", account |-> None]
  BY DEF AbstractCall, Answered, Passes
<1>5. Calls[c] = [state |-> "asked", question |-> Question(call[c])]
  BY DEF Calls, AbstractCall, Asked, At
<1>6. UNCHANGED Dir
  BY DirectoryKept DEF accountVars
<1>7. \A a \in Accounts : ~ Directory!Matches(a, Question(call[c]))
  BY <1>1 DEF Directory!Matches, RowsFound, IsQuestion, Question, Profile
<1> HIDE DEF next
<1>8. Directory!Answer(c)
  BY <1>3, <1>4, <1>5, <1>6, <1>7 DEF Directory!Answer, Dir, Calls
<1> QED BY <1>3, <1>8 DEF AbstractStep, Directory!Next

(* The account is found and its roles are read: this is the moment the answer
   is taken from, and the password does not change before it is compared. *)
LEMMA AnswerStep ==
  ASSUME DirectoryInv, RowsKept, NEW c \in Clients, FetchRoles(c)
  PROVE  CallsOK' /\ AbstractStep
<1> DEFINE q == call[c].question
           a == call[c].account
           next == [at |-> "verify", question |-> q, account |-> a, roles |-> RolesOf(a)]
<1>1. IsQuestion(q) /\ a \in RowsFound(q) /\ At(c, "roles")
  BY DEF DirectoryInv, CallsOK, CallOK, At, FetchRoles
<1>2. Goto(c, next) /\ UNCHANGED accountVars
  BY DEF FetchRoles
<1>3. a \in Accounts /\ Exists(a) /\ a # None
  BY <1>1, IdentityAssumption DEF RowsFound
<1>4. Calls[c] = [state |-> "asked", question |-> Question(q)]
  BY <1>1 DEF Calls, AbstractCall, Asked, At
<1>5. CallOK(next)
  BY <1>1 DEF CallOK
<1>6. /\ next.at = "verify" /\ next.account = a /\ next.question = q
      /\ next.roles = RolesOf(a)
  OBVIOUS
<1> HIDE DEF q, a, next
<1>7. CallsOK' /\ Calls' = [Calls EXCEPT ![c] = AbstractCall(next)]
  BY <1>2, <1>5, GotoCalls
<1>8. UNCHANGED Dir
  BY <1>2, DirectoryKept DEF accountVars
<1>9. \A b \in Accounts :
        Directory!Matches(b, Question(q)) <=>
          b \in RowsFound(q) /\ (q.by = "email" => accounts[b].password = q.password)
  <2>1. \A b \in Accounts : Exists(b) => Profile(b, RolesOf(b)) # None
    BY ProfileIsNotNone
  <2> QED BY <1>1, <2>1 DEF Directory!Matches, RowsFound, IsQuestion, Question, Profile
<1>10. CASE Passes(next)
  <2>1. AbstractCall(next) = [state |-> "answered", account |-> a, profile |-> Dir[a]]
    BY <1>3, <1>6, <1>10 DEF AbstractCall, Answered, Dir
  <2>2. Directory!Matches(a, Question(q))
    BY <1>1, <1>3, <1>6, <1>9, <1>10 DEF Passes
  <2>3. Calls' = [Calls EXCEPT ![c] = [state |-> "answered", account |-> a,
                                      profile |-> Dir[a]]]
    BY <1>7, <2>1
  <2>4. /\ Calls[c].state = "asked"
        /\ a \in {b \in Accounts : Directory!Matches(b, Calls[c].question)}
    BY <1>3, <1>4, <2>2
  <2>5. Directory!Answer(c)
    BY <1>8, <2>3, <2>4 DEF Directory!Answer, Dir, Calls
  <2> QED BY <1>7, <2>5 DEF AbstractStep, Directory!Next
<1>11. CASE ~ Passes(next)
  <2>1. AbstractCall(next) = [state |-> "answered", account |-> None]
    BY <1>6, <1>11 DEF AbstractCall, Answered
  <2>2. q.by = "email" /\ accounts[a].password # q.password
    BY <1>3, <1>6, <1>11 DEF Passes
  <2>3. \A b \in RowsFound(q) : b = a
    BY <1>1, <1>3, <2>2 DEF RowsFound, DirectoryInv, RegistrationIsWhole
  <2>4. \A b \in Accounts : ~ Directory!Matches(b, Question(q))
    BY <1>9, <2>2, <2>3
  <2>5. Directory!Answer(c)
    BY <1>4, <1>7, <1>8, <2>1, <2>4 DEF Directory!Answer, Dir, Calls
  <2> QED BY <1>7, <2>5 DEF AbstractStep, Directory!Next
<1> QED BY <1>10, <1>11

(* A step the directory does not see. *)
LEMMA SilentStep ==
  ASSUME DirectoryInv, RowsKept, NEW c \in Clients, NEW next, Goto(c, next), CallOK(next),
         AbstractCall(next) = AbstractCall(call[c]), UNCHANGED <<accounts, roles>>
  PROVE  CallsOK' /\ AbstractStep
<1>1. CallsOK' /\ Calls' = [Calls EXCEPT ![c] = AbstractCall(next)]
  BY GotoCalls
<1>2. Calls' = Calls
  BY <1>1 DEF Calls
<1> QED BY <1>1, <1>2, DirectoryKept DEF AbstractStep

LEMMA FetchRowStep ==
  ASSUME DirectoryInv, RowsKept, NEW c \in Clients, FetchRow(c)
  PROVE  CallsOK' /\ AbstractStep
<1>1. At(c, "row") /\ IsQuestion(call[c]) /\ UNCHANGED <<accounts, roles>>
  BY DEF FetchRow, DirectoryInv, CallsOK, CallOK, At, accountVars
<1>2. ASSUME NEW a \in RowsFound(call[c]),
             Goto(c, [at |-> "roles", question |-> call[c], account |-> a])
      PROVE  CallsOK' /\ AbstractStep
  <2> DEFINE next == [at |-> "roles", question |-> call[c], account |-> a]
  <2>1. CallOK(next)
    BY <1>1 DEF CallOK
  <2>2. AbstractCall(next) = AbstractCall(call[c])
    BY <1>1 DEF AbstractCall, Asked, At
  <2> QED BY <1>1, <1>2, <2>1, <2>2, SilentStep
<1> QED BY <1>1, <1>2, NotFoundStep DEF FetchRow

LEMMA VerifyPasswordStep ==
  ASSUME DirectoryInv, RowsKept, NEW c \in Clients, VerifyPassword(c)
  PROVE  CallsOK' /\ AbstractStep
<1> DEFINE yes == [at |-> "found", account |-> call[c].account, roles |-> call[c].roles]
           no == [at |-> "found", account |-> None]
<1>1. /\ At(c, "verify") /\ UNCHANGED <<accounts, roles>>
      /\ Goto(c, IF Passes(call[c]) THEN yes ELSE no)
  BY DEF VerifyPassword, accountVars
<1>2. call[c].account # None => call[c].account \in Accounts /\ Exists(call[c].account)
  BY <1>1 DEF DirectoryInv, CallsOK, CallOK, At, RowsFound
<1>3. CallOK(yes) /\ CallOK(no)
  BY <1>2 DEF CallOK
<1>4. AbstractCall(yes) = Answered(call[c])
  BY DEF AbstractCall, Answered
<1>5. AbstractCall(no) = Answered([account |-> None])
  BY DEF AbstractCall, Answered
<1>6. AbstractCall(call[c]) = Answered(IF Passes(call[c]) THEN call[c] ELSE [account |-> None])
  BY <1>1 DEF AbstractCall, At
<1> HIDE DEF yes, no
<1>7. CASE Passes(call[c])
  BY <1>1, <1>3, <1>4, <1>6, <1>7, SilentStep
<1>8. CASE ~ Passes(call[c])
  BY <1>1, <1>3, <1>5, <1>6, <1>8, SilentStep
<1> QED BY <1>7, <1>8

LEMMA ReturnStep ==
  ASSUME DirectoryInv, RowsKept, NEW c \in Clients, Return(c)
  PROVE  CallsOK' /\ AbstractStep
<1>1. Goto(c, Idle) /\ UNCHANGED <<accounts, roles>>
  BY DEF Return, accountVars
<1>2. CallOK(Idle)
  BY DEF CallOK, Idle
<1>3. AbstractCall(Idle) = [state |-> "idle"]
  BY DEF AbstractCall, Idle
<1>4. CASE AbstractCall(call[c]) = [state |-> "idle"]
  BY <1>1, <1>2, <1>3, <1>4, SilentStep
<1>5. CASE AbstractCall(call[c]) # [state |-> "idle"]
  <2>1. CallsOK' /\ Calls' = [Calls EXCEPT ![c] = [state |-> "idle"]]
    BY <1>1, <1>2, <1>3, GotoCalls
  <2>2. Calls[c] # [state |-> "idle"]
    BY <1>5 DEF Calls
  <2>3. UNCHANGED Dir
    BY <1>1, DirectoryKept
  <2>4. Directory!Leave(c)
    BY <2>1, <2>2, <2>3 DEF Directory!Leave, Directory!Idle, Dir, Calls
  <2> QED BY <2>1, <2>4 DEF AbstractStep, Directory!Next
<1> QED BY <1>4, <1>5

(* Calls about sessions. *)
SessionPlaces == {"idle", "insert", "lookup", "verified"}

LEMMA SessionCallStep ==
  ASSUME DirectoryInv, RowsKept, NEW c \in Clients,
         \/ \E t \in Tokens, a \in Accounts, expires \in Times : CheckExpiry(c, t, a, expires)
         \/ InsertSession(c)
         \/ \E t \in Tokens : BindNow(c, t)
         \/ LookUp(c)
  PROVE  CallsOK' /\ AbstractStep
<1>1. PICK next : Goto(c, next) /\ next.at \in SessionPlaces
  <2>1. CASE \E t \in Tokens, a \in Accounts, expires \in Times : CheckExpiry(c, t, a, expires)
    BY <2>1 DEF CheckExpiry, SessionPlaces
  <2>2. CASE InsertSession(c)
    BY <2>2 DEF InsertSession, Idle, SessionPlaces
  <2>3. CASE \E t \in Tokens : BindNow(c, t)
    BY <2>3 DEF BindNow, SessionPlaces
  <2>4. CASE LookUp(c)
    BY <2>4 DEF LookUp, SessionPlaces
  <2> QED BY <2>1, <2>2, <2>3, <2>4
<1>2. call[c].at \in SessionPlaces /\ UNCHANGED <<accounts, roles>>
  BY DEF CheckExpiry, InsertSession, BindNow, LookUp, At, accountVars, SessionPlaces
<1>3. \A s : s.at \in SessionPlaces => CallOK(s) /\ AbstractCall(s) = [state |-> "idle"]
  BY DEF SessionPlaces, CallOK, AbstractCall
<1> QED BY <1>1, <1>2, <1>3, SilentStep

LEMMA WriteStep ==
  ASSUME DirectoryInv, RowsKept, Write
  PROVE  CallsOK' /\ AbstractStep
<1>0. TypeOK
  BY DEF DirectoryInv, SessionInv
<1>1. UNCHANGED call
  BY DEF Write, Register, GrantRole, RevokeRole, RegisterSeller, RevokeAll, Revoke
<1>2. CallsOK' /\ UNCHANGED Calls
  BY <1>1, WriteCalls
<1>3. ASSUME NEW a \in Accounts, NEW email \in Emails, NEW password \in Passwords,
             Register(a, email, password)
      PROVE  AbstractStep
  BY <1>3, EnrollStep
<1>4. ASSUME NEW a \in Accounts,
             (\E role \in Roles : GrantRole(a, role) \/ RevokeRole(a, role)) \/ RegisterSeller(a)
      PROVE  AbstractStep
  <2>1. UNCHANGED <<accounts, call>>
    BY <1>4 DEF GrantRole, RevokeRole, RegisterSeller
  <2>2. \A b \in Accounts \ {a} : RolesOf(b)' = RolesOf(b)
    BY <1>4 DEF GrantRole, RevokeRole, RegisterSeller, RolesOf
  <2> QED BY <2>1, <2>2, ChangeRolesStep
<1>5. ASSUME (\E a \in Accounts : RevokeAll(a)) \/ (\E t \in Tokens : Revoke(t))
      PROVE  AbstractStep
  BY <1>2, <1>5, DirectoryKept DEF RevokeAll, Revoke, accountVars, AbstractStep
<1> QED BY <1>2, <1>3, <1>4, <1>5 DEF Write

-----------------------------------------------------------------------------
(* An account and its roles, although read by two queries, are those of one
   moment of the call, for any number of callers and whatever is written. *)
THEOREM IdentityImplementsDirectory == Spec => AnswersAreAtomic
<1>1. Init => CallsOK /\ Directory!Init
  <2> SUFFICES ASSUME Init PROVE CallsOK /\ Directory!Init
    OBVIOUS
  <2>1. CallsOK
    BY DEF Init, CallsOK, CallOK, Idle
  <2>2. \A c \in Clients : AbstractCall(call[c]) = [state |-> "idle"]
    BY DEF Init, AbstractCall, Idle
  <2>3. \A a \in Accounts : ~ Exists(a)
    BY DEF Init, Exists
  <2> QED BY <2>1, <2>2, <2>3 DEF Directory!Init, Directory!Idle
<1>2. DirectoryInv /\ [Next]_vars => CallsOK' /\ [Directory!Next]_(Directory!vars)
  <2> SUFFICES ASSUME DirectoryInv, [Next]_vars PROVE CallsOK' /\ AbstractStep
    BY DEF AbstractStep, Directory!vars, Dir, Calls
  <2>1. RowsKept
    BY RowsAreKept DEF DirectoryInv
  <2>2. CASE Write
    BY <2>1, <2>2, WriteStep
  <2>3. CASE Tick \/ UNCHANGED vars
    <3>1. UNCHANGED <<accounts, roles, call>>
      BY <2>3 DEF Tick, vars, accountVars
    <3> QED BY <2>1, <3>1, WriteCalls, DirectoryKept DEF AbstractStep
  <2>4. ASSUME NEW c \in Clients,
               \/ Ask(c) \/ FetchRow(c) \/ FetchRoles(c) \/ VerifyPassword(c)
               \/ \E t \in Tokens, a \in Accounts, expires \in Times : CheckExpiry(c, t, a, expires)
               \/ InsertSession(c)
               \/ \E t \in Tokens : BindNow(c, t)
               \/ LookUp(c)
               \/ Return(c)
        PROVE  CallsOK' /\ AbstractStep
    BY <2>1, <2>4, QuestionSteps, FetchRowStep, AnswerStep, VerifyPasswordStep, SessionCallStep,
       ReturnStep
  <2> QED BY <2>2, <2>3, <2>4 DEF Next
<1> QED BY <1>1, <1>2, SessionsAlways, RegistrationAtomic, PTL
       DEF Spec, DirectoryInv, AnswersAreAtomic, Directory!Spec
=============================================================================
