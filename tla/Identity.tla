------------------------------ MODULE Identity ------------------------------
(***************************************************************************)
(* crates/identity: accounts, their roles, seller profiles and sessions in *)
(* identity.db.                                                            *)
(*                                                                         *)
(* A write is one transaction on the only writer connection, hence one     *)
(* step (the hashing before it touches no state).  The calls that read are *)
(* split at each await: a client is looked up in two queries and its       *)
(* password compared on another thread; a session is checked against the   *)
(* clock before it is written, and the clock read before it is looked up.  *)
(* A caller may drop its call at any await.                                *)
(***************************************************************************)
EXTENDS Naturals, Sequences, SequencesExt

CONSTANTS
  Accounts, Emails, Passwords,
  Roles,    \* the CHECK of account_roles.role
  Tokens,   \* raw session tokens; generate_token never gives one twice
  Clients,  \* calls that may be under way together
  None,
  MaxTime   \* bound: ticks of the clock

ASSUME IdentityAssumption ==
  /\ {"customer", "seller"} \subseteq Roles
  /\ MaxTime \in Nat
  /\ None \notin Accounts
  /\ None \notin [email : Emails, password : Passwords]
  /\ None \notin [email : Emails, password : Passwords, roles : SUBSET Roles]
  /\ None \notin [account : Accounts, expires : 0 .. MaxTime]

VARIABLES
  accounts,  \* accounts[a]: [email, password], or None
  roles,     \* rows of account_roles: pairs <<account, role>>
  sellers,   \* accounts that have a row of sellers
  outbox,    \* the accounts of AccountRegistered events, in order
  sessions,  \* sessions[t]: [account, expires] of the row with token t, or None
  clock,     \* now_ms
  call,      \* call[c]: how far the call of client c is, with its locals
  issued,    \* history: sessions that were ever written
  revoked    \* history: tokens whose session was revoked

accountVars == <<accounts, roles, sellers, outbox>>
sessionVars == <<sessions, issued, revoked>>
vars == <<accountVars, sessionVars, clock, call>>

Times == 0 .. MaxTime

Idle == [at |-> "idle"]

Init ==
  /\ accounts = [a \in Accounts |-> None]
  /\ roles = {}
  /\ sellers = {}
  /\ outbox = << >>
  /\ sessions = [t \in Tokens |-> None]
  /\ clock = 0
  /\ call = [c \in Clients |-> Idle]
  /\ issued = {}
  /\ revoked = {}

Exists(a) == accounts[a] # None

RolesOf(a) == {r \in Roles : <<a, r>> \in roles}

At(c, where) == call[c].at = where

Goto(c, next) == call' = [call EXCEPT ![c] = next]

-----------------------------------------------------------------------------
(* Writes to the account tables. *)

EmailTaken(email) == \E b \in Accounts : Exists(b) /\ accounts[b].email = email

(* Mutant: the event is written before, and apart from, the row that may be
   refused. *)
Register_EventFirst(a, email, password) ==
  /\ ~ Exists(a)
  /\ outbox' = Append(outbox, a)
  /\ IF EmailTaken(email)
       THEN UNCHANGED <<accounts, roles>>
       ELSE /\ accounts' = [accounts EXCEPT ![a] = [email |-> email, password |-> password]]
            /\ roles' = roles \cup {<<a, "customer">>}
  /\ UNCHANGED <<sellers, sessionVars, clock, call>>

(* register: account, first role and event; EmailTaken writes nothing. *)
Register(a, email, password) ==
  /\ ~ Exists(a)
  /\ ~ EmailTaken(email)
  /\ accounts' = [accounts EXCEPT ![a] = [email |-> email, password |-> password]]
  /\ roles' = roles \cup {<<a, "customer">>}
  /\ outbox' = Append(outbox, a)
  /\ UNCHANGED <<sellers, sessionVars, clock, call>>

(* Mutant: foreign keys are switched off. *)
GrantRole_NoForeignKey(a, role) ==
  /\ roles' = roles \cup {<<a, role>>}
  /\ UNCHANGED <<accounts, sellers, outbox, sessionVars, clock, call>>

(* grant_role; account_roles refers to accounts. *)
GrantRole(a, role) ==
  /\ Exists(a)
  /\ roles' = roles \cup {<<a, role>>}
  /\ UNCHANGED <<accounts, sellers, outbox, sessionVars, clock, call>>

RevokeRole(a, role) ==
  /\ roles' = roles \ {<<a, role>>}
  /\ UNCHANGED <<accounts, sellers, outbox, sessionVars, clock, call>>

(* register_seller: a second profile is refused, and the role with it. *)
RegisterSeller(a) ==
  /\ Exists(a)
  /\ a \notin sellers
  /\ sellers' = sellers \cup {a}
  /\ roles' = roles \cup {<<a, "seller">>}
  /\ UNCHANGED <<accounts, outbox, sessionVars, clock, call>>

-----------------------------------------------------------------------------
(* find_by_id and authenticate. *)

Ask(c) ==
  /\ At(c, "idle")
  /\ \/ \E a \in Accounts : Goto(c, [at |-> "row", by |-> "id", id |-> a])
     \/ \E email \in Emails, password \in Passwords :
          Goto(c, [at |-> "row", by |-> "email", email |-> email, password |-> password])
  /\ UNCHANGED <<accountVars, sessionVars, clock>>

(* What the first query finds: at most one account. *)
RowsFound(question) ==
  {a \in Accounts :
     Exists(a) /\ (IF question.by = "id" THEN a = question.id
                                         ELSE accounts[a].email = question.email)}

(* SELECT ... FROM accounts; an unknown email goes on to the dummy hash. *)
FetchRow(c) ==
  LET found == RowsFound(call[c]) IN
  /\ At(c, "row")
  /\ \/ \E a \in found : Goto(c, [at |-> "roles", question |-> call[c], account |-> a])
     \/ /\ found = {}
        /\ Goto(c, [at |-> "verify", question |-> call[c], account |-> None, roles |-> {}])
  /\ UNCHANGED <<accountVars, sessionVars, clock>>

(* fetch_roles *)
FetchRoles(c) ==
  /\ At(c, "roles")
  /\ Goto(c, [at |-> "verify", question |-> call[c].question, account |-> call[c].account,
              roles |-> RolesOf(call[c].account)])
  /\ UNCHANGED <<accountVars, sessionVars, clock>>

(* Mutant: the account is returned whatever the comparison gave. *)
Passes_Unfiltered(found) == found.account # None

(* account.filter(|_| ok); find_by_id compares no password. *)
Passes(found) ==
  /\ found.account # None
  /\ found.question.by = "email" =>
       accounts[found.account].password = found.question.password

VerifyPassword(c) ==
  /\ At(c, "verify")
  /\ Goto(c, IF Passes(call[c])
               THEN [at |-> "found", account |-> call[c].account, roles |-> call[c].roles]
               ELSE [at |-> "found", account |-> None])
  /\ UNCHANGED <<accountVars, sessionVars, clock>>

-----------------------------------------------------------------------------
(* SessionRepo. *)

Tick ==
  /\ clock < MaxTime
  /\ clock' = clock + 1
  /\ UNCHANGED <<accountVars, sessionVars, call>>

(* create: an expiry that has passed is refused, ... *)
CheckExpiry(c, t, a, expires) ==
  /\ At(c, "idle")
  /\ t \notin issued
  /\ \A d \in Clients : At(d, "insert") => call[d].token # t
  /\ expires > clock
  /\ Goto(c, [at |-> "insert", token |-> t, account |-> a, expires |-> expires])
  /\ UNCHANGED <<accountVars, sessionVars, clock>>

(* ... then, after an await, the row is written; sessions refers to accounts. *)
InsertSession(c) ==
  /\ At(c, "insert")
  /\ Goto(c, Idle)
  /\ IF Exists(call[c].account)
       THEN /\ sessions' = [sessions EXCEPT ![call[c].token] =
                              [account |-> call[c].account, expires |-> call[c].expires]]
            /\ issued' = issued \cup {call[c].token}
       ELSE UNCHANGED <<sessions, issued>>
  /\ UNCHANGED <<accountVars, revoked, clock>>

(* verify: now_ms is bound, ... *)
BindNow(c, t) ==
  /\ At(c, "idle")
  /\ t \in issued
  /\ Goto(c, [at |-> "lookup", token |-> t, now |-> clock, before |-> revoked])
  /\ UNCHANGED <<accountVars, sessionVars, clock>>

(* Mutant: the expiry is not part of the WHERE. *)
Live_Unexpiring(t, now) == sessions[t] # None

Live(t, now) == sessions[t] # None /\ sessions[t].expires > now

(* ... then the row is looked up. *)
LookUp(c) ==
  LET v == call[c] IN
  /\ At(c, "lookup")
  /\ Goto(c, [at |-> "verified", token |-> v.token, accepted |-> Live(v.token, v.now),
              now |-> v.now, before |-> v.before, session |-> sessions[v.token]])
  /\ UNCHANGED <<accountVars, sessionVars, clock>>

Revoke(t) ==
  /\ t \in issued
  /\ sessions' = [sessions EXCEPT ![t] = None]
  /\ revoked' = revoked \cup {t}
  /\ UNCHANGED <<accountVars, issued, clock, call>>

SessionsOf(a) == {t \in Tokens : sessions[t] # None /\ sessions[t].account = a}

(* Mutant: sessions that have expired are passed over. *)
RevokeAll_LiveOnly(a) ==
  /\ sessions' = [t \in Tokens |->
                    IF t \in SessionsOf(a) /\ Live(t, clock) THEN None ELSE sessions[t]]
  /\ revoked' = revoked \cup SessionsOf(a)
  /\ UNCHANGED <<accountVars, issued, clock, call>>

(* revoke_all_for_account *)
RevokeAll(a) ==
  /\ sessions' = [t \in Tokens |-> IF t \in SessionsOf(a) THEN None ELSE sessions[t]]
  /\ revoked' = revoked \cup SessionsOf(a)
  /\ UNCHANGED <<accountVars, issued, clock, call>>

-----------------------------------------------------------------------------
(* The answer is taken, or the caller drops the call. *)
Return(c) ==
  /\ ~ At(c, "idle")
  /\ Goto(c, Idle)
  /\ UNCHANGED <<accountVars, sessionVars, clock>>

Write ==
  \/ \E a \in Accounts :
       \/ \E email \in Emails, password \in Passwords : Register(a, email, password)
       \/ \E role \in Roles : GrantRole(a, role) \/ RevokeRole(a, role)
       \/ RegisterSeller(a)
       \/ RevokeAll(a)
  \/ \E t \in Tokens : Revoke(t)

Next ==
  \/ Write
  \/ Tick
  \/ \E c \in Clients :
       \/ Ask(c) \/ FetchRow(c) \/ FetchRoles(c) \/ VerifyPassword(c)
       \/ \E t \in Tokens, a \in Accounts, expires \in Times : CheckExpiry(c, t, a, expires)
       \/ InsertSession(c)
       \/ \E t \in Tokens : BindNow(c, t)
       \/ LookUp(c)
       \/ Return(c)

Spec == Init /\ [][Next]_vars
-----------------------------------------------------------------------------
(* Types, and the foreign keys: roles, seller profiles and sessions belong to
   accounts that exist. *)
TypeOK ==
  /\ accounts \in [Accounts -> [email : Emails, password : Passwords] \cup {None}]
  /\ roles \subseteq {a \in Accounts : Exists(a)} \X Roles
  /\ sellers \subseteq {a \in Accounts : Exists(a)}
  /\ outbox \in Seq(Accounts)
  /\ sessions \in [Tokens -> [account : {a \in Accounts : Exists(a)}, expires : Times] \cup {None}]
  /\ clock \in Times
  /\ \A c \in Clients : call[c].at \in {"idle", "row", "roles", "verify", "found",
                                        "insert", "lookup", "verified"}
  /\ revoked \subseteq issued /\ issued \subseteq Tokens

(* Nothing of register is left behind alone: every account is announced by
   exactly one AccountRegistered, a refused registration by none, and no two
   accounts share an email. *)
RegistrationIsWhole ==
  /\ IsInjective(outbox)
  /\ ToSet(outbox) = {a \in Accounts : Exists(a)}
  /\ \A a, b \in Accounts :
       Exists(a) /\ Exists(b) /\ accounts[a].email = accounts[b].email => a = b

(* A session that was revoked, alone or with all of its account, never comes
   back, whatever calls of create and verify were under way and whether it had
   expired by then. *)
RevokedForGood == \A t \in revoked : sessions[t] = None

(* verify accepts only a session that was issued, had not been revoked when the
   call began and had not expired then; and it refuses only one that was revoked
   before the answer or had expired when the call began. *)
VerifyIsRight ==
  \A c \in Clients : At(c, "verified") =>
    LET v == call[c] IN
      IF v.accepted
        THEN v.token \in issued \ v.before /\ v.session.expires > v.now
        ELSE v.token \in revoked \/ v.session.expires <= v.now

-----------------------------------------------------------------------------
(* Refinement: an account is read at the moment its roles are. *)

Profile(a, held) ==
  [email |-> accounts[a].email, password |-> accounts[a].password, roles |-> held]

Question(q) ==
  IF q.by = "id" THEN [by |-> "id", id |-> q.id]
                 ELSE [by |-> "email", email |-> q.email, password |-> q.password]

Asked(q) == [state |-> "asked", question |-> Question(q)]

Answered(found) ==
  IF found.account = None
    THEN [state |-> "answered", account |-> None]
    ELSE [state |-> "answered", account |-> found.account,
          profile |-> Profile(found.account, found.roles)]

AbstractCall(s) ==
  CASE s.at = "row" -> Asked(s)
    [] s.at = "roles" -> Asked(s.question)
    [] s.at = "verify" -> Answered(IF Passes(s) THEN s ELSE [account |-> None])
    [] s.at = "found" -> Answered(s)
    [] OTHER -> [state |-> "idle"]

Directory ==
  INSTANCE AccountDirectory WITH
    directory <- [a \in Accounts |-> IF Exists(a) THEN Profile(a, RolesOf(a)) ELSE None],
    call <- [c \in Clients |-> AbstractCall(call[c])]

(* find_by_id and authenticate answer from one state of the directory between
   call and return, although the account and its roles are read by two queries
   and roles are granted and revoked between them. *)
AnswersAreAtomic == Directory!Spec
=============================================================================
