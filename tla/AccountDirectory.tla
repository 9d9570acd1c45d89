-------------------------- MODULE AccountDirectory --------------------------
(***************************************************************************)
(* What crates/identity promises a caller of AccountRepo: accounts with    *)
(* their roles are one object, and a question about an account is answered *)
(* from one state of that object, at some moment between call and return.  *)
(***************************************************************************)
CONSTANTS Accounts, Emails, Passwords, Roles, Clients, None

VARIABLES
  directory,  \* directory[a]: the account a with its roles, or None
  call        \* call[c]: the question of client c, or the answer to it

vars == <<directory, call>>

Profiles == [email : Emails, password : Passwords, roles : SUBSET Roles]

Idle == [state |-> "idle"]

Init ==
  /\ directory = [a \in Accounts |-> None]
  /\ call = [c \in Clients |-> Idle]

(* An account appears with its first role; no two have the same email. *)
Enroll(a, email, password) ==
  /\ directory[a] = None
  /\ \A b \in Accounts : directory[b] # None => directory[b].email # email
  /\ directory' = [directory EXCEPT ![a] = [email |-> email, password |-> password,
                                            roles |-> {"customer"}]]
  /\ UNCHANGED call

ChangeRoles(a, roles) ==
  /\ directory[a] # None
  /\ directory' = [directory EXCEPT ![a].roles = roles]
  /\ UNCHANGED call

(* The one account a question can be about: named by its id, or by email and
   the right password. *)
Matches(a, question) ==
  /\ directory[a] # None
  /\ IF question.by = "id"
       THEN a = question.id
       ELSE /\ directory[a].email = question.email
            /\ directory[a].password = question.password

Questions ==
  [by : {"id"}, id : Accounts]
  \cup [by : {"email"}, email : Emails, password : Passwords]

Ask(c, question) ==
  /\ call[c] = Idle
  /\ call' = [call EXCEPT ![c] = [state |-> "asked", question |-> question]]
  /\ UNCHANGED directory

(* All of the answer is taken from the present state. *)
Answer(c) ==
  /\ call[c].state = "asked"
  /\ LET found == {a \in Accounts : Matches(a, call[c].question)} IN
       \/ /\ found = {}
          /\ call' = [call EXCEPT ![c] = [state |-> "answered", account |-> None]]
       \/ \E a \in found :
            call' = [call EXCEPT ![c] = [state |-> "answered", account |-> a,
                                         profile |-> directory[a]]]
  /\ UNCHANGED directory

(* The answer is taken, or the call is given up. *)
Leave(c) ==
  /\ call[c] # Idle
  /\ call' = [call EXCEPT ![c] = Idle]
  /\ UNCHANGED directory

Next ==
  \/ \E a \in Accounts, email \in Emails, password \in Passwords :
       Enroll(a, email, password)
  \/ \E a \in Accounts, roles \in SUBSET Roles : ChangeRoles(a, roles)
  \/ \E c \in Clients :
       \/ \E question \in Questions : Ask(c, question)
       \/ Answer(c)
       \/ Leave(c)

Spec == Init /\ [][Next]_vars
=============================================================================
