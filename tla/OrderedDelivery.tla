-------------------------- MODULE OrderedDelivery --------------------------
(***************************************************************************)
(* What the relay of crates/db promises its consumers, with no relay in    *)
(* it: each source is a log of events, and the events of one source are    *)
(* settled one after the other, in the order of their ids.  Settling an    *)
(* event either delivers it or drops it (dead-letter); it happens once.    *)
(***************************************************************************)
EXTENDS Naturals

CONSTANTS Sources,   \* the contexts whose outbox is relayed
          MaxEvents  \* bound: events per source

VARIABLES sent,  \* sent[s]: the last id written to the outbox of s
          fate   \* fate[s][i]: what has become of event i of s

vars == <<sent, fate>>

Ids == 1 .. MaxEvents

Fates == {"pending", "delivered", "dropped"}

Init ==
  /\ sent = [s \in Sources |-> 0]
  /\ fate = [s \in Sources |-> [i \in Ids |-> "pending"]]

Send(s) ==
  /\ sent[s] < MaxEvents
  /\ sent' = [sent EXCEPT ![s] = @ + 1]
  /\ UNCHANGED fate

(* The oldest pending event of s, and no other, is delivered or dropped. *)
Settle(s, i) ==
  /\ i <= sent[s]
  /\ fate[s][i] = "pending"
  /\ \A j \in Ids : j < i => fate[s][j] # "pending"
  /\ \E f \in Fates \ {"pending"} : fate' = [fate EXCEPT ![s][i] = f]
  /\ UNCHANGED sent

Next == \E s \in Sources : Send(s) \/ \E i \in Ids : Settle(s, i)

Spec == Init /\ [][Next]_vars
=============================================================================
