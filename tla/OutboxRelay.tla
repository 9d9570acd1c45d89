---------------------------- MODULE OutboxRelay ----------------------------
(***************************************************************************)
(* The transactional outbox and the in-process relay of crates/db:         *)
(* outbox.rs (enqueue, fetch_unpublished, record_failure, mark_published)  *)
(* and relay.rs (relay_tick under run_relay).                              *)
(*                                                                         *)
(* A domain transaction commits an event with the next id of its source's  *)
(* outbox at any moment.  One relay task walks the sources in order; every *)
(* database call it awaits is one step, so commits, errors and restarts    *)
(* fall between any two of them.  The consumer is a Dispatcher whose call  *)
(* commits (Ok) or rolls back (Err); what it does with the event is the    *)
(* business of the modules that extend this one.                           *)
(***************************************************************************)
EXTENDS Naturals, FiniteSets

CONSTANTS
  NumSources,   \* length of `sources`; the relay serves them in this order
  MaxEvents,    \* bound: events written to one outbox
  Batch,        \* the `batch` argument of relay_tick (100 in run_relay)
  MaxAttempts,  \* MAX_DISPATCH_ATTEMPTS (10 in the code)
  Poison,       \* the <<source, id>> whose dispatch fails every time
  MaxOutages,   \* bound: dispatches of healthy events that fail
  MaxFaults     \* bound: failed outbox calls and restarts of the process

Sources == 1 .. NumSources
Ids     == 1 .. MaxEvents

ASSUME RelayAssumption ==
  /\ NumSources \in Nat \ {0}
  /\ MaxEvents \in Nat \ {0}
  /\ Batch \in Nat \ {0}
  /\ MaxAttempts \in Nat \ {0}
  /\ Poison \subseteq Sources \X Ids
  /\ MaxOutages \in Nat
  /\ MaxFaults \in Nat

VARIABLES
  enqueued,   \* enqueued[s]: last id of the outbox of s (rows are never deleted)
  published,  \* published[s]: the ids whose published_at is set
  attempts,   \* attempts[s][i]: the column `attempts`
  received,   \* received[s][i]: how often the consumer committed the event
  pc,         \* where relay_tick stands: "fetch", "dispatch", "record", "dead_letter"
  src,        \* the source relay_tick is working on
  todo,       \* fetched ids relay_tick has not passed yet (it passes them in order)
  delivered,  \* relay_tick's `delivered`: dispatched, not yet marked
  outages,    \* failed dispatches of healthy events so far
  faults      \* outbox errors and restarts so far

outbox == <<enqueued, published, attempts>>
vars   == <<enqueued, published, attempts, received, pc, src, todo, delivered,
            outages, faults>>

Init ==
  /\ enqueued = [s \in Sources |-> 0]
  /\ published = [s \in Sources |-> {}]
  /\ attempts = [s \in Sources |-> [i \in Ids |-> 0]]
  /\ received = [s \in Sources |-> [i \in Ids |-> 0]]
  /\ pc = "fetch"
  /\ src = 1
  /\ todo = {}
  /\ delivered = {}
  /\ outages = 0
  /\ faults = 0

-----------------------------------------------------------------------------
(* The outbox of one context. *)

(* INSERT INTO outbox inside a domain transaction.  The writer pool has one
   connection, so ids are handed out in commit order. *)
Enqueue(s) ==
  /\ enqueued[s] < MaxEvents
  /\ enqueued' = [enqueued EXCEPT ![s] = @ + 1]
  /\ UNCHANGED <<published, attempts, received, pc, src, todo, delivered,
                 outages, faults>>

Unpublished(s) == (1 .. enqueued[s]) \ published[s]

(* Mutant: the WHERE is lost, the oldest events are read again and again. *)
FetchUnpublished_All(s) == {i \in 1 .. enqueued[s] : i <= Batch}

(* Mutant: events that failed are left out one attempt before the limit, so they
   are neither tried again nor given up. *)
FetchUnpublished_Untried(s) ==
  LET due == {i \in Unpublished(s) : attempts[s][i] + 1 < MaxAttempts} IN
    {i \in due : Cardinality({j \in due : j <= i}) <= Batch}

(* WHERE published_at IS NULL ORDER BY id LIMIT batch *)
FetchUnpublished(s) ==
  {i \in Unpublished(s) :
     Cardinality({j \in Unpublished(s) : j <= i}) <= Batch}

-----------------------------------------------------------------------------
(* relay_tick, one step per awaited call. *)

(* Mutant: the ORDER BY is lost. *)
IsNext_Any(i) == i \in todo

IsNext(i) == i \in todo /\ \A j \in todo : i <= j

Fetch ==
  /\ pc = "fetch"
  /\ todo' = FetchUnpublished(src)
  /\ pc' = "dispatch"
  /\ UNCHANGED <<outbox, received, src, delivered, outages, faults>>

(* dispatch returns Ok: the consumer's transaction is committed. *)
Committed(i) ==
  /\ pc = "dispatch"
  /\ IsNext(i)
  /\ received' = [received EXCEPT ![src][i] = @ + 1]
  /\ delivered' = delivered \cup {i}
  /\ todo' = todo \ {i}
  /\ UNCHANGED <<outbox, pc, src, outages, faults>>

(* dispatch returns Err: the consumer's transaction is rolled back. *)
RolledBack(i) ==
  /\ pc = "dispatch"
  /\ IsNext(i)
  /\ pc' = "record"
  /\ UNCHANGED <<outbox, received, src, todo, delivered, faults>>

DispatchOk(i) == <<src, i>> \notin Poison /\ Committed(i)

(* A poison event fails by itself, a healthy one in an outage of the consumer. *)
DispatchErr(i) ==
  /\ RolledBack(i)
  /\ \/ <<src, i>> \in Poison /\ UNCHANGED outages
     \/ /\ <<src, i>> \notin Poison
        /\ outages < MaxOutages
        /\ outages' = outages + 1

(* Mutant: an attempt too few. *)
LimitReached_Early(n) == n >= MaxAttempts - 1

LimitReached(n) == n >= MaxAttempts

(* Mutant: the failed event is stepped over, the batch goes on. *)
RecordFailure_NoBreak(i) ==
  /\ pc = "record"
  /\ IsNext(i)
  /\ attempts' = [attempts EXCEPT ![src][i] = @ + 1]
  /\ IF LimitReached(attempts[src][i] + 1)
       THEN pc' = "dead_letter" /\ UNCHANGED todo
       ELSE pc' = "dispatch" /\ todo' = todo \ {i}
  /\ UNCHANGED <<enqueued, published, received, src, delivered, outages, faults>>

(* record_failure; below the limit the loop over this batch breaks. *)
RecordFailure(i) ==
  /\ pc = "record"
  /\ IsNext(i)
  /\ attempts' = [attempts EXCEPT ![src][i] = @ + 1]
  /\ IF LimitReached(attempts[src][i] + 1)
       THEN pc' = "dead_letter" /\ UNCHANGED todo
       ELSE pc' = "dispatch" /\ todo' = {}
  /\ UNCHANGED <<enqueued, published, received, src, delivered, outages, faults>>

(* mark_published(&[ev.id]) of the event whose limit is reached. *)
DeadLetter(i) ==
  /\ pc = "dead_letter"
  /\ IsNext(i)
  /\ published' = [published EXCEPT ![src] = @ \cup {i}]
  /\ todo' = todo \ {i}
  /\ pc' = "dispatch"
  /\ UNCHANGED <<enqueued, attempts, received, src, delivered, outages, faults>>

(* Mutant: `delivered` outlives the source it belongs to. *)
FinishSource_KeepsDelivered ==
  /\ pc = "dispatch"
  /\ todo = {}
  /\ published' = [published EXCEPT ![src] = @ \cup delivered]
  /\ src' = IF src = NumSources THEN 1 ELSE src + 1
  /\ pc' = "fetch"
  /\ UNCHANGED <<enqueued, attempts, received, todo, delivered, outages, faults>>

(* The batch is over, by its end or by the break: mark_published(&delivered)
   in one transaction, and on to the next source (or to the next tick). *)
FinishSource ==
  /\ pc = "dispatch"
  /\ todo = {}
  /\ published' = [published EXCEPT ![src] = @ \cup delivered]
  /\ delivered' = {}
  /\ src' = IF src = NumSources THEN 1 ELSE src + 1
  /\ pc' = "fetch"
  /\ UNCHANGED <<enqueued, attempts, received, todo, outages, faults>>

-----------------------------------------------------------------------------
(* What ends a tick early.  The locals are lost, the outbox stays. *)

AbandonTick ==
  /\ faults < MaxFaults
  /\ faults' = faults + 1
  /\ pc' = "fetch"
  /\ src' = 1
  /\ todo' = {}
  /\ delivered' = {}
  /\ UNCHANGED <<outbox, received, outages>>

(* An outbox call fails and `?` leaves relay_tick; run_relay logs, sleeps and
   starts the next tick at the first source. *)
TickError ==
  /\ \/ pc \in {"fetch", "record", "dead_letter"}
     \/ pc = "dispatch" /\ todo = {} /\ delivered # {}
  /\ AbandonTick

(* The process stops, between any two steps, and is started again. *)
Restart == AbandonTick

-----------------------------------------------------------------------------
RelayStep ==
  \/ Fetch
  \/ \E i \in Ids : \/ DispatchOk(i)
                    \/ DispatchErr(i)
                    \/ RecordFailure(i)
                    \/ DeadLetter(i)
  \/ FinishSource

Next ==
  \/ \E s \in Sources : Enqueue(s)
  \/ RelayStep
  \/ TickError
  \/ Restart

Spec == Init /\ [][Next]_vars

(* run_relay loops for ever, so the relay always takes its next step. *)
FairSpec == Spec /\ WF_vars(RelayStep)

-----------------------------------------------------------------------------
(* Type correctness: the relay's locals name rows of the outbox it is
   working on, and nothing is marked that was never written. *)
TypeOK ==
  /\ enqueued \in [Sources -> 0 .. MaxEvents]
  /\ published \in [Sources -> SUBSET Ids]
  /\ \A s \in Sources : published[s] \subseteq 1 .. enqueued[s]
  /\ attempts \in [Sources -> [Ids -> Nat]]
  /\ received \in [Sources -> [Ids -> Nat]]
  /\ pc \in {"fetch", "dispatch", "record", "dead_letter"}
  /\ src \in Sources
  /\ todo \subseteq 1 .. enqueued[src]
  /\ delivered \subseteq 1 .. enqueued[src]
  /\ outages \in 0 .. MaxOutages
  /\ faults \in 0 .. MaxFaults

Received(s, i) == received[s][i] > 0

(* relay.rs:4 "at-least-once": an event leaves the queue only if the consumer
   committed it or it failed MAX_DISPATCH_ATTEMPTS times, whatever outbox
   calls failed and wherever the process stopped. *)
NoSilentLoss ==
  \A s \in Sources : \A i \in published[s] :
    Received(s, i) \/ attempts[s][i] >= MaxAttempts

(* relay.rs:4 "ordered by id": when the consumer has committed an event, every
   older event of that source has been committed too, or was given up after
   MAX_DISPATCH_ATTEMPTS; no error path lets a young event overtake. *)
NoOvertaking ==
  \A s \in Sources : \A i, j \in Ids :
    Received(s, i) /\ j < i => Received(s, j) \/ attempts[s][j] >= MaxAttempts

(* The consumer sees a duplicate only because of a failed outbox call or a
   restart, and one of those duplicates an event at most once: the break of a
   failed dispatch does not lose the marks of what came before it. *)
DuplicatesComeFromFaults ==
  \A s \in Sources : \A i \in Ids : received[s][i] <= 1 + faults

(* Fewer failed dispatches in all than MAX_DISPATCH_ATTEMPTS never cost a
   healthy event: only an outage of that many ticks can dead-letter one. *)
ShortOutageLosesNothing ==
  outages < MaxAttempts =>
    \A s \in Sources : \A i \in published[s] :
      <<s, i>> \notin Poison => Received(s, i)

(* The relay implements in-order, exactly-once settlement of each source. *)
Fate(s, i) ==
  IF Received(s, i) THEN "delivered"
  ELSE IF i \in published[s] THEN "dropped" ELSE "pending"

Delivery == INSTANCE OrderedDelivery
              WITH sent <- enqueued,
                   fate <- [s \in Sources |-> [i \in Ids |-> Fate(s, i)]]

DeliversInOrder == Delivery!Spec

(* relay.rs:42-44: a poison pill does not block the queue for ever, nor does
   one source another: every event written is published in the end. *)
EventuallyPublished ==
  \A s \in Sources : \A i \in Ids :
    i <= enqueued[s] ~> i \in published[s]
=============================================================================
