------------------------ MODULE OutboxRelay_proofs ------------------------
(***************************************************************************)
(* Theorems about OutboxRelay for every number of sources and events, every *)
(* batch size, attempt limit, set of poison events and number of faults.   *)
(***************************************************************************)
EXTENDS OutboxRelay, FiniteSetTheorems, TLAPS

Settled(s, i) == Received(s, i) \/ i \in published[s]

(* The tick in progress: what its locals say about the outbox. *)
LocalsOK ==
  /\ pc = "fetch" => todo = {} /\ delivered = {}
  /\ todo \cap delivered = {}
  /\ todo \cap published[src] = {}
  /\ \A i \in delivered : Received(src, i)
  /\ pc = "dead_letter" =>
       \A i \in Ids : IsNext(i) => attempts[src][i] >= MaxAttempts

(* What the tick has passed is settled, so it works on a settled prefix. *)
PassedIsSettled ==
  \A i \in todo : \A j \in Ids : j < i => j \in todo \/ Settled(src, j)

SettledInOrder ==
  \A s \in Sources : \A i, j \in Ids :
    Received(s, i) /\ j < i => Settled(s, j)

(* Every failed attempt of a healthy event is one of the counted outages. *)
AttemptsAreOutages ==
  /\ \A s \in Sources : \A i \in Ids :
       <<s, i>> \notin Poison => attempts[s][i] <= outages
  /\ pc = "record" =>
       \A i \in Ids : IsNext(i) /\ <<src, i>> \notin Poison
                        => attempts[src][i] < outages

(* An event that may be dispatched again owes each earlier reception to a fault. *)
RedeliveryNeedsFault ==
  \A s \in Sources : \A i \in Ids :
    /\ received[s][i] <= 1 + faults
    /\ i \notin published[s] /\ ~(s = src /\ i \in delivered)
         => received[s][i] <= faults

RelayInv ==
  /\ TypeOK
  /\ LocalsOK
  /\ NoSilentLoss
  /\ PassedIsSettled
  /\ SettledInOrder
  /\ AttemptsAreOutages
  /\ RedeliveryNeedsFault

-----------------------------------------------------------------------------
(* fetch_unpublished returns unpublished rows, and with a row every older
   unpublished one: the LIMIT cuts at the young end. *)
LEMMA FetchIsPrefix ==
  ASSUME TypeOK, NEW s \in Sources
  PROVE  /\ FetchUnpublished(s) \subseteq Unpublished(s)
         /\ \A i \in FetchUnpublished(s) : \A j \in Unpublished(s) :
              j < i => j \in FetchUnpublished(s)
<1>1. FetchUnpublished(s) \subseteq Unpublished(s)
  BY DEF FetchUnpublished
<1>2. ASSUME NEW i \in FetchUnpublished(s), NEW j \in Unpublished(s), j < i
      PROVE  j \in FetchUnpublished(s)
  <2> DEFINE UpTo(k) == {u \in Unpublished(s) : u <= k}
  <2>1. enqueued[s] \in Nat
    BY RelayAssumption DEF TypeOK
  <2>2. IsFiniteSet(1 .. enqueued[s])
    BY <2>1, FS_Interval
  <2>3. IsFiniteSet(UpTo(i))
    BY <2>2, FS_Subset DEF Unpublished
  <2>4. UpTo(j) \subseteq UpTo(i)
    BY <1>1, <1>2, <2>1 DEF Unpublished
  <2>5. Cardinality(UpTo(j)) <= Cardinality(UpTo(i)) /\ IsFiniteSet(UpTo(j))
    BY <2>3, <2>4, FS_Subset
  <2>6. Cardinality(UpTo(i)) <= Batch
    BY DEF FetchUnpublished
  <2>7. Cardinality(UpTo(j)) \in Nat /\ Cardinality(UpTo(i)) \in Nat
    BY <2>3, <2>5, FS_CardinalityType
  <2>8. Cardinality(UpTo(j)) <= Batch
    BY <2>5, <2>6, <2>7, RelayAssumption
  <2> HIDE DEF UpTo
  <2>9. QED
    BY <2>8 DEF FetchUnpublished, UpTo
<1>3. QED
  BY <1>1, <1>2

-----------------------------------------------------------------------------
LEMMA RelayInvInit == Init => RelayInv
<1> SUFFICES ASSUME Init PROVE RelayInv
  OBVIOUS
<1> USE RelayAssumption DEF Init, Sources, Ids
<1>1. TypeOK
  BY DEF TypeOK
<1>2. QED
  BY <1>1 DEF RelayInv, TypeOK, LocalsOK, NoSilentLoss, PassedIsSettled, SettledInOrder,
              AttemptsAreOutages, RedeliveryNeedsFault, Received

-----------------------------------------------------------------------------
(* One lemma per action: it preserves RelayInv. *)

LEMMA EnqueueInv ==
  ASSUME RelayInv, NEW s \in Sources, Enqueue(s)
  PROVE  RelayInv'
<1> USE RelayAssumption DEF Enqueue, RelayInv
<1>1. TypeOK'
  <2>1. /\ enqueued' \in [Sources -> 0 .. MaxEvents]
        /\ \A t \in Sources : 1 .. enqueued[t] \subseteq 1 .. enqueued'[t]
    BY DEF TypeOK
  <2>2. QED
    BY <2>1 DEF TypeOK
<1>2. /\ LocalsOK' /\ NoSilentLoss' /\ PassedIsSettled' /\ SettledInOrder'
      /\ AttemptsAreOutages' /\ RedeliveryNeedsFault'
  BY DEF TypeOK, LocalsOK, NoSilentLoss, PassedIsSettled, SettledInOrder,
         AttemptsAreOutages, RedeliveryNeedsFault, Settled, Received, IsNext
<1>3. QED
  BY <1>1, <1>2

LEMMA FetchInv ==
  ASSUME RelayInv, Fetch
  PROVE  RelayInv'
<1> USE RelayAssumption DEF Fetch, outbox, RelayInv
<1>0. src \in Sources
  BY DEF TypeOK
<1>1. todo' \subseteq Unpublished(src)
  BY <1>0, FetchIsPrefix
<1>2. \A i \in todo' : \A j \in Unpublished(src) : j < i => j \in todo'
  BY <1>0, FetchIsPrefix
<1>3. TypeOK'
  BY <1>1 DEF TypeOK, Unpublished
<1>4. LocalsOK'
  BY <1>1 DEF LocalsOK, Unpublished, Received
<1>5. PassedIsSettled'
  <2> SUFFICES ASSUME NEW i \in todo', NEW j \in Ids, j < i
               PROVE  j \in todo' \/ j \in published[src]
    BY DEF PassedIsSettled, Settled
  <2>1. enqueued[src] \in Nat /\ i \in 1 .. enqueued[src]
    BY <1>0, <1>1 DEF TypeOK, Unpublished
  <2>2. j \in 1 .. enqueued[src]
    BY <2>1 DEF Ids
  <2>3. QED
    BY <1>2, <2>2 DEF Unpublished
<1>6. NoSilentLoss' /\ SettledInOrder' /\ AttemptsAreOutages' /\ RedeliveryNeedsFault'
  BY DEF NoSilentLoss, SettledInOrder, AttemptsAreOutages, RedeliveryNeedsFault,
         Settled, Received
<1>7. QED
  BY <1>3, <1>4, <1>5, <1>6

LEMMA DispatchOkInv ==
  ASSUME RelayInv, NEW i \in Ids, DispatchOk(i)
  PROVE  RelayInv'
<1> USE RelayAssumption DEF DispatchOk, Committed, outbox, RelayInv
<1>0. /\ src \in Sources /\ src' = src /\ i \in todo
      /\ \A j \in todo : i <= j
  BY DEF TypeOK, IsNext
<1>1. TypeOK'
  BY <1>0 DEF TypeOK
<1>2. \A s \in Sources : \A k \in Ids :
        received'[s][k] = IF s = src /\ k = i THEN received[s][k] + 1 ELSE received[s][k]
  BY <1>0 DEF TypeOK
<1>3. \A s \in Sources : \A k \in Ids : received[s][k] \in Nat
  BY DEF TypeOK
<1>4. \A s \in Sources : \A k \in Ids : Received(s, k) => Received(s, k)'
  BY <1>2, <1>3 DEF Received
<1>5. Received(src, i)'
  BY <1>0, <1>2, <1>3 DEF Received
<1>6. todo \subseteq Ids /\ delivered \subseteq Ids
  BY <1>0 DEF TypeOK, Ids
<1>7. LocalsOK'
  BY <1>0, <1>4, <1>5, <1>6 DEF LocalsOK
<1>8. NoSilentLoss'
  BY <1>4 DEF NoSilentLoss, TypeOK
<1>9. PassedIsSettled'
  BY <1>0, <1>4, <1>5, <1>6 DEF PassedIsSettled, Settled
<1>10. SettledInOrder'
  <2> SUFFICES ASSUME NEW s \in Sources, NEW k \in Ids, NEW j \in Ids,
                      Received(s, k)', j < k
               PROVE  Settled(s, j)'
    BY DEF SettledInOrder
  <2>1. CASE Received(s, k)
    BY <2>1, <1>4 DEF SettledInOrder, Settled
  <2>2. CASE ~ Received(s, k)
    <3>1. s = src /\ k = i
      BY <2>2, <1>2, <1>3 DEF Received
    <3>2. j \notin todo
      BY <1>0, <3>1 DEF TypeOK, Ids
    <3>3. Settled(src, j)
      BY <1>0, <3>1, <3>2 DEF PassedIsSettled
    <3>4. QED
      BY <3>1, <3>3, <1>4 DEF Settled
  <2>3. QED
    BY <2>1, <2>2
<1>11. AttemptsAreOutages'
  BY DEF AttemptsAreOutages
<1>12. RedeliveryNeedsFault'
  <2>1. faults \in Nat /\ i \notin published[src] /\ i \notin delivered
    BY <1>0 DEF TypeOK, LocalsOK
  <2>2. received[src][i] <= faults
    BY <1>0, <2>1 DEF RedeliveryNeedsFault
  <2>3. QED
    BY <1>0, <1>2, <1>3, <2>1, <2>2 DEF RedeliveryNeedsFault
<1>13. QED
  BY <1>1, <1>7, <1>8, <1>9, <1>10, <1>11, <1>12

LEMMA DispatchErrInv ==
  ASSUME RelayInv, NEW i \in Ids, DispatchErr(i)
  PROVE  RelayInv'
<1> USE RelayAssumption DEF DispatchErr, RolledBack, outbox, RelayInv
<1>1. TypeOK'
  BY DEF TypeOK
<1>2. LocalsOK' /\ NoSilentLoss' /\ PassedIsSettled' /\ SettledInOrder' /\ RedeliveryNeedsFault'
  BY DEF LocalsOK, NoSilentLoss, PassedIsSettled, SettledInOrder,
         RedeliveryNeedsFault, Settled, Received, IsNext
<1>3. AttemptsAreOutages'
  <2>1. src \in Sources /\ outages \in Nat /\ outages' \in Nat
    BY DEF TypeOK
  <2>2. \A s \in Sources : \A k \in Ids : attempts[s][k] \in Nat
    BY DEF TypeOK
  <2>3. outages' = outages \/ outages' = outages + 1
    OBVIOUS
  <2>4. \A k \in Ids : IsNext(k) => k = i
    BY DEF IsNext, TypeOK, Ids
  <2>5. <<src, i>> \notin Poison => outages' = outages + 1
    OBVIOUS
  <2>6. \A k : IsNext(k)' <=> IsNext(k)
    BY DEF IsNext
  <2>7. QED
    BY <2>1, <2>2, <2>3, <2>4, <2>5, <2>6 DEF AttemptsAreOutages
<1>4. QED
  BY <1>1, <1>2, <1>3

LEMMA RecordFailureInv ==
  ASSUME RelayInv, NEW i \in Ids, RecordFailure(i)
  PROVE  RelayInv'
<1> USE RelayAssumption DEF RecordFailure, LimitReached, RelayInv
<1>0. /\ src \in Sources /\ src' = src
      /\ \A s \in Sources : \A k \in Ids : attempts[s][k] \in Nat
  BY DEF TypeOK
<1>1. TypeOK'
  <2>1. attempts' \in [Sources -> [Ids -> Nat]]
    BY DEF TypeOK
  <2>2. todo' \subseteq todo /\ pc' \in {"dispatch", "dead_letter"}
    OBVIOUS
  <2>3. QED
    BY <2>1, <2>2 DEF TypeOK
<1>2. \A s \in Sources : \A k \in Ids :
        attempts'[s][k] = IF s = src /\ k = i THEN attempts[s][k] + 1 ELSE attempts[s][k]
  BY <1>0 DEF TypeOK
<1>3. \A k \in Ids : IsNext(k) => k = i
  BY DEF IsNext, TypeOK, Ids
<1>4. todo' = todo => \A k : IsNext(k)' <=> IsNext(k)
  BY DEF IsNext
<1>5. LocalsOK'
  <2>1. pc' = "dead_letter" => todo' = todo /\ attempts[src][i] + 1 >= MaxAttempts
    OBVIOUS
  <2>2. pc' = "dead_letter" => \A k \in Ids : IsNext(k)' => attempts'[src][k] >= MaxAttempts
    BY <2>1, <1>0, <1>2, <1>3, <1>4
  <2>3. todo' \subseteq todo /\ pc' # "fetch"
    OBVIOUS
  <2>4. QED
    BY <2>2, <2>3, <1>0 DEF LocalsOK, Received
<1>6. NoSilentLoss'
  <2> SUFFICES ASSUME NEW s \in Sources, NEW k \in published[s], ~ Received(s, k)
               PROVE  attempts'[s][k] >= MaxAttempts
    BY DEF NoSilentLoss, Received
  <2>1. attempts[s][k] >= MaxAttempts /\ k \in Ids
    BY DEF NoSilentLoss, TypeOK
  <2>2. QED
    BY <1>0, <1>2, <2>1
<1>7. PassedIsSettled'
  BY <1>0 DEF PassedIsSettled, Settled, Received
<1>8. SettledInOrder' /\ RedeliveryNeedsFault'
  BY DEF SettledInOrder, RedeliveryNeedsFault, Settled, Received
<1>9. AttemptsAreOutages'
  <2>1. outages' = outages /\ outages \in Nat /\ pc' # "record"
    BY DEF TypeOK
  <2>2. <<src, i>> \notin Poison => attempts[src][i] < outages
    BY DEF AttemptsAreOutages
  <2>3. QED
    BY <1>0, <1>2, <2>1, <2>2 DEF AttemptsAreOutages
<1>10. QED
  BY <1>1, <1>5, <1>6, <1>7, <1>8, <1>9

LEMMA DeadLetterInv ==
  ASSUME RelayInv, NEW i \in Ids, DeadLetter(i)
  PROVE  RelayInv'
<1> USE RelayAssumption DEF DeadLetter, RelayInv
<1>0. /\ src \in Sources /\ src' = src /\ i \in todo /\ i \in 1 .. enqueued[src]
      /\ attempts[src][i] >= MaxAttempts
  BY DEF TypeOK, LocalsOK, IsNext
<1>1. \A s \in Sources :
        published'[s] = IF s = src THEN published[s] \cup {i} ELSE published[s]
  BY <1>0 DEF TypeOK
<1>2. TypeOK'
  BY <1>0, <1>1 DEF TypeOK
<1>3. LocalsOK'
  BY <1>0, <1>1 DEF LocalsOK, Received
<1>4. NoSilentLoss'
  BY <1>0, <1>1 DEF NoSilentLoss, Received
<1>5. PassedIsSettled'
  BY <1>0, <1>1 DEF PassedIsSettled, Settled, Received
<1>6. SettledInOrder'
  BY <1>1 DEF SettledInOrder, Settled, Received
<1>7. AttemptsAreOutages' /\ RedeliveryNeedsFault'
  BY <1>1 DEF AttemptsAreOutages, RedeliveryNeedsFault
<1>8. QED
  BY <1>2, <1>3, <1>4, <1>5, <1>6, <1>7

LEMMA FinishSourceInv ==
  ASSUME RelayInv, FinishSource
  PROVE  RelayInv'
<1> USE RelayAssumption DEF FinishSource, RelayInv
<1>0. src \in Sources /\ src' \in Sources
  BY DEF TypeOK, Sources
<1>1. \A s \in Sources :
        published'[s] = IF s = src THEN published[s] \cup delivered ELSE published[s]
  BY <1>0 DEF TypeOK
<1>2. TypeOK'
  <2>1. delivered \subseteq Ids
    BY <1>0 DEF TypeOK, Ids
  <2>2. QED
    BY <1>0, <1>1, <2>1 DEF TypeOK
<1>3. LocalsOK' /\ PassedIsSettled'
  BY DEF LocalsOK, PassedIsSettled
<1>4. NoSilentLoss'
  BY <1>0, <1>1 DEF NoSilentLoss, LocalsOK, Received
<1>5. SettledInOrder'
  BY <1>1 DEF SettledInOrder, Settled, Received
<1>6. AttemptsAreOutages'
  BY DEF AttemptsAreOutages
<1>7. RedeliveryNeedsFault'
  BY <1>1 DEF RedeliveryNeedsFault
<1>8. QED
  BY <1>2, <1>3, <1>4, <1>5, <1>6, <1>7

LEMMA AbandonTickInv ==
  ASSUME RelayInv, AbandonTick
  PROVE  RelayInv'
<1> USE RelayAssumption DEF AbandonTick, outbox, RelayInv
<1>1. TypeOK'
  BY DEF TypeOK, Sources
<1>2. LocalsOK' /\ PassedIsSettled' /\ NoSilentLoss' /\ SettledInOrder' /\ AttemptsAreOutages'
  BY DEF LocalsOK, PassedIsSettled, NoSilentLoss, SettledInOrder, AttemptsAreOutages,
         Settled, Received
<1>3. RedeliveryNeedsFault'
  <2>1. faults \in Nat /\ faults' = faults + 1
    BY DEF TypeOK
  <2>2. \A s \in Sources : \A i \in Ids : received[s][i] \in Nat
    BY DEF TypeOK
  <2>3. QED
    BY <2>1, <2>2 DEF RedeliveryNeedsFault
<1>4. QED
  BY <1>1, <1>2, <1>3

(* RelayInv is inductive. *)
LEMMA RelayInvNext == RelayInv /\ [Next]_vars => RelayInv'
<1> SUFFICES ASSUME RelayInv, [Next]_vars PROVE RelayInv'
  OBVIOUS
<1>1. ASSUME NEW s \in Sources, Enqueue(s) PROVE RelayInv'
  BY <1>1, EnqueueInv
<1>2. CASE Fetch
  BY <1>2, FetchInv
<1>3. ASSUME NEW i \in Ids,
             DispatchOk(i) \/ DispatchErr(i) \/ RecordFailure(i) \/ DeadLetter(i)
      PROVE  RelayInv'
  BY <1>3, DispatchOkInv, DispatchErrInv, RecordFailureInv, DeadLetterInv
<1>4. CASE FinishSource
  BY <1>4, FinishSourceInv
<1>5. CASE TickError \/ Restart
  BY <1>5, AbandonTickInv DEF TickError, Restart
<1>6. CASE UNCHANGED vars
  BY <1>6 DEF vars, RelayInv, TypeOK, LocalsOK, NoSilentLoss, PassedIsSettled,
              SettledInOrder, AttemptsAreOutages, RedeliveryNeedsFault, Settled,
              Received, IsNext
<1>7. QED
  BY <1>1, <1>2, <1>3, <1>4, <1>5, <1>6 DEF Next, RelayStep

LEMMA RelayInvariant == Spec => []RelayInv
  BY RelayInvInit, RelayInvNext, PTL DEF Spec

-----------------------------------------------------------------------------
(* Type correctness: the relay's locals always name rows of the outbox it is
   working on, and no row is marked that was not written. *)
THEOREM TypeCorrect == Spec => []TypeOK
<1>1. RelayInv => TypeOK
  BY DEF RelayInv
<1>2. QED
  BY <1>1, RelayInvariant, PTL

(* At least once: a published event was committed by the consumer or failed
   MAX_DISPATCH_ATTEMPTS times, under every crash and outbox error. *)
THEOREM AtLeastOnce == Spec => []NoSilentLoss
<1>1. RelayInv => NoSilentLoss
  BY DEF RelayInv
<1>2. QED
  BY <1>1, RelayInvariant, PTL

(* In order: no error path of relay_tick lets an event reach the consumer
   before every older event of its source was committed or given up. *)
THEOREM InOrder == Spec => []NoOvertaking
<1>1. RelayInv => NoOvertaking
  BY DEF RelayInv, NoOvertaking, NoSilentLoss, SettledInOrder, Settled
<1>2. QED
  BY <1>1, RelayInvariant, PTL

(* Duplicates are bounded by the number of outbox errors and restarts. *)
THEOREM DuplicatesBounded == Spec => []DuplicatesComeFromFaults
<1>1. RelayInv => DuplicatesComeFromFaults
  BY DEF RelayInv, DuplicatesComeFromFaults, RedeliveryNeedsFault
<1>2. QED
  BY <1>1, RelayInvariant, PTL

(* An outage of fewer than MAX_DISPATCH_ATTEMPTS dispatches loses no healthy
   event: dead-lettering hits poison only. *)
THEOREM ShortOutageIsHarmless == Spec => []ShortOutageLosesNothing
<1>1. RelayInv => ShortOutageLosesNothing
  <2> SUFFICES ASSUME RelayInv, outages < MaxAttempts, NEW s \in Sources,
                      NEW i \in published[s], <<s, i>> \notin Poison
               PROVE  Received(s, i)
    BY DEF ShortOutageLosesNothing
  <2>1. i \in Ids /\ attempts[s][i] \in Nat /\ outages \in Nat
    BY DEF RelayInv, TypeOK
  <2>2. attempts[s][i] <= outages
    BY <2>1 DEF RelayInv, AttemptsAreOutages
  <2>3. ~ (attempts[s][i] >= MaxAttempts)
    BY <2>1, <2>2, RelayAssumption
  <2>4. QED
    BY <2>3 DEF RelayInv, NoSilentLoss
<1>2. QED
  BY <1>1, RelayInvariant, PTL

-----------------------------------------------------------------------------
(* The refinement of OrderedDelivery. *)

Fates == [s \in Sources |-> [i \in Ids |-> Fate(s, i)]]

(* A step that receives nothing and publishes only what was received leaves
   every fate as it is. *)
LEMMA FatesUnchanged ==
  ASSUME UNCHANGED received,
         \A s \in Sources : published[s] \subseteq published'[s],
         \A s \in Sources : \A i \in published'[s] \ published[s] : Received(s, i)
  PROVE  UNCHANGED Fates
<1>1. \A s \in Sources : \A i \in Ids : Fate(s, i)' = Fate(s, i)
  BY DEF Fate, Received
<1>2. QED
  BY <1>1 DEF Fates

(* The two steps that settle an event are steps of OrderedDelivery: all the
   older events of the source are settled already. *)
LEMMA SettlingStep ==
  ASSUME RelayInv, NEW i \in Ids, NEW q \in Sources, q = src,
         DispatchOk(i) \/ DeadLetter(i)
  PROVE  Delivery!Settle(q, i) \/ UNCHANGED <<enqueued, Fates>>
<1> USE DEF RelayInv
<1>0. /\ src = q /\ src' = q /\ i \in todo /\ i \in 1 .. enqueued[q]
      /\ \A j \in todo : i <= j
      /\ enqueued' = enqueued
  BY DEF TypeOK, IsNext, DispatchOk, Committed, DeadLetter, outbox
<1>1. \A j \in Ids : j < i => Settled(q, j)
  <2> SUFFICES ASSUME NEW j \in Ids, j < i PROVE Settled(q, j)
    OBVIOUS
  <2>1. j \notin todo
    BY <1>0 DEF Ids
  <2>2. QED
    BY <1>0, <2>1 DEF PassedIsSettled
<1>2. i <= enqueued[q] /\ (\A j \in Ids : j < i => Fates[q][j] # "pending")
  BY <1>0, <1>1, RelayAssumption DEF Fates, Fate, Settled, TypeOK
<1>3. \A s \in Sources : \A k \in Ids :
        (s # q \/ k # i) => Fate(s, k)' = Fate(s, k)
  <2>1. CASE DispatchOk(i)
    BY <1>0, <2>1 DEF DispatchOk, Committed, outbox, Fate, Received, TypeOK
  <2>2. CASE DeadLetter(i)
    BY <1>0, <2>2 DEF DeadLetter, Fate, Received, TypeOK
  <2>3. QED
    BY <2>1, <2>2
<1>4. CASE Fate(q, i)' = Fate(q, i)
  <2>1. \A s \in Sources : \A k \in Ids : Fate(s, k)' = Fate(s, k)
    BY <1>3, <1>4
  <2>2. QED
    BY <1>0, <2>1 DEF Fates
<1>5. CASE Fate(q, i)' # Fate(q, i)
  <2>1. Fate(q, i) = "pending"
    <3>1. i \notin published[q]
      BY <1>0 DEF LocalsOK
    <3>2. CASE Received(q, i)
      <4>1. Received(q, i)'
        BY <3>2, <1>0 DEF DispatchOk, Committed, DeadLetter, Received, TypeOK
      <4>2. QED
        BY <3>2, <4>1, <1>5 DEF Fate
    <3>3. QED
      BY <3>1, <3>2 DEF Fate
  <2>2. Fate(q, i)' \in {"delivered", "dropped"}
    BY <2>1, <1>5 DEF Fate
  <2>3. Fates' = [Fates EXCEPT ![q][i] = Fate(q, i)']
    BY <1>0, <1>3 DEF Fates
  <2>4. Fates[q][i] = "pending"
    BY <1>0, <2>1 DEF Fates
  <2>5. QED
    BY <1>0, <1>2, <2>2, <2>3, <2>4
       DEF Delivery!Settle, Delivery!Ids, Delivery!Fates, Ids, Fates
<1>6. QED
  BY <1>4, <1>5

(* The relay implements in-order settlement, each event once. *)
THEOREM RelayImplementsDelivery == Spec => DeliversInOrder
<1>1. Init => Delivery!Init
  BY RelayAssumption DEF Init, Delivery!Init, Delivery!Ids, Ids, Fate, Received
<1>2. RelayInv /\ [Next]_vars => [Delivery!Next]_(Delivery!vars)
  <2> SUFFICES ASSUME RelayInv, [Next]_vars
               PROVE  Delivery!Next \/ UNCHANGED <<enqueued, Fates>>
    BY DEF Delivery!vars, Fates
  <2> USE DEF RelayInv
  <2>1. ASSUME NEW s \in Sources, Enqueue(s)
        PROVE  Delivery!Next
    <3>1. UNCHANGED Fates
      BY <2>1, FatesUnchanged DEF Enqueue
    <3>2. QED
      BY <2>1, <3>1 DEF Enqueue, Fates, Delivery!Next, Delivery!Send
  <2>2. CASE Fetch
    BY <2>2, FatesUnchanged DEF Fetch, outbox
  <2>3. ASSUME NEW i \in Ids, DispatchOk(i) \/ DeadLetter(i)
        PROVE  Delivery!Next \/ UNCHANGED <<enqueued, Fates>>
    BY <2>3, SettlingStep DEF Delivery!Next, Delivery!Ids, Ids, TypeOK
  <2>4. ASSUME NEW i \in Ids, DispatchErr(i) \/ RecordFailure(i)
        PROVE  UNCHANGED <<enqueued, Fates>>
    BY <2>4, FatesUnchanged DEF DispatchErr, RolledBack, RecordFailure, outbox
  <2>5. CASE FinishSource
    <3>1. \A s \in Sources :
            published'[s] = IF s = src THEN published[s] \cup delivered ELSE published[s]
      BY <2>5 DEF FinishSource, TypeOK
    <3>2. UNCHANGED Fates
      BY <2>5, <3>1, FatesUnchanged DEF FinishSource, LocalsOK
    <3>3. QED
      BY <2>5, <3>2 DEF FinishSource
  <2>6. CASE TickError \/ Restart
    BY <2>6, FatesUnchanged DEF TickError, Restart, AbandonTick, outbox
  <2>7. CASE UNCHANGED vars
    BY <2>7, FatesUnchanged DEF vars
  <2>8. QED
    BY <2>1, <2>2, <2>3, <2>4, <2>5, <2>6, <2>7 DEF Next, RelayStep
<1>3. QED
  BY <1>1, <1>2, RelayInvariant, PTL DEF Spec, DeliversInOrder, Delivery!Spec
=============================================================================
