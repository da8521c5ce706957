--------------------------- MODULE WebhookProofs ---------------------------
(***************************************************************************)
(* Proofs about WebhookIntake: what an open delivery has inserted is       *)
(* neither committed nor inserted by another one, and what it has skipped  *)
(* is committed.  From this follow the two invariants and the refinement   *)
(* of Inbox.                                                               *)
(***************************************************************************)
EXTENDS WebhookIntake, TLAPS

\* What a handler may be in the middle of.
Handlers ==
    /\ delivery \in [Deliveries -> Delivery]
    /\ \A d \in Deliveries : delivery[d].pc # "idle" => delivery[d].batch \in Batches

\* Inserted rows are new, and two open transactions never hold the same one.
RowsAreNew ==
    \A d \in Deliveries : delivery[d].pc = "open" =>
        /\ delivery[d].rows \cap stored = {}
        /\ delivery[d].rows \subseteq EventsOf(delivery[d].batch)
        /\ \A k \in Deliveries \ {d} :
              delivery[k].pc = "open" => delivery[d].rows \cap delivery[k].rows = {}

\* The notifications before "next" are well-formed, and inserted or duplicates.
PassedAreKept ==
    \A d \in Deliveries : delivery[d].pc = "open" =>
        \A i \in 1 .. (delivery[d].next - 1) :
            i \in DOMAIN delivery[d].batch =>
                delivery[d].batch[i] \in Events \cap (stored \cup delivery[d].rows)

\* A success is written only after the commit.
SuccessIsStored ==
    \A d \in Deliveries : delivery[d].pc = "answered" /\ delivery[d].ok =>
        EventsOf(delivery[d].batch) \subseteq stored

IInv ==
    /\ stored \subseteq Events
    /\ Handlers
    /\ RowsAreNew
    /\ PassedAreKept
    /\ SuccessIsStored
    /\ AckedIsStored
    /\ OneJobPerEvent

-----------------------------------------------------------------------------
\* The empty inbox satisfies the invariant.
LEMMA InitIInv == Init => IInv
BY DEF Init, IInv, Handlers, RowsAreNew, PassedAreKept, SuccessIsStored, AckedIsStored,
       OneJobPerEvent, Delivery, Idle

\* A delivery that starts, or ends without a commit, frees what it had inserted;
\* the others keep theirs.
LEMMA ReplaceDelivery ==
    ASSUME IInv, NEW d \in Deliveries, NEW t \in Delivery,
           delivery' = [delivery EXCEPT ![d] = t],
           UNCHANGED <<stored, jobs>>,
           t.pc # "idle" => t.batch \in Batches,
           t.pc = "open" => t.rows = {} /\ t.next = 1,
           t.pc = "answered" => ~t.ok
    PROVE  /\ Handlers' /\ RowsAreNew' /\ PassedAreKept' /\ SuccessIsStored'
           /\ OneJobPerEvent' /\ (stored \subseteq Events)'
  <1>1. \A k \in Deliveries : delivery'[k] = IF k = d THEN t ELSE delivery[k]
    BY DEF IInv, Handlers
  <1>2. Handlers'
    BY <1>1 DEF IInv, Handlers
  <1>3. RowsAreNew'
    BY <1>1 DEF IInv, Handlers, RowsAreNew, EventsOf
  <1>4. PassedAreKept'
    BY <1>1 DEF IInv, Handlers, PassedAreKept
  <1>5. SuccessIsStored'
    BY <1>1 DEF IInv, SuccessIsStored, EventsOf
  <1> QED
    BY <1>2, <1>3, <1>4, <1>5 DEF IInv, OneJobPerEvent

\* What the provider does leaves handlers and tables alone.
LEMMA SendStep == ASSUME IInv, NEW b \in Batches, Send(b) PROVE IInv'
BY DEF Send, IInv, Handlers, RowsAreNew, PassedAreKept, SuccessIsStored, AckedIsStored,
       OneJobPerEvent, EventsOf

\* A new delivery has inserted nothing.
LEMMA DeliverStep ==
    ASSUME IInv, NEW d \in Deliveries, NEW b \in Batches, Deliver(d, b) PROVE IInv'
  <1> DEFINE t == Open(b, 1, {})
  <1>1. t \in Delivery /\ t.pc = "open" /\ t.batch = b /\ t.rows = {} /\ t.next = 1
    BY DEF Open, Delivery
  <1>2. delivery' = [delivery EXCEPT ![d] = t] /\ UNCHANGED <<stored, jobs, acked>>
    BY DEF Deliver
  <1> HIDE DEF t
  <1>3. Handlers' /\ RowsAreNew' /\ PassedAreKept' /\ SuccessIsStored'
        /\ OneJobPerEvent' /\ (stored \subseteq Events)'
    BY <1>1, <1>2, ReplaceDelivery
  <1> QED
    BY <1>2, <1>3 DEF IInv, AckedIsStored, EventsOf

\* A delivery that is refused, aborted or chosen to break a deadlock.
LEMMA RollbackStep ==
    ASSUME IInv, NEW d \in Deliveries, delivery[d].pc = "open",
           delivery' = [delivery EXCEPT ![d] = Answered(d, FALSE)],
           UNCHANGED <<stored, jobs, acked>>
    PROVE  IInv'
  <1> DEFINE t == Answered(d, FALSE)
  <1>1. t \in Delivery /\ t.pc = "answered" /\ ~t.ok /\ t.batch = delivery[d].batch
    BY DEF Answered, IInv, Handlers, Delivery
  <1>2. t.batch \in Batches
    BY <1>1 DEF IInv, Handlers
  <1>3. delivery' = [delivery EXCEPT ![d] = t]
    OBVIOUS
  <1> HIDE DEF t
  <1>4. Handlers' /\ RowsAreNew' /\ PassedAreKept' /\ SuccessIsStored'
        /\ OneJobPerEvent' /\ (stored \subseteq Events)'
    BY <1>1, <1>2, <1>3, ReplaceDelivery
  <1> QED
    BY <1>4 DEF IInv, AckedIsStored, EventsOf

\* The answer reaches the provider, or not.
LEMMA AnswerStep ==
    ASSUME IInv, NEW d \in Deliveries, Acknowledge(d) \/ LoseAnswer(d) PROVE IInv'
  <1>1. Idle \in Delivery /\ Idle.pc = "idle"
    BY DEF Idle, Delivery
  <1>2. delivery' = [delivery EXCEPT ![d] = Idle] /\ UNCHANGED <<stored, jobs>>
    BY DEF Acknowledge, LoseAnswer
  <1>3. Handlers' /\ RowsAreNew' /\ PassedAreKept' /\ SuccessIsStored'
        /\ OneJobPerEvent' /\ (stored \subseteq Events)'
    BY <1>1, <1>2, ReplaceDelivery
  <1>4. AckedIsStored'
    BY <1>2 DEF IInv, AckedIsStored, SuccessIsStored, Acknowledge, LoseAnswer, EventsOf
  <1> QED
    BY <1>3, <1>4 DEF IInv

\* A notification is inserted only if nobody has it: the index waited for every
\* other open transaction.
LEMMA InsertStep == ASSUME IInv, NEW d \in Deliveries, Insert(d) PROVE IInv'
  <1> DEFINE b == delivery[d].batch
             n == delivery[d].next
             e == b[n]
             rows == IF Duplicate(d, e) THEN delivery[d].rows ELSE delivery[d].rows \cup {e}
             t == Open(b, n + 1, rows)
  <1>1. /\ delivery[d] \in Delivery /\ delivery[d].pc = "open" /\ b \in Batches
        /\ n \in Nat /\ delivery[d].rows \subseteq Events
    BY DEF Insert, Pending, IInv, Handlers, Delivery
  <1>2. b \in Seq(Events \cup {Malformed})
    BY <1>1, IntakeAssumption
  <1>3. e # Malformed /\ ~MustWait(d, e) /\ n <= Len(b)
    BY DEF Insert, Pending, Usable, Current
  <1>4. n \in DOMAIN b => e \in Events
    BY <1>2, <1>3
  <1>5. e \in Events
    BY <1>1, <1>2, <1>3 DEF Delivery
  <1>6. /\ t \in Delivery /\ t.pc = "open" /\ t.batch = b /\ t.next = n + 1 /\ t.rows = rows
    <2>1. rows \subseteq Events /\ n + 1 \in Nat \ {0}
      BY <1>1, <1>5 DEF Delivery
    <2> HIDE DEF rows
    <2> QED
      BY <2>1, <1>1 DEF Open, Delivery
  <1>7. \A k \in Deliveries : delivery'[k] = IF k = d THEN t ELSE delivery[k]
    BY DEF Insert, Current, IInv, Handlers
  <1>8. UNCHANGED <<stored, jobs, acked>>
    BY DEF Insert
  <1>9. \A k \in Deliveries \ {d} : delivery[k].pc = "open" => e \notin delivery[k].rows
    BY <1>3 DEF MustWait, InsertedBy
  <1>10. /\ delivery[d].rows \subseteq rows /\ rows \subseteq delivery[d].rows \cup {e}
         /\ e \in stored \cup rows
         /\ e \in stored => rows = delivery[d].rows
    BY DEF Duplicate
  <1>11. e \in EventsOf(b)
    BY <1>1, <1>2, <1>3 DEF EventsOf, Delivery
  <1> HIDE DEF t, rows
  <1>12. Handlers'
    BY <1>1, <1>6, <1>7, Zenon DEF IInv, Handlers, Insert
  <1>13. RowsAreNew'
    <2>1. /\ rows \cap stored = {} /\ rows \subseteq EventsOf(b)
          /\ \A k \in Deliveries \ {d} :
                delivery[k].pc = "open" => rows \cap delivery[k].rows = {}
      BY <1>1, <1>9, <1>10, <1>11 DEF IInv, RowsAreNew
    <2> QED
      BY <2>1, <1>6, <1>7, <1>8 DEF IInv, RowsAreNew, EventsOf
  <1>14. PassedAreKept'
    <2>1. \A i \in 1 .. n : i \in DOMAIN b => b[i] \in Events \cap (stored \cup rows)
      BY <1>1, <1>5, <1>10 DEF IInv, PassedAreKept
    <2> QED
      BY <2>1, <1>1, <1>6, <1>7, <1>8 DEF IInv, PassedAreKept
  <1>15. SuccessIsStored'
    BY <1>6, <1>7, <1>8 DEF IInv, SuccessIsStored, EventsOf
  <1> QED
    BY <1>8, <1>12, <1>13, <1>14, <1>15 DEF IInv, AckedIsStored, OneJobPerEvent, EventsOf

\* When the loop is over, every notification of the batch is an event that is
\* committed or among the rows.
LEMMA LoopIsOver ==
    ASSUME IInv, NEW d \in Deliveries, delivery[d].pc = "open", ~Pending(d)
    PROVE  /\ EventsOf(delivery[d].batch) \subseteq Events
           /\ stored \cup EventsOf(delivery[d].batch) = stored \cup delivery[d].rows
  <1> DEFINE b == delivery[d].batch
  <1>1. b \in Seq(Events \cup {Malformed}) /\ delivery[d].next \in Nat \ {0}
    BY IntakeAssumption DEF IInv, Handlers, Delivery
  <1>2. \A i \in DOMAIN b : i \in 1 .. (delivery[d].next - 1)
    BY <1>1 DEF Pending
  <1>3. EventsOf(b) \subseteq Events \cap (stored \cup delivery[d].rows)
    BY <1>2 DEF IInv, PassedAreKept, EventsOf
  <1> QED
    BY <1>3 DEF IInv, RowsAreNew

\* The commit moves the rows, which are new, to the tables.
LEMMA CommitStep == ASSUME IInv, NEW d \in Deliveries, Commit(d) PROVE IInv'
  <1> DEFINE t == Answered(d, TRUE)
             rows == delivery[d].rows
  <1>1. delivery[d].pc = "open" /\ ~Pending(d) /\ stored' = stored \cup rows /\ acked' = acked
    BY DEF Commit
  <1>2. t \in Delivery /\ t.pc = "answered" /\ t.batch = delivery[d].batch
    BY DEF Answered, IInv, Handlers, Delivery
  <1>3. \A k \in Deliveries : delivery'[k] = IF k = d THEN t ELSE delivery[k]
    BY DEF Commit, IInv, Handlers
  <1>4. delivery' = [delivery EXCEPT ![d] = t]
    BY DEF Commit
  <1> HIDE DEF t
  <1>5. rows \subseteq Events /\ rows \cap stored = {}
    BY <1>1 DEF IInv, Handlers, RowsAreNew, Delivery
  <1>6. Handlers'
    BY <1>1, <1>2, <1>4 DEF IInv, Handlers
  <1>7. RowsAreNew'
    BY <1>1, <1>2, <1>3 DEF IInv, RowsAreNew, EventsOf
  <1>8. PassedAreKept'
    BY <1>1, <1>2, <1>3 DEF IInv, PassedAreKept
  <1>9. SuccessIsStored'
    <2>1. EventsOf(delivery[d].batch) \subseteq stored'
      BY <1>1, LoopIsOver
    <2> QED
      BY <2>1, <1>1, <1>2, <1>3 DEF IInv, SuccessIsStored, EventsOf
  <1>10. OneJobPerEvent'
    BY <1>1, <1>5 DEF IInv, OneJobPerEvent, Commit
  <1> QED
    BY <1>1, <1>5, <1>6, <1>7, <1>8, <1>9, <1>10 DEF IInv, AckedIsStored, EventsOf

-----------------------------------------------------------------------------
\* Every action, and the stutter, keeps the invariant.
LEMMA NextIInv == IInv /\ [Next]_vars => IInv'
  <1> SUFFICES ASSUME IInv, [Next]_vars PROVE IInv'
    OBVIOUS
  <1>1. ASSUME NEW b \in Batches, Send(b) PROVE IInv'
    BY <1>1, SendStep
  <1>2. ASSUME NEW d \in Deliveries, NEW b \in Batches, Deliver(d, b) PROVE IInv'
    BY <1>2, DeliverStep
  <1>3. ASSUME NEW d \in Deliveries, Insert(d) PROVE IInv'
    BY <1>3, InsertStep
  <1>4. ASSUME NEW d \in Deliveries, Refuse(d) \/ Abort(d) \/ BreakDeadlock(d) PROVE IInv'
    <2>1. delivery[d].pc = "open"
      BY <1>4 DEF Refuse, Abort, BreakDeadlock, Deadlocked, Cycle, WaitsFor, Pending
    <2> QED
      BY <1>4, <2>1, RollbackStep DEF Refuse, Abort, BreakDeadlock
  <1>5. ASSUME NEW d \in Deliveries, Commit(d) PROVE IInv'
    BY <1>5, CommitStep
  <1>6. ASSUME NEW d \in Deliveries, Acknowledge(d) \/ LoseAnswer(d) PROVE IInv'
    BY <1>6, AnswerStep
  <1>7. CASE UNCHANGED vars
    BY <1>7 DEF vars, IInv, Handlers, RowsAreNew, PassedAreKept, SuccessIsStored,
                AckedIsStored, OneJobPerEvent, EventsOf
  <1> QED
    BY <1>1, <1>2, <1>3, <1>4, <1>5, <1>6, <1>7 DEF Next, Handle

\* The invariant that carries the theorems below.
THEOREM Safety == Spec => []IInv
BY InitIInv, NextIInv, PTL DEF Spec

\* Only what the provider has sent is handled, and acknowledged in the end.
SentFirst ==
    /\ sent \subseteq Batches /\ acked \subseteq sent
    /\ aborts \in 0 .. MaxAborts
    /\ \A d \in Deliveries : delivery[d].pc # "idle" => delivery[d].batch \in sent

\* Every action keeps to what was sent.
LEMMA NextSentFirst == IInv /\ SentFirst /\ [Next]_vars => SentFirst'
  <1> SUFFICES ASSUME IInv, SentFirst, [Next]_vars PROVE SentFirst'
    OBVIOUS
  <1> USE DEF SentFirst
  <1>1. delivery \in [Deliveries -> Delivery] /\ MaxAborts \in Nat
    BY IntakeAssumption DEF IInv, Handlers
  <1>2. ASSUME NEW b \in Batches, Send(b) PROVE SentFirst'
    BY <1>2 DEF Send
  <1>3. ASSUME NEW d \in Deliveries, NEW b \in Batches, Deliver(d, b) PROVE SentFirst'
    <2>1. Open(b, 1, {}).batch = b /\ b \in sent
      BY <1>3 DEF Deliver, Open
    <2> QED
      BY <1>1, <1>3, <2>1 DEF Deliver
  <1>4. ASSUME NEW d \in Deliveries, NEW t, t.batch = delivery[d].batch, delivery[d].pc = "open",
               delivery' = [delivery EXCEPT ![d] = t], UNCHANGED <<sent, acked>>,
               aborts' \in 0 .. MaxAborts
        PROVE  SentFirst'
    BY <1>1, <1>4
  <1>5. ASSUME NEW d \in Deliveries, Handle(d) \/ Abort(d) PROVE SentFirst'
    <2>1. delivery[d].pc = "open" /\ UNCHANGED <<sent, acked>> /\ aborts' \in 0 .. MaxAborts
      <3>1. CASE Handle(d)
        <4>1. delivery[d].pc = "open"
          BY <3>1 DEF Handle, Insert, Refuse, Commit, BreakDeadlock, Pending, Deadlocked, Cycle,
                      WaitsFor
        <4>2. UNCHANGED <<sent, acked, aborts>>
          BY <3>1 DEF Handle, Insert, Refuse, Commit, BreakDeadlock
        <4> QED
          BY <4>1, <4>2
      <3>2. CASE Abort(d)
        BY <1>1, <3>2 DEF Abort
      <3> QED
        BY <1>5, <3>1, <3>2
    <2>2. \A ok : Answered(d, ok).batch = delivery[d].batch
      BY <1>1 DEF Answered, Delivery
    <2>3. CASE Insert(d)
      <3>1. \A n, rows : Open(delivery[d].batch, n, rows).batch = delivery[d].batch
        BY DEF Open
      <3> QED
        BY <1>4, <2>1, <2>3, <3>1 DEF Insert
    <2>4. CASE \E ok \in BOOLEAN : delivery' = [delivery EXCEPT ![d] = Answered(d, ok)]
      BY <1>4, <2>1, <2>2, <2>4
    <2> QED
      BY <1>5, <2>3, <2>4 DEF Handle, Refuse, Commit, BreakDeadlock, Abort
  <1>6. ASSUME NEW d \in Deliveries, Acknowledge(d) \/ LoseAnswer(d) PROVE SentFirst'
    <2>1. Idle.pc = "idle"
      BY DEF Idle
    <2>2. acked' \subseteq sent /\ sent' = sent /\ aborts' \in 0 .. MaxAborts
      BY <1>1, <1>6 DEF Acknowledge, LoseAnswer
    <2>3. delivery' = [delivery EXCEPT ![d] = Idle]
      BY <1>6 DEF Acknowledge, LoseAnswer
    <2> QED
      BY <1>1, <2>1, <2>2, <2>3
  <1>7. CASE UNCHANGED vars
    BY <1>7 DEF vars
  <1> QED
    BY <1>2, <1>3, <1>5, <1>6, <1>7 DEF Next

\* Tables, deliveries and the provider's batches keep their types, and nothing is
\* acknowledged that was not sent.
THEOREM TypeCorrect == Spec => []TypeOK
  <1>1. Init => SentFirst
    BY IntakeAssumption DEF Init, SentFirst, Idle
  <1>2. IInv /\ SentFirst => TypeOK
    BY DEF IInv, SentFirst, TypeOK, Handlers, OneJobPerEvent
  <1> QED
    BY <1>1, <1>2, NextSentFirst, Safety, PTL DEF Spec

\* However deliveries overlap and die, the provider is told of a success only
\* when the events are stored.
THEOREM AcknowledgedIsDurable == Spec => []AckedIsStored
  <1>1. IInv => AckedIsStored
    BY DEF IInv
  <1> QED
    BY Safety, <1>1, PTL

\* Stored events and their jobs correspond one to one.
THEOREM JobsAreUnique == Spec => []OneJobPerEvent
  <1>1. IInv => OneJobPerEvent
    BY DEF IInv
  <1> QED
    BY Safety, <1>1, PTL

-----------------------------------------------------------------------------
(* The refinement                                                          *)

\* Both start with an empty inbox.
LEMMA InitPromise == Init => Promise!Init
BY DEF Init, Promise!Init, Promise!JobsFor

\* A commit stores its batch as a whole: what it does not insert was stored.
LEMMA CommitStores ==
    ASSUME IInv, NEW d \in Deliveries, Commit(d) PROVE Promise!Store(delivery[d].batch)
  <1> DEFINE b == delivery[d].batch
             rows == delivery[d].rows
  <1>1. delivery[d].pc = "open" /\ ~Pending(d) /\ stored' = stored \cup rows /\ acked' = acked
    BY DEF Commit
  <1>2. EventsOf(b) \subseteq Events /\ stored \cup EventsOf(b) = stored \cup rows
    BY <1>1, LoopIsOver
  <1>3. rows \cap stored = {}
    BY <1>1 DEF IInv, RowsAreNew
  <1>4. jobs' = [e \in Events |-> IF e \in stored' THEN 1 ELSE 0]
    BY <1>1, <1>3 DEF IInv, OneJobPerEvent, Commit
  <1> QED
    BY <1>1, <1>2, <1>4 DEF Promise!Store, Promise!JobsFor, Promise!EventsOf, EventsOf

\* Every step of the endpoints is a step of the inbox, or none.
LEMMA NextPromise == IInv /\ [Next]_vars => [Promise!Next]_<<stored, jobs, acked>>
  <1> SUFFICES ASSUME IInv, Next
               PROVE  Promise!Next \/ UNCHANGED <<stored, jobs, acked>>
    BY DEF vars
  <1>1. ASSUME NEW d \in Deliveries, Commit(d) PROVE Promise!Next
    <2>1. delivery[d].batch \in Batches
      BY <1>1 DEF Commit, IInv, Handlers
    <2> QED
      BY <1>1, <2>1, CommitStores DEF Promise!Next
  <1>2. ASSUME NEW d \in Deliveries, Acknowledge(d)
        PROVE  Promise!Next \/ UNCHANGED <<stored, jobs, acked>>
    <2>1. CASE ~delivery[d].ok
      BY <1>2, <2>1 DEF Acknowledge
    <2>2. CASE delivery[d].ok
      <3>1. delivery[d].batch \in Batches /\ EventsOf(delivery[d].batch) \subseteq stored
        BY <1>2, <2>2 DEF Acknowledge, IInv, Handlers, SuccessIsStored
      <3>2. Promise!Acknowledge(delivery[d].batch)
        BY <1>2, <2>2, <3>1 DEF Acknowledge, Promise!Acknowledge, Promise!EventsOf, EventsOf
      <3> QED
        BY <3>1, <3>2 DEF Promise!Next
    <2> QED
      BY <2>1, <2>2
  <1>3. ASSUME NEW d \in Deliveries, Insert(d) \/ Refuse(d) \/ BreakDeadlock(d) \/ Abort(d)
                                     \/ LoseAnswer(d)
        PROVE  UNCHANGED <<stored, jobs, acked>>
    BY <1>3 DEF Insert, Refuse, BreakDeadlock, Abort, LoseAnswer
  <1>4. ASSUME NEW d \in Deliveries, NEW b \in Batches, Deliver(d, b)
        PROVE  UNCHANGED <<stored, jobs, acked>>
    BY <1>4 DEF Deliver
  <1>5. ASSUME NEW b \in Batches, Send(b) PROVE UNCHANGED <<stored, jobs, acked>>
    BY <1>5 DEF Send
  <1> QED
    BY <1>1, <1>2, <1>3, <1>4, <1>5 DEF Next, Handle

\* The endpoints keep the promise of Inbox: all or nothing per batch, one job per
\* event, and no acknowledgement of what is not stored.
THEOREM IntakeImplementsInbox == Spec => ImplementsInbox
BY Safety, InitPromise, NextPromise, PTL DEF Spec, ImplementsInbox, Promise!Spec, Promise!vars

=============================================================================
