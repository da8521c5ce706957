--------------------------- MODULE WebhookIntake ---------------------------
(***************************************************************************)
(* The webhook endpoints: Handler.Webhook of Stripe (one event) and        *)
(* ReceiveWebhook of HubSpot (a batch), running on any replica while the   *)
(* provider sends, repeats and loses patience.                             *)
(*                                                                         *)
(* A delivery inserts its events one by one, each with its job, in one     *)
(* transaction.  INSERT ... ON CONFLICT DO NOTHING waits for another       *)
(* delivery that has inserted the same event and not yet committed: its    *)
(* outcome decides whether the event is a duplicate.  Deliveries that      *)
(* carry events in different orders can wait for each other; PostgreSQL    *)
(* then aborts one.                                                        *)
(*                                                                         *)
(* Requests that fail verification never reach the transaction, and events *)
(* of no interest are answered without being stored; both are left out.    *)
(***************************************************************************)
EXTENDS Naturals, Sequences, FiniteSets

CONSTANTS
    Events,       \* events of an organization, by external_event_id
    Malformed,    \* a notification without a usable event id
    Batches,      \* bodies the provider may send
    Deliveries,   \* requests that may be handled at the same time
    MaxAborts     \* bound: deliveries that die other than by a deadlock

ASSUME IntakeAssumption ==
    /\ Malformed \notin Events
    /\ Batches \subseteq Seq(Events \cup {Malformed})
    /\ MaxAborts \in Nat

VARIABLES
    stored,     \* committed rows of processed_events
    jobs,       \* per event, committed rows of integration_jobs
    sent,       \* batches the provider has to deliver
    acked,      \* batches for which it has seen a success
    delivery,   \* per delivery, its handler and transaction
    aborts      \* deliveries that died so far

vars == <<stored, jobs, sent, acked, delivery, aborts>>

-----------------------------------------------------------------------------
EventsOf(b) == {b[i] : i \in DOMAIN b}

\* "rows" are the events the transaction has inserted with their jobs; the
\* notifications before "next" are done.
Delivery == [pc : {"idle", "open", "answered"}, batch : Batches \cup {<<>>},
             next : Nat \ {0}, rows : SUBSET Events, ok : BOOLEAN]

Idle == [pc |-> "idle", batch |-> <<>>, next |-> 1, rows |-> {}, ok |-> FALSE]

\* An open transaction that has come to notification n of batch b.
Open(b, n, rows) == [pc |-> "open", batch |-> b, next |-> n, rows |-> rows, ok |-> FALSE]

Current(d) == delivery[d].batch[delivery[d].next]

Pending(d) == delivery[d].pc = "open" /\ delivery[d].next <= Len(delivery[d].batch)

InsertedUntilReceived(k, e) == delivery[k].pc # "idle" /\ e \in delivery[k].rows

\* A transaction that is still open has inserted the event.
InsertedBy(k, e) == delivery[k].pc = "open" /\ e \in delivery[k].rows

NeverWait(d, e) == FALSE

\* The unique index waits for the outcome of another transaction.
MustWait(d, e) == \E k \in Deliveries \ {d} : InsertedBy(k, e)

\* ON CONFLICT (organization_id, external_event_id) DO NOTHING
Duplicate(d, e) == e \in stored \cup delivery[d].rows

AnyId(e) == TRUE

\* event.EventID <= 0 is refused.
Usable(e) == e # Malformed

WaitsFor(d, k) == d # k /\ Pending(d) /\ InsertedBy(k, Current(d))

\* Each of S waits for another of S, and another for it.
Cycle(S) == \A d \in S : (\E k \in S : WaitsFor(d, k)) /\ (\E k \in S : WaitsFor(k, d))

Deadlocked(d) == \E S \in SUBSET Deliveries : d \in S /\ Cycle(S)

-----------------------------------------------------------------------------
Init ==
    /\ stored = {}
    /\ jobs = [e \in Events |-> 0]
    /\ sent = {}
    /\ acked = {}
    /\ delivery = [d \in Deliveries |-> Idle]
    /\ aborts = 0

\* Something happened at the provider.
Send(b) ==
    /\ b \notin sent
    /\ sent' = sent \cup {b}
    /\ UNCHANGED <<stored, jobs, acked, delivery, aborts>>

\* The first delivery of a batch or another one: providers repeat themselves,
\* also after a success.
Deliver(d, b) ==
    /\ delivery[d].pc = "idle"
    /\ b \in sent
    /\ delivery' = [delivery EXCEPT ![d] = Open(b, 1, {})]
    /\ UNCHANGED <<stored, jobs, sent, acked, aborts>>

AnsweredOk(d, ok) == [delivery[d] EXCEPT !.pc = "answered", !.ok = TRUE]

\* Commit or rollback is over and the response is written: 204, or an error.
Answered(d, ok) == [delivery[d] EXCEPT !.pc = "answered", !.ok = ok]

\* One round of the loop: the event and its job, or the next notification.
Insert(d) ==
    LET e == Current(d) IN
    /\ Pending(d) /\ Usable(e)
    /\ ~MustWait(d, e)
    /\ delivery' = [delivery EXCEPT ![d] =
          Open(delivery[d].batch, delivery[d].next + 1,
               IF Duplicate(d, e) THEN delivery[d].rows ELSE delivery[d].rows \cup {e})]
    /\ UNCHANGED <<stored, jobs, sent, acked, aborts>>

RefuseRest(d) ==
    /\ Pending(d) /\ ~Usable(Current(d))
    /\ stored' = stored \cup delivery[d].rows
    /\ jobs' = [e \in Events |-> IF e \in delivery[d].rows THEN jobs[e] + 1 ELSE jobs[e]]
    /\ delivery' = [delivery EXCEPT ![d] = Answered(d, FALSE)]
    /\ UNCHANGED <<sent, acked, aborts>>

\* errInvalidWebhook: one malformed notification refuses the batch, and the deferred
\* rollback takes back what came before it.
Refuse(d) ==
    /\ Pending(d) /\ ~Usable(Current(d))
    /\ delivery' = [delivery EXCEPT ![d] = Answered(d, FALSE)]
    /\ UNCHANGED <<stored, jobs, sent, acked, aborts>>

Commit(d) ==
    /\ delivery[d].pc = "open" /\ ~Pending(d)
    /\ stored' = stored \cup delivery[d].rows
    /\ jobs' = [e \in Events |-> IF e \in delivery[d].rows THEN jobs[e] + 1 ELSE jobs[e]]
    /\ delivery' = [delivery EXCEPT ![d] = Answered(d, TRUE)]
    /\ UNCHANGED <<sent, acked, aborts>>

\* The replica stops, the client goes away or PostgreSQL is out of reach.
Abort(d) ==
    /\ delivery[d].pc = "open"
    /\ aborts < MaxAborts
    /\ aborts' = aborts + 1
    /\ delivery' = [delivery EXCEPT ![d] = Answered(d, FALSE)]
    /\ UNCHANGED <<stored, jobs, sent, acked>>

\* PostgreSQL aborts a transaction of a cycle; the handler answers 503.
BreakDeadlock(d) ==
    /\ Deadlocked(d)
    /\ delivery' = [delivery EXCEPT ![d] = Answered(d, FALSE)]
    /\ UNCHANGED <<stored, jobs, sent, acked, aborts>>

\* The answer arrives.
Acknowledge(d) ==
    /\ delivery[d].pc = "answered"
    /\ acked' = IF delivery[d].ok THEN acked \cup {delivery[d].batch} ELSE acked
    /\ delivery' = [delivery EXCEPT ![d] = Idle]
    /\ UNCHANGED <<stored, jobs, sent, aborts>>

\* The answer is lost, or comes after the provider gave up waiting.
LoseAnswer(d) ==
    /\ delivery[d].pc = "answered"
    /\ aborts < MaxAborts
    /\ aborts' = aborts + 1
    /\ delivery' = [delivery EXCEPT ![d] = Idle]
    /\ UNCHANGED <<stored, jobs, sent, acked>>

-----------------------------------------------------------------------------
Handle(d) == Insert(d) \/ Refuse(d) \/ Commit(d) \/ BreakDeadlock(d)

Next ==
    \/ \E b \in Batches : Send(b)
    \/ \E d \in Deliveries :
          \/ \E b \in Batches : Deliver(d, b)
          \/ Handle(d) \/ Abort(d) \/ Acknowledge(d) \/ LoseAnswer(d)

Spec == Init /\ [][Next]_vars

\* Handlers run on, PostgreSQL grants a wait for an event in the order the waits
\* began, and it breaks deadlocks.  Nothing makes a provider send or repeat.
Fairness == \A d \in Deliveries : SF_vars(Handle(d))

FairSpec == Spec /\ Fairness

-----------------------------------------------------------------------------
(***************************************************************************)
(* Properties                                                              *)
(***************************************************************************)

\* Every variable has its type, and only sent batches are acknowledged.
TypeOK ==
    /\ stored \subseteq Events
    /\ jobs \in [Events -> Nat]
    /\ sent \subseteq Batches /\ acked \subseteq sent
    /\ delivery \in [Deliveries -> Delivery]
    /\ aborts \in 0 .. MaxAborts

\* An event the provider will not send again is stored: a duplicate is never
\* acknowledged on the strength of a first delivery that may still roll back.
AckedIsStored ==
    \A b \in acked : EventsOf(b) \subseteq stored

\* Repeated, concurrent and aborted deliveries leave one job per stored event.
OneJobPerEvent == jobs = [e \in Events |-> IF e \in stored THEN 1 ELSE 0]

\* The endpoints implement the inbox they promise: batches are all or nothing.
Promise == INSTANCE Inbox WITH stored <- stored, jobs <- jobs, acked <- acked

ImplementsInbox == Promise!Spec

\* Every delivery is answered: deliveries that wait for each other's events do
\* not hang, whatever the order of their events.
EveryDeliveryAnswered ==
    \A d \in Deliveries : delivery[d].pc = "open" ~> delivery[d].pc # "open"

=============================================================================
