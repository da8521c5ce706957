----------------------------- MODULE TaskQueue -----------------------------
(***************************************************************************)
(* What the job queue promises those who use it, without workers, locks,   *)
(* clock or lost attempts: a task is tried in single steps, an event's     *)
(* attempt takes effect together with its outcome or not at all, and a     *)
(* request is answered with a sync that was open at some time while it     *)
(* waited or was asked for later than one that was, or refused because     *)
(* there has never been one.                                               *)
(***************************************************************************)
EXTENDS Naturals, Sequences

CONSTANTS Integrations, StripeIntegrations, Events, EventSource, NoEvent, Requests, Asked

VARIABLES
    tasks,      \* all tasks ever stored, the oldest first
    begun,      \* stamps given out, one to each request or event that may add a task
    event,      \* what the provider's event has come to
    request     \* per request, its state, stamp, the tasks that may answer it, its answer

vars == <<tasks, begun, event, request>>

-----------------------------------------------------------------------------
NewTask(i, e, n) == [integration |-> i, event |-> e, since |-> n, status |-> "pending",
                     attempts |-> 0, effects |-> 0]

Asker(pc, n, candidates, t) == [pc |-> pc, since |-> n, candidates |-> candidates, task |-> t]

Open(t) == tasks[t].status # "completed"

IsSync(t) == tasks[t].event = NoEvent

\* A Stripe event's facts are written with its outcome, all others before it.
Transactional(t) == ~IsSync(t) /\ tasks[t].integration \in StripeIntegrations

Syncs(i) == {t \in DOMAIN tasks : IsSync(t) /\ tasks[t].integration = i}

OpenSyncs(i) == {t \in Syncs(i) : Open(t)}

\* The open syncs, and those that were asked for after one of them.
Timely(i) == {t \in Syncs(i) : \E o \in OpenSyncs(i) : tasks[o].since <= tasks[t].since}

-----------------------------------------------------------------------------
Init ==
    /\ tasks = <<>>
    /\ begun = 0
    /\ event = [e \in Events |-> "none"]
    /\ request = [r \in Requests |-> Asker("new", 0, {}, 0)]

\* A request comes in, and gets its stamp.
Begin(r) ==
    /\ request[r].pc = "new"
    /\ begun' = begun + 1
    /\ request' = [request EXCEPT ![r] = Asker("inserting", begun + 1, {}, 0)]
    /\ UNCHANGED <<tasks, event>>

\* A sync is added for a request, and may be the answer to those that wait.
Add(r) ==
    LET i == Asked[r]
        t == Len(tasks) + 1
    IN
    /\ request[r].pc = "inserting"
    /\ OpenSyncs(i) = {}
    /\ tasks' = Append(tasks, NewTask(i, NoEvent, request[r].since))
    /\ request' = [q \in Requests |->
          IF q = r THEN Asker("accepted", 0, {}, t)
          ELSE IF request[q].pc = "lookup" /\ Asked[q] = i
               THEN Asker("lookup", request[q].since, request[q].candidates \cup {t},
                          request[q].task)
               ELSE request[q]]
    /\ UNCHANGED <<begun, event>>

\* A request waits for a sync that is open, or will be.
Ask(r) ==
    /\ request[r].pc \in {"new", "inserting"}
    /\ request' = [request EXCEPT ![r] = Asker("lookup", 0, Timely(Asked[r]), 0)]
    /\ UNCHANGED <<tasks, begun, event>>

Answer(r) ==
    /\ request[r].pc = "lookup"
    /\ \E t \in request[r].candidates : request' = [request EXCEPT ![r] = Asker("accepted", 0, {}, t)]
    /\ UNCHANGED <<tasks, begun, event>>

\* There has never been a sync of the integration.
Reject(r) ==
    /\ request[r].pc = "lookup" /\ Syncs(Asked[r]) = {}
    /\ request' = [request EXCEPT ![r] = Asker("rejected", 0, {}, 0)]
    /\ UNCHANGED <<tasks, begun, event>>

\* An event is stored once, with its task.
Store(e) ==
    /\ event[e] = "none"
    /\ event' = [event EXCEPT ![e] = "pending"]
    /\ begun' = begun + 1
    /\ tasks' = Append(tasks, NewTask(EventSource[e], e, begun + 1))
    /\ UNCHANGED request

\* What a task does outside of its outcome; an attempt may get here and no further,
\* and one that has lost its claim may get here late, when the task is done.
Apply(t) ==
    /\ ~Transactional(t)
    /\ tasks' = [tasks EXCEPT ![t].effects = @ + 1]
    /\ UNCHANGED <<begun, event, request>>

Tried(task, status, effects) ==
    [integration |-> task.integration, event |-> task.event, since |-> task.since,
     status |-> status, attempts |-> task.attempts + 1, effects |-> effects]

\* The outcome of an attempt.
Close(t, status, effects, shown) ==
    /\ Open(t)
    /\ tasks' = [tasks EXCEPT ![t] = Tried(@, status, effects)]
    /\ event' = IF IsSync(t) THEN event ELSE [event EXCEPT ![tasks[t].event] = shown]
    /\ UNCHANGED <<begun, request>>

\* A success takes effect now, unless it already has.
Complete(t) ==
    IF Transactional(t) THEN Close(t, "completed", tasks[t].effects + 1, "processed")
    ELSE tasks[t].effects > 0 /\ Close(t, "completed", tasks[t].effects, "processed")

Fail(t) == Close(t, "failed", tasks[t].effects, "failed")

-----------------------------------------------------------------------------
Next ==
    \/ \E r \in Requests : Begin(r) \/ Add(r) \/ Ask(r) \/ Answer(r) \/ Reject(r)
    \/ \E e \in Events : Store(e)
    \/ \E t \in DOMAIN tasks : Apply(t) \/ Complete(t) \/ Fail(t)

Spec == Init /\ [][Next]_vars

=============================================================================
