------------------------------ MODULE JobQueue ------------------------------
(***************************************************************************)
(* The durable job queue of the service: table integration_jobs with its   *)
(* mirror in processed_events, the manual-sync endpoint that inserts jobs  *)
(* (jobs.EnqueueSync), the webhook intake that stores an event with its    *)
(* job (enqueueEvent), and the workers of every replica that claim, run    *)
(* and close jobs (jobs.Run and processNext).                              *)
(*                                                                         *)
(* A worker keeps ONE transaction open for a whole attempt: the claim      *)
(* locks the row, a savepoint wraps the provider call, the outcome is an   *)
(* UPDATE inside the same transaction.  No other session sees anything of  *)
(* it before the commit, so the row says 'pending' or 'failed' while the   *)
(* attempt runs and only the row lock keeps a second worker away.  The     *)
(* provider calls of a sync commit on other connections: when only the     *)
(* connection of the claim is lost, the row is free again while they go on *)
(* (Cut).                                                                  *)
(*                                                                         *)
(* What a provider refresh writes is one bit here ("wrote", "effects");    *)
(* DriftStore models its content.                                          *)
(***************************************************************************)
EXTENDS Naturals, Sequences, FiniteSets

CONSTANTS
    Integrations,         \* the integrations the organizations may save
    StripeIntegrations,   \* those of them whose provider is 'stripe'
    Events,               \* webhook events the providers may deliver
    EventSource,          \* the integration each event is addressed to
    NoEvent,              \* event_id IS NULL: the job is a sync
    Requests,             \* manual sync requests
    Asked,                \* the integration each request wants synced
    Workers,              \* worker loops, one per replica of the service
    RetryDelay,           \* interval '30 seconds', in ticks
    AttemptTimeout,       \* context.WithTimeout(ctx, 10*time.Minute), in ticks
    MaxFailures,          \* bound: recorded failures of one job
    MaxAbandons           \* bound: attempts lost to a crash or to the timeout

ASSUME SourcesAssumption ==
    /\ StripeIntegrations \subseteq Integrations
    /\ NoEvent \notin Events
    /\ EventSource \in [Events -> Integrations]
    /\ Asked \in [Requests -> Integrations]

ASSUME BoundsAssumption ==
    /\ RetryDelay \in Nat /\ AttemptTimeout \in Nat
    /\ MaxFailures \in Nat /\ MaxAbandons \in Nat

VARIABLES
    saved,      \* integrations that have a row in table integrations
    jobs,       \* rows of integration_jobs, in the order of their commits
    begun,      \* INSERTs begun so far: each is stamped when it begins, not when it ends
    event,      \* processed_events.status, "none" before the event is stored
    worker,     \* per worker, the transaction it has open
    request,    \* per sync request, how far EnqueueSync got
    now,        \* the database clock
    abandons    \* attempts lost so far (counts towards MaxAbandons)

vars == <<saved, jobs, begun, event, worker, request, now, abandons>>

-----------------------------------------------------------------------------
(* Rows, transactions and locks                                            *)

NoJob == 0

\* created_at is DEFAULT now(), the start of the inserting transaction.  Only its
\* order matters: "created" numbers the INSERTs as they begin.  "effects" is not a
\* column: it counts the provider refreshes committed for the job, and no guard
\* reads it.
JobRow == [integration : Integrations, event : Events \cup {NoEvent}, created : Nat,
           status : {"pending", "failed", "completed"},
           attempts : Nat, available : Nat, effects : Nat]

\* The row of an INSERT that began as number n at time t.
NewRow(i, e, n, t) == [integration |-> i, event |-> e, created |-> n, status |-> "pending",
                       attempts |-> 0, available |-> t, effects |-> 0]

EventStatus == {"none", "pending", "failed", "processed"}

\* pc "recorded": the outcome has been UPDATEd but not committed.  pc "cut": the
\* transaction is gone, the processor does not know it yet.
Transaction == [pc : {"idle", "processing", "recorded", "cut"}, job : Nat,
                start : Nat, wrote : BOOLEAN, ok : BOOLEAN]

Idle == [pc |-> "idle", job |-> NoJob, start |-> 0, wrote |-> FALSE, ok |-> FALSE]

\* pc "inserting": the INSERT has begun, as number "created" at time "start".
\* "joined" is the active job it ran into, "job" the one returned.
Request == [pc : {"new", "inserting", "lookup", "accepted", "rejected"},
            created : Nat, start : Nat, joined : Nat, job : Nat]

Inserting(n, t) == [pc |-> "inserting", created |-> n, start |-> t,
                    joined |-> NoJob, job |-> NoJob]

Reply(pc, joined, j) == [pc |-> pc, created |-> 0, start |-> 0, joined |-> joined, job |-> j]

JobIds == DOMAIN jobs

Unfinished(j) == jobs[j].status \in {"pending", "failed"}

IsSync(j) == jobs[j].event = NoEvent

\* A stripe_event job writes its facts through the worker's own transaction.
\* Every other kind runs Service.Sync, which commits on its own connections.
Transactional(j) == ~IsSync(j) /\ jobs[j].integration \in StripeIntegrations

\* The worker has a claim: its transaction is open.
Busy(w) == worker[w].pc \in {"processing", "recorded"}

\* An insert that meets a row of the active-sync index waits for a transaction
\* that has updated that row; a transaction that only locked it is not awaited.
UpdateInFlight(j) ==
    \E w \in Workers : worker[w].pc = "recorded" /\ worker[w].job = j

\* The row lock that SKIP LOCKED passes over, held for the whole attempt.
Locked(j) == \E w \in Workers : Busy(w) /\ worker[w].job = j

PendingSyncs(i) ==
    {j \in JobIds : IsSync(j) /\ jobs[j].status = "pending" /\ jobs[j].integration = i}

\* The rows of index integration_jobs_one_active_sync_idx for an integration.
ActiveSyncs(i) ==
    {j \in JobIds : IsSync(j) /\ Unfinished(j) /\ jobs[j].integration = i}

Syncs(i) == {j \in JobIds : IsSync(j) /\ jobs[j].integration = i}

DuePending(j) == jobs[j].status = "pending" /\ jobs[j].available <= now

DueAnyStatus(j) == jobs[j].available <= now

\* The WHERE clause of the claim.
Due(j) == Unfinished(j) /\ jobs[j].available <= now

\* ORDER BY available_at, created_at
Before(j, k) ==
    \/ jobs[j].available < jobs[k].available
    \/ jobs[j].available = jobs[k].available /\ jobs[j].created < jobs[k].created

\* The context of the attempt is over.
Overdue(w, t) == t >= worker[w].start + AttemptTimeout

Expired(w, t) == Busy(w) /\ Overdue(w, t)

-----------------------------------------------------------------------------
Init ==
    /\ saved = {}
    /\ jobs = <<>>
    /\ begun = 0
    /\ event = [e \in Events |-> "none"]
    /\ worker = [w \in Workers |-> Idle]
    /\ request = [r \in Requests |-> Reply("new", NoJob, NoJob)]
    /\ now = 0
    /\ abandons = 0

(***************************************************************************)
(* The HTTP handlers                                                       *)
(***************************************************************************)

\* Service.Save upserts: the first save inserts the row, a later one only
\* replaces the credentials.
SaveIntegration(i) ==
    /\ i \notin saved
    /\ saved' = saved \cup {i}
    /\ UNCHANGED <<jobs, begun, event, worker, request, now, abandons>>

\* INSERT ... SELECT ... FROM integrations begins: its time and its snapshot are
\* taken.  Without the integration it inserts nothing and meets no job.
EnqueueBegin(r) ==
    /\ request[r].pc = "new"
    /\ \/ /\ Asked[r] \in saved
          /\ begun' = begun + 1
          /\ request' = [request EXCEPT ![r] = Inserting(begun + 1, now)]
       \/ /\ Asked[r] \notin saved
          /\ request' = [request EXCEPT ![r] = Reply("lookup", NoJob, NoJob)]
          /\ UNCHANGED begun
    /\ UNCHANGED <<saved, jobs, event, worker, now, abandons>>

\* The INSERT takes its place in the active-sync index, or does nothing on conflict.
EnqueueInsert(r) ==
    LET i == Asked[r] IN
    /\ request[r].pc = "inserting"
    /\ \A j \in ActiveSyncs(i) : ~UpdateInFlight(j)
    /\ \/ /\ ActiveSyncs(i) = {}
          /\ jobs' = Append(jobs, NewRow(i, NoEvent, request[r].created, request[r].start))
          /\ request' = [request EXCEPT ![r] = Reply("accepted", NoJob, Len(jobs) + 1)]
       \/ /\ \E j \in ActiveSyncs(i) :
                request' = [request EXCEPT ![r] = Reply("lookup", j, NoJob)]
          /\ UNCHANGED jobs
    /\ UNCHANGED <<saved, begun, event, worker, now, abandons>>

Oldest(j, S) == j \in S /\ \A k \in S : jobs[j].created <= jobs[k].created

\* ORDER BY created_at DESC LIMIT 1
Newest(j, S) == j \in S /\ \A k \in S : jobs[k].created <= jobs[j].created

\* The insert returned no row: the sync of the integration whose INSERT began last
\* is the answer, whatever its status; none means the integration does not exist.
EnqueueLookup(r) ==
    LET found == Syncs(Asked[r]) IN
    /\ request[r].pc = "lookup"
    /\ \/ \E j \in found :
            /\ Newest(j, found)
            /\ request' = [request EXCEPT ![r] = Reply("accepted", request[r].joined, j)]
       \/ /\ found = {}
          /\ request' = [request EXCEPT ![r] = Reply("rejected", NoJob, NoJob)]
    /\ UNCHANGED <<saved, jobs, begun, event, worker, now, abandons>>

\* enqueueEvent: the event and its job are inserted in one transaction.  A
\* delivery of a stored event changes nothing.  The stamp of the job only breaks
\* ties between claims, so it is taken here.
StoreEvent(e) ==
    /\ EventSource[e] \in saved
    /\ event[e] = "none"
    /\ event' = [event EXCEPT ![e] = "pending"]
    /\ begun' = begun + 1
    /\ jobs' = Append(jobs, NewRow(EventSource[e], e, begun + 1, now))
    /\ UNCHANGED <<saved, worker, request, now, abandons>>

(***************************************************************************)
(* The worker                                                              *)
(***************************************************************************)

\* SELECT ... FOR UPDATE OF j SKIP LOCKED LIMIT 1, then the savepoint.
Claim(w) ==
    /\ worker[w].pc = "idle"
    /\ \E j \in JobIds :
          /\ Due(j) /\ ~Locked(j)
          /\ \A k \in JobIds : Due(k) /\ ~Locked(k) /\ k # j => Before(j, k)
          /\ worker' = [worker EXCEPT ![w] = [pc |-> "processing", job |-> j, start |-> now,
                                              wrote |-> FALSE, ok |-> FALSE]]
    /\ UNCHANGED <<saved, jobs, begun, event, request, now, abandons>>

\* The processor has written everything the provider reported.  The facts of a
\* stripe_event stay in the savepoint; a sync has committed its own by now.
Refresh(w) ==
    LET j == worker[w].job IN
    /\ worker[w].pc = "processing" /\ ~Expired(w, now)
    /\ ~worker[w].wrote
    /\ worker' = [worker EXCEPT ![w].wrote = TRUE]
    /\ IF Transactional(j) THEN UNCHANGED jobs
       ELSE jobs' = [jobs EXCEPT ![j].effects = @ + 1]
    /\ UNCHANGED <<saved, begun, event, request, now, abandons>>

\* process returned nil: release the savepoint, UPDATE ... 'completed'.
Succeed(w) ==
    /\ worker[w].pc = "processing" /\ ~Expired(w, now)
    /\ worker[w].wrote
    /\ worker' = [worker EXCEPT ![w] = [worker[w] EXCEPT !.pc = "recorded", !.ok = TRUE]]
    /\ UNCHANGED <<saved, jobs, begun, event, request, now, abandons>>

KeepWrites(t) == t

\* What ROLLBACK TO SAVEPOINT leaves of the transaction.
UndoWrites(t) == [t EXCEPT !.wrote = FALSE]

\* process returned an error, before or after its writes: roll back to the
\* savepoint, UPDATE ... 'failed'.
Fail(w) ==
    /\ worker[w].pc = "processing" /\ ~Expired(w, now)
    /\ jobs[worker[w].job].attempts < MaxFailures
    /\ worker' = [worker EXCEPT ![w] = [UndoWrites(worker[w]) EXCEPT !.pc = "recorded"]]
    /\ UNCHANGED <<saved, jobs, begun, event, request, now, abandons>>

\* The row after the outcome.  now() in available_at is the start of the
\* transaction, not of the statement.
Closed(row, t, published) ==
    [row EXCEPT !.status = IF t.ok THEN "completed" ELSE "failed",
                !.attempts = row.attempts + 1,
                !.available = IF t.ok THEN row.available ELSE t.start + RetryDelay,
                !.effects = row.effects + published]

MirrorSuccessOnly(t, status) == IF t.ok THEN "processed" ELSE status

MirrorJobStatus(t, status) == IF t.ok THEN "completed" ELSE "failed"

\* The status the event of the job gets next to the job's own.
Mirror(t, status) == IF t.ok THEN "processed" ELSE "failed"

\* The commit publishes the outcome, the event's mirror and the facts still in
\* the transaction.
Commit(w) ==
    LET t == worker[w]
        j == t.job
    IN
    /\ t.pc = "recorded" /\ ~Expired(w, now)
    /\ jobs' = [jobs EXCEPT ![j] =
                   Closed(jobs[j], t, IF Transactional(j) /\ t.wrote THEN 1 ELSE 0)]
    /\ event' = IF IsSync(j) THEN event
                ELSE [event EXCEPT ![jobs[j].event] = Mirror(t, event[jobs[j].event])]
    /\ worker' = [worker EXCEPT ![w] = Idle]
    /\ UNCHANGED <<saved, begun, request, now, abandons>>

\* The process stops, or the connection is lost when the processor is done:
\* PostgreSQL rolls the whole transaction back.
Abandon(w) ==
    /\ Busy(w)
    /\ abandons + Cardinality({v \in Workers : Expired(v, now)}) < MaxAbandons
    /\ worker' = [worker EXCEPT ![w] = Idle]
    /\ abandons' = abandons + 1
    /\ UNCHANGED <<saved, jobs, begun, event, request, now>>

\* Only the connection of the claim is lost: the row is released while the
\* processor, which nothing cancels, runs on over the pool.
Cut(w) ==
    /\ worker[w].pc = "processing"
    /\ abandons + Cardinality({v \in Workers : Expired(v, now)}) < MaxAbandons
    /\ worker' = [worker EXCEPT ![w].pc = "cut"]
    /\ abandons' = abandons + 1
    /\ UNCHANGED <<saved, jobs, begun, event, request, now>>

\* A sync without its claim still commits what the provider reported, even after
\* another attempt has completed the job.
CutRefresh(w) ==
    LET j == worker[w].job IN
    /\ worker[w].pc = "cut" /\ ~Overdue(w, now)
    /\ ~worker[w].wrote /\ ~Transactional(j)
    /\ worker' = [worker EXCEPT ![w].wrote = TRUE]
    /\ jobs' = [jobs EXCEPT ![j].effects = @ + 1]
    /\ UNCHANGED <<saved, begun, event, request, now, abandons>>

\* The processor returns, and every statement on the lost connection fails.
CutEnd(w) ==
    /\ worker[w].pc = "cut"
    /\ worker' = [worker EXCEPT ![w] = Idle]
    /\ UNCHANGED <<saved, jobs, begun, event, request, now, abandons>>

\* The attempt's context has expired: every statement on it fails, the rollback
\* to the savepoint included, and the deferred Rollback closes the connection.
Timeout(w) ==
    /\ Expired(w, now)
    /\ worker' = [worker EXCEPT ![w] = Idle]
    /\ abandons' = abandons + 1
    /\ UNCHANGED <<saved, jobs, begun, event, request, now>>

\* Time passes only while something is waiting for it, and no more attempts run
\* into their timeout than MaxAbandons leaves.
Tick ==
    /\ \/ \E w \in Workers : Busy(w) /\ ~Expired(w, now)
       \/ \E j \in JobIds : Unfinished(j) /\ jobs[j].available > now
    /\ abandons + Cardinality({w \in Workers : Expired(w, now + 1)}) <= MaxAbandons
    /\ now' = now + 1
    /\ UNCHANGED <<saved, jobs, begun, event, worker, request, abandons>>

-----------------------------------------------------------------------------
Finish(w) ==
    \/ Refresh(w) \/ Succeed(w) \/ Fail(w) \/ Commit(w) \/ Timeout(w)
    \/ CutRefresh(w) \/ CutEnd(w)

Next ==
    \/ \E i \in Integrations : SaveIntegration(i)
    \/ \E r \in Requests : EnqueueBegin(r) \/ EnqueueInsert(r) \/ EnqueueLookup(r)
    \/ \E e \in Events : StoreEvent(e)
    \/ \E w \in Workers : Claim(w) \/ Finish(w) \/ Abandon(w) \/ Cut(w)
    \/ Tick

Spec == Init /\ [][Next]_vars

\* jobs.Run polls for ever, every attempt ends by itself or by its timeout, a
\* sync request runs its two statements to the end, and time passes.  Nothing
\* makes a user save an integration or a provider deliver an event.
Fairness ==
    /\ \A w \in Workers : WF_vars(Claim(w)) /\ WF_vars(Finish(w))
    /\ \A r \in Requests :
          WF_vars(EnqueueBegin(r)) /\ WF_vars(EnqueueInsert(r)) /\ WF_vars(EnqueueLookup(r))
    /\ WF_vars(Tick)

FairSpec == Spec /\ Fairness

-----------------------------------------------------------------------------
(***************************************************************************)
(* Properties                                                              *)
(***************************************************************************)

\* Every variable has its type: rows carry only the statuses that the CHECK
\* constraints of migrations 000004 and 000006 allow.
TypeOK ==
    /\ saved \subseteq Integrations
    /\ jobs \in Seq(JobRow)
    /\ begun \in Nat
    /\ event \in [Events -> EventStatus]
    /\ worker \in [Workers -> Transaction]
    /\ request \in [Requests -> Request]
    /\ now \in Nat
    /\ abandons \in Nat

\* An integration has at most one sync that is waiting, being tried or due for
\* a retry, however requests, failures and commits interleave (the guarantee
\* behind coalescing in jobs.go:29 and migration 000006:5).
OneActiveSync ==
    \A j, k \in JobIds :
        /\ IsSync(j) /\ IsSync(k)
        /\ Unfinished(j) /\ Unfinished(k)
        /\ jobs[j].integration = jobs[k].integration
        => j = k

\* A job has one claim at a time, and no claim is on a job that another one has
\* completed (FOR UPDATE SKIP LOCKED, worker.go:60).  It speaks of the row lock: the
\* provider calls of a sync outlive a claim whose connection is lost.
ExclusiveAttempt ==
    \A v, w \in Workers :
        Busy(w) =>
            /\ worker[w].job \in JobIds
            /\ Unfinished(worker[w].job)
            /\ Busy(v) /\ worker[v].job = worker[w].job => v = w

\* A stored event has exactly one job, and the two rows tell the same story at
\* every commit: pending, failed, or done (worker.go:81-94, webhook.go:106-125).
EventMirrorsJob ==
    /\ \A e \in Events : event[e] # "none" => \E j \in JobIds : jobs[j].event = e
    /\ \A j, k \in JobIds : ~IsSync(j) /\ jobs[j].event = jobs[k].event => j = k
    /\ \A j \in JobIds : ~IsSync(j) =>
          event[jobs[j].event] = IF jobs[j].status = "completed" THEN "processed"
                                 ELSE jobs[j].status

\* Failures, crashes and timeouts never leave half an event behind: the facts
\* of a stripe_event are committed exactly once and together with its
\* completion.  A sync commits on its own, so it is only at-least-once.
EffectsMatchOutcome ==
    \A j \in JobIds :
        /\ Transactional(j) =>
              jobs[j].effects = IF jobs[j].status = "completed" THEN 1 ELSE 0
        /\ jobs[j].status = "completed" => jobs[j].effects >= 1

\* jobs.go:38, "A duplicate request returns the existing job": the job whose entry in
\* the active-sync index refused the insert, at least while it is not finished.
DuplicateGetsExistingJob ==
    [][\A r \in Requests :
          LET j == request[r].joined IN
          request[r].pc = "lookup" /\ request[r]' # request[r] /\ j # NoJob /\ Unfinished(j)
             => request'[r].job = j]_vars

RowsKept ==
    \A j \in JobIds :
        /\ j \in DOMAIN jobs'
        /\ jobs[j].status = "completed" =>
              jobs'[j].status = "completed" /\ jobs'[j].attempts = jobs[j].attempts
        /\ jobs'[j].attempts >= jobs[j].attempts
        /\ jobs'[j].integration = jobs[j].integration
        /\ jobs'[j].event = jobs[j].event
        /\ jobs'[j].created = jobs[j].created

\* A row is never removed, restamped or given to another integration or event,
\* "completed" is final, and attempts never decrease.
CompletedIsFinal == [][RowsKept]_vars

\* A job as its users know it.
Task(row) == [integration |-> row.integration, event |-> row.event, since |-> row.created,
              status |-> row.status, attempts |-> row.attempts, effects |-> row.effects]

Tasks == [j \in JobIds |-> Task(jobs[j])]

\* The sync that refused the insert, those stored after it and those whose own
\* INSERT began after that one's.
Eligible(i, joined) ==
    {j \in Syncs(i) : \/ joined = NoJob
                      \/ joined <= j
                      \/ jobs[joined].created <= jobs[j].created}

Candidates(r) ==
    IF request[r].pc = "lookup" THEN Eligible(Asked[r], request[r].joined) ELSE {}

Askers == [r \in Requests |->
              [pc |-> request[r].pc, since |-> request[r].created,
               candidates |-> Candidates(r), task |-> request[r].job]]

Promise == INSTANCE TaskQueue WITH tasks <- Tasks, request <- Askers

\* Whatever workers, requests, failures, crashes and timeouts do at the same time,
\* the queue acts as TaskQueue: one attempt after the other, each with its outcome,
\* event and facts in one step, and every request answered with a sync of its
\* integration that was open between its two statements, or that was asked for after
\* the open one (which may have finished before the request came: see
\* DuplicateGetsExistingJob).
ImplementsTaskQueue == Promise!Spec

\* Once the provider stops failing and the attempts stop dying, the queue
\* drains: no crash, timeout, retry or race strands a row.
EveryJobCompletes ==
    \A j \in 1 .. (Cardinality(Events) + Cardinality(Requests)) :
        j \in JobIds ~> j \in JobIds /\ jobs[j].status = "completed"

\* A sync request that arrives after the integration was saved is answered
\* with a job, also when it has to wait for an attempt's commit, and that job
\* completes.
SavedRequestServed ==
    \A r \in Requests :
        request[r].pc = "new" /\ Asked[r] \in saved
            ~> request[r].pc = "accepted" /\ jobs[request[r].job].status = "completed"

=============================================================================
