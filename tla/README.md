# A TLA+ model of Business Drift

Business Drift compares what Stripe and HubSpot say about the same customers and
reports where they disagree. This directory models the durable job queue that
runs syncs and webhook events, the customer data those jobs write, the endpoints
that store events and credentials, sessions on the server and in the browser,
the login limit, and the process that runs it all. It holds TLA+ modules, TLC
configurations that check them on small instances, and proofs that TLAPS checks
for every value of the constants.

`PROJECT.json` maps each definition to the source lines it stands for and lists
the runs, the properties with a mutation of the model that breaks each, the
findings, the hazards and the theorems.

## 1. The system

| Component | State it keeps | Operations | Talks to |
| --- | --- | --- | --- |
| Job queue (`integrations/jobs`, migrations 4 and 6) | `integration_jobs`, `processed_events.status`; per replica one open transaction | `EnqueueSync`, `enqueueEvent`, claim, process, record, commit, retry | HTTP handlers insert; the worker calls the processors |
| Stripe sync and events (`integrations/stripe`) | identities, domain and status facts | `syncAll`, `processEvent` | Stripe, the detection rules |
| HubSpot sync (`integrations/hubspot`) | identities, domain and lifecycle facts | `listCompanies`, `storeCompany`, `findStripeCustomersMissingHubSpot` | HubSpot, the detection rules |
| Detection (`internal/detection`) | `findings`, `finding_evidence` | `LockOrganization`, `CompareStatus`, `UpsertFinding`, `ResolveFinding` | called in the transactions of both syncs |
| Webhook intake (`webhook.go` of both) | `processed_events`, jobs | verify, insert event and job | the queue |
| Integration credentials (`service.go` of both) | `integrations` | `Save`, `Get`, status after a sync | the queue, the syncs |
| Sessions (`internal/auth`) | `sessions`: access and refresh tokens in families | register, login, refresh, logout, authenticate | the web client |
| Login rate limit (`auth/service.go`) | a Redis counter per e-mail and client address | `AllowLogin` | Redis |
| Web client (`web/src`) | the session in the browser | API calls, refresh on 401, job polling | all HTTP handlers |
| Read API, configuration, encryption, routing, logging | none | queries, pure functions | - |
| Process lifecycle and pool (`cmd/api`, `platform/database`) | ten connections; worker and server | start, graceful stop | everything |

Several replicas may run the same process; PostgreSQL is what they share. There
are no messages between them: everything that can go wrong between replicas goes
through row locks, an advisory lock per organization, unique indexes and the
READ COMMITTED visibility of uncommitted writes.

What is hard:

- **One transaction per attempt.** The worker claims a row, calls a provider and
  records the outcome in one transaction that may be open for ten minutes. Until
  it commits, the row still says `pending` to everyone else. A crash, a lost
  connection or the timeout undoes all of it, except what a sync has committed
  on connections of its own. When only the connection of the claim is lost, the sync
  goes on over the pool while another replica may take its job.
- **Insert and lookup are two statements.** `EnqueueSync` may run into an active
  sync that has completed by the time it is looked up, and rows are ordered by
  when their inserts began, not by when they took effect.
- **Reads of remote systems grow old.** Stripe is read under the lock, HubSpot
  before it, and a webhook event reads its subscription before the list.
- **Two writers, one finding.** A Stripe job and a HubSpot sync each write one
  fact and compare it with the other's; without the lock neither would see the
  other's.
- **Partial syncs.** A HubSpot sync commits company by company.
- **Two copies of a session.** Every request of the browser tab may find its token
  expired and refresh the one stored session by itself, while others do the same
  and the user signs out.
- **Two connections for one attempt.** The worker keeps a connection of the pool for
  its attempt and takes a second one for a sync; requests and shutdown compete with it.

The complete list, each at its line, is in `PROJECT.json` under `hazards`.

What makes each component correct:

- Queue: a job has one claim at a time; one active sync per integration; an
  event and its job agree; a Stripe event takes effect exactly once; a completed
  row is final; every job completes once failures stop; a duplicate request gets the
  job it duplicates (which does not always hold, see the findings).
- Customer data: a status finding is open exactly when the committed facts
  disagree; facts never go back in time; a company keeps its customer and a
  customer has one company; missing-customer findings are true; once the remote
  systems are quiet the findings reflect them.
- Webhook intake: every event acknowledged is durable; deliveries that deadlock
  are sent again.
- Integration credentials: the status shown settles on that of the key; an error
  is retried; a webhook secret is kept until it is replaced.
- Sessions: one live pair of tokens per family; a reused token and a logout end their
  family, unless a refresh with a newer token outruns them.
- Login rate limit: less than twice the limit passes in any window, and a block ends.
- Web client: a refresh never stores an older pair over a newer one, a sign-out ends
  what an overlapping refresh still brings, a dead session is found out.
- Lifecycle: nobody waits for ever for a connection, a signal ends the process.

## 2. Modules

| Module | Models |
| --- | --- |
| `JobQueue` | the queue, its workers and `EnqueueSync`, with lost attempts and time |
| `TaskQueue` | what the queue promises, one step per attempt, without workers, locks or clock |
| `JobQueueProofs` | the inductive invariant of `JobQueue`, its safety theorems, and that it implements `TaskQueue` |
| `AttemptHistory` | `JobQueue` with a history variable for the retry delay |
| `DriftRules` | the tables of one organization and what the statements of the syncs do to them: matching, facts, the three rules |
| `DriftStore` | both syncs and the webhook refreshes on several replicas, with the remote accounts they read |
| `SerialStore` | what the syncs promise: one transaction after the other |
| `DriftProofs` | lemmas on the statements; the invariant of `DriftStore` and its safety theorems |
| `DriftOutcomeProofs` | that `DriftStore` implements `SerialStore`, and that its findings are true when it is quiet |
| `Inbox`, `WebhookIntake` | what the webhook endpoints promise, and how they do it |
| `WebhookProofs` | the invariants of `WebhookIntake` and that it implements `Inbox` |
| `Integration`, `IntegrationProofs` | the row of an integration between saves, syncs and a provider that revokes keys; its invariant and theorems |
| `TokenFamilies` | the families of tokens and the single steps that change them |
| `TokenCalls` | what `auth.Service` promises to its callers: which of these steps a call takes before its answer |
| `Sessions` | families of tokens under row locks and READ COMMITTED |
| `SessionProofs` | its invariant and that it implements `TokenCalls` |
| `WebClient`, `WebClientProofs` | one browser tab with its overlapping requests, on top of `TokenFamilies`; its invariant, its theorems, and that the families of its server move only by the steps of `TokenFamilies` |
| `LoginRate` | the Redis counter behind `AllowLogin` |
| `Lifecycle` | the process: login requests on `LoginRate`, the worker, the pool, signal and shutdown |
| `LifecycleProofs` | the invariants of the counter and of the pool, and their theorems |
| `MC...` | instances for TLC |

The modules meet where the components do. `DriftStore` and `Integration` take from
the queue what `JobQueue` establishes; `JobQueue` stores an event with its job in one
step, which `WebhookIntake` shows to be right; `WebClient` uses the server in the single
steps that `Sessions` is shown to take; `Lifecycle` extends `LoginRate`.

### JobQueue and the code

| Model | Code |
| --- | --- |
| `jobs`, `event` | rows of `integration_jobs` and the status of `processed_events` |
| `worker[w]` | the transaction of `processNext`: `processing` between the claim and the outcome, `recorded` between the UPDATE and the commit |
| `wrote` | what the processor has written, in the savepoint for a `stripe_event`, committed on its own for every other kind |
| `effects` | not a column; counts the refreshes committed for the job, and no guard reads it |
| `created`, `begun` | `created_at`: the number of the INSERT among those that have begun |
| `request[r]` | how far a call of `EnqueueSync` got; `created` and `start` are the stamps of its INSERT, `joined` remembers the active row the insert met |
| `SaveIntegration` | `Service.Save` |
| `EnqueueBegin`, `EnqueueInsert`, `EnqueueLookup` | the two statements of `EnqueueSync`, the first as its begin and its effect |
| `StoreEvent` | `enqueueEvent` |
| `Claim` | `FOR UPDATE OF j SKIP LOCKED` with its order |
| `Refresh`, `Succeed`, `Fail`, `Commit` | process, release of or rollback to the savepoint, UPDATE, commit |
| `Abandon`, `Timeout` | a process that dies, or a connection lost when its processor is done; the ten-minute context |
| `Cut`, `CutRefresh`, `CutEnd` | only the connection of the claim is lost: the row is free, the processor runs on, may commit what a sync has found, and ends without an outcome |

`Locked` holds for the whole attempt, but `EnqueueInsert` waits only for a
transaction that has *updated* the active row: an insert that meets a unique
index entry waits for the writer of that entry and not for a mere row lock.
`created_at` is `DEFAULT now()`, the time at which the inserting transaction began, and an insert
may wait for several commits after that. So `EnqueueBegin` takes the stamp, `EnqueueInsert` appends the
row when it takes effect, and `jobs` is not ordered by `created`. The stamp of an event's job is taken when
it is stored: no lookup reads it, and it only breaks ties between claims. Time is
counted in ticks. The statuses
`processing` and `disconnected` that the schema allows are written nowhere in the
code and do not occur.

`TaskQueue` is what `DriftStore` and `Integration` may rely on besides `EveryJobCompletes`. A task is a row without
its due time. `Complete` and `Fail` are whole attempts with their outcome, event and facts; `Apply` is what a sync
has committed before an attempt ends, before it is lost, or after it has lost its claim. A request waits with
a set of syncs (`candidates`): those that were open at some time since its insert was refused, and those that were
asked for after one that was open then. It is answered with one of them, or
refused if there has never been one. The second part of the set is what the code makes of `created_at`: a
sync that was asked for later than the open one may have finished before it
(`DuplicateGetsExistingJob` fails for this reason). The refinement maps the set to the sync the insert has met,
those stored after it and those stamped after it (`Eligible`); open transactions and lost attempts map to no step.

### DriftRules, DriftStore, SerialStore and the code

One organization. A value of `Tables` is what is stored: which customers exist, their
domain fact, the company links, the status facts of both systems with their age, and
which findings are open. `DriftRules` says what each group of statements writes, given what
it sees: `SavedCustomers` and `SavedStatuses` are Stripe's `saveCustomer` and
`saveStatus`, `StoredCompany` is `storeCompany` with its match by domain (`Resolved`),
`Compared` is `CompareStatus`, `FoundMissing` is `findStripeCustomersMissingHubSpot`.

In `DriftStore`, `db` is what is committed; a worker's `writes` are what its
open transaction has written, and it reads `View(w)`, the one over the other.
The advisory lock is a variable and guards only `Lock`, so a missing lock would
show (it is one of the mutations). A listing is one step (one page). Of the
subscription statuses only `active`, `past_due` and `ended` are told
apart, which is all that the rule reads. A customer may have several
subscriptions; `Best` is what folding `preferredSubscription` over their list gives,
whatever its order. The actions follow the code's calls:
`ListCustomers` and `ListSubscriptions` are `syncAll`, `Retrieve` and `Refresh`
are `processEvent`, `ListCompanies`, `NextCompany`, `StoreCompany` and
`FindMissing` are the HubSpot `Sync`, `Compare` is `CompareStatus`. The accounts
may hold records before the first sync; they change and lose records at any time.
A subscription change and a HubSpot change queue the job that their webhook would; a new
customer or mail address does not, because the intake keeps no such event.

`DriftStore` takes from the queue only what `JobQueue` establishes: a queued job
is run by some worker and a failed one is run again. It does not rely on attempts being
exclusive: a task may be queued while a worker is at it, and another worker may run it at the same time.
That is also what becomes of a sync that loses the connection of its claim (`Cut` of `JobQueue`).

`SerialStore` is the promise: the tables change by one whole transaction at a time, each
a function of what the one before has committed and of facts that are no older.
There are three of them, `StripeSaved`, `CompanySaved` and `MissingSaved`. The
refinement maps `db` to `db`; open transactions are invisible to it.

### WebhookIntake, Inbox and the code

`JobQueue` stores an event with its job in one step. `WebhookIntake` shows why it
may. A delivery is a handler with its transaction: `Insert` is a round of the loop
in `ReceiveWebhook` (a Stripe request is a batch of one, `enqueueEvent`),
`Refuse` the return for a notification without an id, `Commit` the end. `MustWait` is what
`INSERT ... ON CONFLICT DO NOTHING` does when another open transaction has
inserted the same key, and `Duplicate` what it does afterwards. `Abort` is a
crash, a departed client or a failing database; `BreakDeadlock` is PostgreSQL's
detector. The provider may deliver any batch it has sent any number of times, at
the same time, and miss the answer. `Inbox` is the promise: `Store` a whole batch,
`Acknowledge` a stored one. Requests that fail the signature check, and Stripe
events of other kinds, never reach the transaction and are left out.

### Sessions, TokenCalls, TokenFamilies and the code

A row of `pairs` is the two rows that `issueSessionPair` inserts, with
`revoked` holding the kinds whose `revoked_at` is set. `Select` is the
`SELECT ... FOR UPDATE` of `Refresh` and `Logout` with the checks that follow,
`StartRevoke` the snapshot of the UPDATE on the family, `RevokeRow` one row of
it, `Commit` the end with the new pair. The inserted pair is invisible until the
commit and therefore part of it. A call may present the token of any pair. The
order in which the UPDATE visits rows is left open, because no index or ORDER BY
fixes it. `from` remembers which pair was exchanged, `since` and `committed` how many
pairs there were when a call came and whether it has committed; no guard reads them.

`TokenFamilies` knows only pairs that are live or not, and `Open`, `Rotate` and `End`.
`TokenCalls` adds the callers. A call asks, is served in one step, and is answered: a refresh with a live
token by `Rotate`, a refresh with any other token and a logout by `End`; or it is lost and
nothing has happened. The refinement calls a pair live while one of its rows is, and a call served
once its transaction has committed, so that a committed reuse has to *be* the end of its family.

There is one exception, and the promise states it. The UPDATE of a call with an older token
works on a snapshot; a refresh with the live token that commits after it issues a pair that the
UPDATE does not see. `Outrun` allows such a call to change nothing, and only when the family has a live pair
that was issued since the call came in and not for the token it brings. `service.go:151` has no such
exception: `ReuseRevokesFamily` is that sentence, and fails.

### WebClient and the code

| Model | Code |
| --- | --- |
| `stored` | the session in `sessionStorage` |
| `call[s]` | a call of `request` in `api.ts`: sent, denied (401), refreshing, rotated (the new pair has arrived), refused, retrying, served or failed |
| `Denied`, `Exchange`, `Refreshed`, `Refused` | `refreshSession`: what it reads, the server's answer, `saveSession` of either outcome |
| `Serve`, `ServeFault` | the middleware's check of the access token, and any other answer or none |
| `signing`, `SignIn`, `Confirmed`, `NotConfirmed`, `SignInFails`, `Register` | `AuthView` with its `getMe` after a login |
| `app`, `Checked`, `NotChecked`, `Reload` | `App`, its `getMe` and the page loaded anew |
| `leaving`, `SignOut`, `ServeSignOut`, `SignOutFault`, `EndSignOut` | `logout` and what follows it in any case |
| `Send`, `Settle` | the dashboard's requests and polls |

The server takes the steps of `TokenFamilies`, those that `Sessions` is shown to amount to: a call with a
token that is no longer live ends the family or is outrun by a refresh with a newer one (`EndLate`,
which needs to know how many pairs there were when the call was sent: `since`). An answer may be lost
after any of them. One tab, one
sign-out and one check of App at a time. A request that has not reached the server when
the page is loaded anew never does. At the bound of pairs a refresh is lost.

### LoginRate, Lifecycle and the code

`Incr` is the INCR, `Expire` the EXPIRE that only the first call of a window sends, `End` a
request that ends anywhere, also between the two. `passed` counts what was let through in
each tick of the last window and is read by no guard; `Passes` are those logins one by one, so that
`BurstBound` counts a set.

`Lifecycle` puts a process around it. A login takes one connection of the pool for its query, gives it
back, and takes one for the transaction that writes the session. The worker takes one for the
attempt and, for a sync, a second one any number of times. `Signal` cancels the worker's context;
`StopServer` is `server.Shutdown`, or `server.Close` after 15 seconds (`forced`); `AwaitWorker`,
`ClosePool` are the wait for the worker and the deferred `Close` of Redis and pool, which
waits for every connection. `Die` is everything that defers nothing; after it the key in Redis is
still there.

### Integration and the code

| Model | Code |
| --- | --- |
| `row` | the row of `integrations`; `status = "error"` stands for the status with its `last_error` |
| `Check`, `Write` | `Save` up to its statement, and the upsert; only HubSpot's tries the key first |
| `Load` | claim of the job and `load`, which reads the key |
| `Succeed`, `Refuse`, `Fail` | `syncAll`, or the listing and storing of HubSpot's `Sync` |
| `RecordError`, `Finish` | the UPDATE of the status, on a connection of its own |
| `Close` | the outcome of the job, committed after it |
| `Lose` | a crash, the timeout, or a status that cannot be written |
| `Cut`, `stray` | only the connection of the claim is lost: the job is due again, and the attempt goes on |
| `StrayLists`, `StrayWrites`, `StrayEnds` | the rest of that attempt: its listing, its UPDATE of the status, or its end without one |

The provider is chosen at the start and never changes. An attempt works with the
key it has loaded; a later save does not reach it, and its status is written by the
integration's id whatever key is stored by then. So an error can appear right
after a good key was saved. `ErrorIsRetried` and `StatusSettles` say why it does
not stay: the failed job is due again, and its last attempt reads the new key and
writes the status after every earlier one of that job.

They have one exception. The status is written through the pool and not on the connection of the claim. An
attempt that has lost only the latter may write after another one has completed the job; nothing comes
after it. `late` remembers that such a write was the last one and is read by no guard.
`EveryErrorIsRetried` is the sentence of the dashboard without the exception, and fails.

## 3. Model checking

| Run | Question | Bounds |
| --- | --- | --- |
| `queue_safety` | exclusive claims, event mirror, atomic effects, coalescing of racing requests, implements `TaskQueue` | 2 replicas, a Stripe event, 2 requests for one sync, 1 failure per job, 1 lost attempt |
| `queue_live` | every job completes, every accepted request is served | 1 replica, a HubSpot event, 2 requests for one Stripe sync, 1 failure per job, 1 lost attempt, with fairness |
| `drift_pair` | status finding, findings true whenever no job is queued or at work, implements `SerialStore`, findings come to reflect the quiet systems | 2 replicas, 1 customer with up to 2 subscriptions, 1 company, records from the start, 1 change, 1 failure, with fairness |
| `drift_shared` | one company per customer, missing-customer findings | 2 replicas, 2 customers, 2 companies, 1 domain, no subscriptions, records from the start, 1 change, 1 failure |
| `integration` | the status shown is that of the key in the end, errors are retried, webhook secrets are kept | either provider, 2 keys that may be revoked, 2 saves, 2 sync jobs, 1 failure, 1 loss, with fairness |
| `intake` | acknowledged is stored, one job per event, implements `Inbox`, deliveries are answered | 3 deliveries at a time, 3 batches over 2 events (in opposite orders, one with a repeated event, one malformed), 1 death or lost answer, with fairness |
| `sessions` | one live pair, tokens revoked together, logout is final, implements `TokenCalls`, no call waits for ever | 2 calls at a time, 3 pairs, 1 of them may reach its 30 days, with fairness |
| `web_client` | a sign-out ends its pair, stored pairs advance, a dead session is dropped | 1 request of the dashboard besides the two `getMe`, 3 pairs, 2 errors or reloads, with fairness |
| `lifecycle` | bursts, the end of a block, no waiter starves, a signal ends the process | 2 logins at a time, limit 2, window of 2 ticks, 2 connections, with fairness |
| `retry_delay`, `unlinked_match`, `refresh_race` | three promises that fail | 1 sync; 1 customer and 1 company; 2 requests without errors |

Five more configurations are not part of the runs of `PROJECT.json`; TLC runs each in seconds.

| Configuration, with its module | Question | Bounds |
| --- | --- | --- |
| `JobQueue_requests.cfg`, `MCJobQueue` | implements `TaskQueue`: what a third request is answered with (passes, 83,000 states) | 2 replicas, 3 requests for one sync, no event, 1 failure per job, 1 lost attempt |
| `JobQueue_stale.cfg`, `MCJobQueue` | `DuplicateGetsExistingJob` (violated) | 1 replica, 3 requests |
| `Sessions_reuse.cfg`, `Sessions` | `ReuseRevokesFamily` (violated) | 2 calls at a time, 3 pairs |
| `Integration_late.cfg`, `Integration` | `EveryErrorIsRetried` (violated) | 1 key, 1 save, 1 job, 1 loss |
| `Lifecycle_stranded.cfg`, `Lifecycle` | `EveryBlockEnds` (violated) | 1 login at a time, 2 connections, with fairness |

The bounds: `MaxFailures` limits the recorded failures of a job (in `DriftStore`
of all jobs), `MaxAbandons` the attempts lost to crashes and timeouts,
`MaxChanges` the changes of the remote systems together with requested syncs.
`Tick` of `JobQueue` is allowed only while an attempt runs or a job waits for its retry, and
not past the timeouts that `MaxAbandons` leaves, so the clock needs no bound of
its own. They are enough because every conflict in this code is between two
parties: two workers for a row, two writers for a finding, two companies for a
customer. `JobQueue_requests.cfg` has a third request, because it takes a sync, a second one that
overtakes the insert of another request, and the request that meets the outcome. An attempt of `queue_safety` that lasts a tick has timed out:
its questions depend on the order of steps, and longer attempts are in the other
runs of the queue. A failure and a lost attempt let a job fail, be retried, be
lost and be retried again.

In `drift_pair` every history of two subscriptions and every company is there at the
first sync, so that one change suffices for a read that is old by the time it is written: the change falls
between any two steps of the two first syncs and of the job it queues. Two customers and two
companies let two contend for one of the other side; statuses play no part in that,
and `drift_shared` leaves them out. What larger instances could show of safety is in the
proofs. Replicas and requests are symmetric in the runs without fairness.

`MaxAborts` limits the deliveries that die or lose their answer, `MaxPairs` the
pairs of tokens issued. Three pairs are an old, a current and a new one; two
calls suffice for a wait, for a cycle of waits and for a reuse that a refresh outruns, and a call that has
answered may start again. The bound reckons only with calls that may still issue a pair: a
reuse never does, and may come when all pairs are issued. `MaxExpired` limits the tokens that reach their
thirty days; a call meets that in its first statement only. Three calls on two pairs were checked once as well; they
are why the fairness of the deadlock detector speaks of the calls of a cycle (`Cycle`) and not of those that wait for one.
Three deliveries let one wait for an insert while another repeats the batch.

`MaxSaves` of `Integration` lets a good key be replaced by another while a sync runs
with the first one; two jobs let an attempt with an old key end after
one with the new key, and one loss lets an attempt go on astray next to both. Three saves, and two losses, were
checked once as well.

In `web_client` three requests overlap (the dashboard's and the two `getMe`) with a sign-out,
three pairs are enough to exchange one twice or to sign in again, and two faults let an error
meet a reload or a lost answer. `Lifecycle` has as many connections as the worker
needs: a request that holds one makes the worker wait with the other in its hand, which
is the case the ten connections of the code leave for heavier load.

Deadlock checking is off in the runs of `JobQueue`, `DriftStore` and `Integration`: when all jobs are
done and nothing new is asked for, the system rests. That nothing is stuck short of that is what
the liveness properties show.

Fairness. `jobs.Run` polls for ever and every attempt ends by itself or by its
timeout, so claiming and finishing are weakly fair for each worker; an HTTP
request executes its statements, so the two halves of `EnqueueSync` are; time
passes. A user's save, a provider's delivery, a failure and a crash are not
fair. `EveryJobCompletes` and `SavedRequestServed` therefore say: once failures
and losses (bounded by the constants) are over. `DriftStore`'s `FairSpec` makes the steps of
each worker weakly fair on the strength of those runs. `Integration` does the same for its jobs. Weak fairness
of the lock is enough, because changes are finite and so is the work. `Sessions`
and `WebhookIntake` have strong fairness for each handler: PostgreSQL grants a
lock in the order of the requests, so that later calls cannot overtake a waiting
one for ever. Their deadlocks are real and are broken by PostgreSQL's detector, which
aborts one transaction of every cycle; clients and providers are not. That a batch is acknowledged in the end
is not claimed: two batches in opposite orders could, in principle, break each
other's transactions at every repetition.

`Lifecycle` has strong fairness where the pool hands out connections, because pgxpool serves
waiters in the order they came; the worker finishes what it has begun, since
a sync asks for a second connection a finite number of times and an attempt has its ten
minutes. That a request *leaves* is fair only after `server.Close`. Signals, crashes and
clients are not fair. `WebClient`: a visible dashboard polls every ten seconds, a
call is answered or fails, and the code that waits for it runs on; nothing makes a user sign in or out.

### Findings

Three runs of `PROJECT.json` refute a sentence of the repository:

- `RetryAfterDelay`. README: "failed jobs retry after 30 seconds". The new
  `available_at` is `now() + 30 seconds` and `now()` is the start of the
  transaction, which the attempt opened before its provider calls. An
  attempt that took 30 seconds or more is retried at once. One that its ten-minute
  context ends cannot even write its outcome: it is not counted either, and is due at once.
- `UnlinkedMeansNoMatch`. The finding says "No Stripe customer matched this
  HubSpot company by business domain", but a company that already has an identity is not
  matched again: one that was synced before its Stripe customer stays
  unlinked. The README's advice to sync Stripe first is the way round it.
- `RefreshKeepsSession`. Two requests of one tab that get a 401 at the same time both refresh
  with the stored token. The second one presents a token that has just been
  exchanged, which the server takes for theft: it ends the family with the pair it has just
  issued, and the user is signed out. Nothing shares the refresh between requests.

Four more sentences are refuted by the configurations above. The properties and theorems that the
runs check on the same subject state the case in which they fail as an exception.

- `DuplicateGetsExistingJob`. `jobs.go:38`: "A duplicate request returns the existing job". An insert that begins,
  waits for the commit of one sync, finds another one about to commit and waits again stores its sync with an older
  `created_at` than the second sync has, which is finished. The next request is refused by the new sync and
  answered with the finished one, because it is first in `ORDER BY created_at DESC`. The sync it asked for does
  run; the status it polls is another one's.
- `ReuseRevokesFamily`. `service.go:151`: "Reusing an old refresh token revokes its whole token family". It does not
  when a refresh with the family's live token commits between the snapshot of the reuse's UPDATE and the
  rows it waits for: the old pair is then skipped, the new one is not in the snapshot.
- `EveryErrorIsRetried`. `Dashboard.tsx:389` says next to an error "The background worker will retry
  automatically". An attempt that has lost the connection of its claim may write the error after another one has
  completed the job: nothing retries until somebody asks for a sync.
- `EveryBlockEnds`. `http.go:73`: "Too many login attempts. Try again in one minute." When the first login of a
  window ends between INCR and EXPIRE, the key never expires; once it has counted past the limit every
  login with that address from that client is refused. `BlockEnds` is what holds otherwise.

Also in the models, without a sentence of the repository that they contradict plainly enough: a
customer that gives up its business address keeps the old domain fact; a company deleted in
HubSpot keeps its link; `AuthView` saves the login's session again after
`getMe` may have refreshed it.

## 4. Proofs

The theorems hold for any sets and bounds, from the named assumptions on the
constants that the modules declare. Each module has one inductive invariant (`IInv`), a lemma
per action that says the action keeps it, and derives the theorems from it.

`JobQueueProofs`, for any numbers of workers, requests, events and
integrations and any delays:

| Theorem | Statement |
| --- | --- |
| `TypeCorrect` | `Spec => []TypeOK` |
| `AttemptsAreExclusive` | `Spec => []ExclusiveAttempt` |
| `SyncsAreCoalesced` | `Spec => []OneActiveSync` |
| `EventsMirrorJobs` | `Spec => []EventMirrorsJob` |
| `EffectsAreAtomic` | `Spec => []EffectsMatchOutcome` |
| `RowsAreFinal` | `Spec => CompletedIsFinal` |
| `QueueImplementsTasks` | `Spec => ImplementsTaskQueue` |

The properties need each other:
`Commit` closes the worker's row, and only `ExclusiveAttempt` says that this row
is still unfinished and held by nobody else, so that event, effects and finality
survive. None of them says what an open transaction holds, so `IInv` adds
`Attempts`: a recorded success still has its writes, a recorded failure has none, and a
sync that has written under its claim has already committed. Without it `Commit` could publish a
completed job without effects. The lemmas `UpdateRow`, `InsertRow` and
`ClosedRow` say what the two statements on the table do to its rows.
`RowsAreFinal` is an action property and is derived per step from `IInv`
(`StepKeepsRows`). `QueueImplementsTasks` adds `JoinsSync` (what the insert has met is a sync of the
integration asked for), which uses that rows stay where they are, and `Shelf`: an unfinished sync is the last that
was *stored* for its integration, whatever its stamp, and an integration without a row has none. What the insert
has met is then the only open sync, every sync a lookup can find later is stored or stamped after it, and the newest of
all by its stamp is one of these (`LookupTask`). `TaskTable`, `TaskAdded` and
`TaskUpdated` carry the statements on rows over to tasks; a `Commit` is a `Complete` or a `Fail` of
an open task because of `ExclusiveAttempt` and `Attempts`. `CompletedIsFinal`, most of which it
implies, is proved only.

`WebhookProofs`, for any batches and deliveries: `TypeCorrect`, `AcknowledgedIsDurable`
(`Spec => []AckedIsStored`), `JobsAreUnique` (`Spec => []OneJobPerEvent`) and
`IntakeImplementsInbox` (`Spec => ImplementsInbox`).
Its invariant says what an open delivery knows: the rows it has inserted are
new and nobody else's (`RowsAreNew`, by the wait in the index), the notifications it
has passed are committed or among its rows (`PassedAreKept`), and a success is
written after the commit (`SuccessIsStored`). Hence a commit adds exactly what
its batch still lacked, which is a `Store` of the whole batch (`CommitStores`), and
every other step is an `Acknowledge` or no step of `Inbox`.

`IntegrationProofs`: `TypeCorrect`,
`ErrorsAreRetried` (`Spec => []ErrorIsRetried`) and `SecretsAreKept`
(`Spec => SecretKept`). `ErrorIsRetried` is not inductive: a job that is about to be
closed as completed could be the only open one. Its strengthening `StillToWrite` says
that some open job has not yet written its success; a job that has, found or left the
status active, and only an attempt without its claim can make it an error again, which `late` then says. `FromOwners` keeps attempts and writes supplied with keys.

`DriftProofs`, for any customers, companies, domains, subscriptions and replicas:

| Theorem | Statement |
| --- | --- |
| `TypeCorrect` | `Spec => []TypeOK` |
| `DriftIsDetected` | `Spec => []StatusDriftDetected` |
| `CompaniesAreUnique` | `Spec => []OneCompanyPerCustomer` |
| `MissingIsTrue` | `Spec => []MissingFindingsTrue` |
| `FactsMoveOn` | `Spec => FactsNeverRegress` |
| `LinksStay` | `Spec => LinksArePermanent` |

`FactsNeverRegress` and `LinksArePermanent` are proved only; no run repeats them.

The first part of `DriftProofs` holds what the statements guarantee whoever runs them: tables that are right
(`RightTables`: links are one to one, missing-customer findings true) stay so, facts only
get newer, and a comparison makes the findings of its customers agree. `IInv`
then says that only the holder of the lock has written (`LockRight`), that what a transaction sees
is right up to the comparison it still owes (`ViewRight`), and that what was read of Stripe under the lock is
not older than what is committed (`NotAhead`, and the reading in `PlaceRight`). When a
worker commits, its view becomes the tables; all other workers have written nothing,
so their view changes with it and needs no argument of its own.

`DriftOutcomeProofs` holds two theorems on top of that invariant, `StoreIsSerial`
(`Spec => ImplementsSerialStore`) and `QuietIsCorrect` (`Spec => []QuietFindingsTrue`).

For the first, `Shape` says of each open
transaction which part of a `SerialStore` transaction it has done in terms of the
*current* `db`; under the lock `db` cannot move away from beneath it, and a commit is then exactly
`Transaction(db, db')`.

The second is about stale reads. Both syncs apply what they have read some time before, and what they
read may have changed meanwhile. `QuietFindingsTrue` says that this leaves no trace once
no job is queued or at work: every listed company is linked to a customer that carries its present
status, and the status finding is the rule applied to the two accounts as they are now.
The state between is the difficulty, because `db` is out of date most of the time. `Told` says who
will correct it:

- `StripeTold`, for a customer with subscriptions: a job that asks Stripe for it is queued or has not
  yet taken the lock; or the holder of the lock is going to leave the present status
  (`Tells`: it has not read yet, what it has retrieved is still so, or it has written it), and either
  that job asks for this customer, so that its failure queues it again, or the status is already
  committed; or nobody holds the lock and the present status is committed. Every change of a
  subscription queues a job, so that it falls back into the first case.
- `HubTold`, for a company: a sync of HubSpot is queued or has not listed, or a listing that
  is being stored has the present status, or it is committed.
- `HubRight`, `ListingRight`, `Stored`: an observation of a company is the present one or an older one
  (`NotBeyond`), so that "not older" is enough for "the same", and a stored company is never older than its
  listing, whatever another replica stored before.

That the webhook's one subscription and the list agree needs `Best` and `Preferred`: an active
subscription wins wherever it stands, otherwise the newest does (`LargestNumber`,
`BestOfCustomer`). For HubSpot it needs the `WHERE observed_at <=` of the upsert (`Accepts`): without it
an old listing that is stored late stays, which is the mutation of this property.

`SessionProofs`, for any calls and pairs:

| Theorem | Statement |
| --- | --- |
| `TypeCorrect` | `Spec => []TypeOK` |
| `OnePairLives` | `Spec => []OneLivePair` |
| `PairsEndTogether` | `Spec => []RevokedTogether` |
| `TokensAreExchangedOnce` | `Spec => []ExchangedOnce` |
| `LogoutIsFinal` | `Spec => LogoutEndsSession` |
| `SessionsImplementFamilies` | `Spec => ImplementsFamilies` |

A refresh decides by what it read of its token and revokes with a later statement whose
snapshot may be old. `CallRight` says what it can rely on: the row of its token, which it keeps
locked, is as it was read (`TokenKept`); of every pair that is live it touches both rows or
none, and both of its own (`WholePairs`); what it has revoked stays its own until the
commit (`LocksExclusive`). So of two refreshes with one token the second reads it revoked, and a commit
ends whole pairs. A commit then serves its call by `Rotate` or by `End`, or some pair of the family is live that was
issued since the call came in and not for its token, which is `Outrun` (`CommitRefines`, `CommitServes`):
the UPDATE visited all that was live at its snapshot. Every step before the commit is no
step of `TokenCalls` (`InsideStutters`).

`WebClientProofs`, for any requests, pairs, errors and reloads: `TypeCorrect`,
`SignOutIsFinal` (`Spec => []SignOutEnds`) and `StoredPairsAdvance`
(`Spec => StoredAdvances`). The heart of `IInv` is `Fresh`: a pair on its way to
the tab is the newest of its family and known to nobody else in the tab. It stays so because only the
newest pair of a family is live (`TableRight`), and whoever would make a newer one
needs that very pair (`OtherFamily`). `SignedOff` is `SignOutEnds` again, inductive
because dead pairs stay dead and a new pair needs a live one. `ServerKeepsPromise`
(`Spec => Server!TableSpec`) says that the families of the server under this tab change only by a login, an
exchange of a live pair or the end of a family; it
needs from `IInv` that every refresh and sign-out on its way names an issued pair.

`LifecycleProofs`, for any limit, window and set of requests and any pool of at least two connections:

| Theorem | Statement |
| --- | --- |
| `TypeCorrect` | `Spec => []TypeOK`, with no more connections held than the pool has |
| `BurstsBounded` | `Spec => []BurstBound` |
| `PoolIsNeverStuck` | `Spec => []SomebodyWillRelease` |
| `PoolDrains` | `Spec => ClosingOnlyReleases` |

`BurstBound` speaks of the last window of ticks, the counter only of the key that is there now. The
invariant splits the window: some `k` separates the passes of the current key, no more than
the counter, from those of earlier keys, which are at most `Limit - 1` (`SplitAt`). They are fewer than the
limit because an expiry is set by a call that has itself passed, and a key with an expiry has
counted a pass older than it (`FirstIsOlder`): when the key goes, its first pass
has left the window. A request that dies between INCR and EXPIRE leaves a key that never goes; the
split then only grows older (`OneStarter`: no other call can set that expiry). The bound
counts a set of passes and not a sum, since the library's theorems on folds take an operator as a parameter.

For the pool, the connections in use are a finite set that fits (`Fits`), only a login that
the counter let through is at a statement (`UseRight`), and the worker has stopped before the pool is closed
(`PhaseRight`). So when the pool is empty somebody holds a connection without waiting for
another, which is where it matters that there are two; and from the moment the pool is being
closed connections are only given back.

Only model-checked: the liveness properties (`EveryJobCompletes`, `SavedRequestServed`,
`DriftEventuallyReported`, `StatusSettles`, `EveryDeliveryAnswered`, `EveryCallAnswered`, `DeadSessionCleared`,
`EveryWaiterServed`, `ShutdownEnds`, `BlockEnds`), which rest on fairness and so on `ENABLED`, beyond
the prover; the findings, which are counterexamples. All other properties of the runs are theorems.

## 5. Not modelled

- The read API (findings, organizations): queries without state of their own.
- Configuration, encryption, routing, middleware other than authentication, logging: pure
  functions and plumbing.
- Signature checks of webhooks, password hashing, validation of forms.
- Display names and finding evidence: copied, never read by a decision. The pages of a
  listing: it is read in one step, and changes of the remote system between two pages are
  not modelled. Domain and status normalization are taken as done: the models start
  from the business domain and from the statuses that the rules tell apart.
- Registration beyond the session it opens; refresh tokens that outlive their 30 days, which are
  refused like revoked ones in `WebClient`.
- Several tabs: each has a `sessionStorage` of its own, so they share only the server, and
  a second tab is a second user of it.

What could come next: the pages of a listing as steps of their own, domain and status normalization as
operators checked against reference definitions, and the forms of the integration views
on top of `WebClient`.
