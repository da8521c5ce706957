--------------------------- MODULE JobQueueProofs ---------------------------
(***************************************************************************)
(* Proofs about JobQueue.  The safety invariants hold together: exclusive  *)
(* attempts keep a row from being closed twice, which keeps the event and  *)
(* the effects in step with it.  Attempts adds the one thing the others do *)
(* not say, what an open transaction holds.                                *)
(***************************************************************************)
EXTENDS JobQueue, SequenceTheorems, TLAPS

\* Inside a transaction: the outcome is recorded as a success exactly when the
\* writes are still there, and a sync that has written has also committed.  An
\* attempt without its claim still knows its job.
Attempts ==
    \A w \in Workers :
        /\ worker[w].pc = "processing" => ~worker[w].ok
        /\ worker[w].pc = "recorded" => (worker[w].ok <=> worker[w].wrote)
        /\ Busy(w) /\ worker[w].wrote /\ ~Transactional(worker[w].job)
              => jobs[worker[w].job].effects >= 1
        /\ worker[w].pc = "cut" => worker[w].job \in JobIds

IInv ==
    /\ TypeOK
    /\ ExclusiveAttempt
    /\ OneActiveSync
    /\ EventMirrorsJob
    /\ EffectsMatchOutcome
    /\ Attempts

-----------------------------------------------------------------------------
(* The table of jobs as a sequence of rows                                 *)

\* UPDATE ... WHERE id = j changes row j and keeps every other row.
LEMMA UpdateRow ==
    ASSUME jobs \in Seq(JobRow), NEW j \in DOMAIN jobs, NEW row \in JobRow,
           jobs' = [jobs EXCEPT ![j] = row]
    PROVE  /\ jobs' \in Seq(JobRow)
           /\ DOMAIN jobs' = DOMAIN jobs
           /\ jobs'[j] = row
           /\ \A k \in DOMAIN jobs : k # j => jobs'[k] = jobs[k]
  BY ExceptSeq

\* INSERT adds one row behind the existing ones, which it keeps.
LEMMA InsertRow ==
    ASSUME jobs \in Seq(JobRow), NEW row \in JobRow, jobs' = Append(jobs, row)
    PROVE  /\ jobs' \in Seq(JobRow)
           /\ DOMAIN jobs' = DOMAIN jobs \cup {Len(jobs) + 1}
           /\ Len(jobs) + 1 \notin DOMAIN jobs
           /\ jobs'[Len(jobs) + 1] = row
           /\ \A k \in DOMAIN jobs : jobs'[k] = jobs[k]
  BY AppendProperties

\* A new row is well typed.
LEMMA NewRowType ==
    ASSUME NEW i \in Integrations, NEW e \in Events \cup {NoEvent}, NEW n \in Nat, NEW t \in Nat
    PROVE  NewRow(i, e, n, t) \in JobRow
  BY DEF NewRow, JobRow

-----------------------------------------------------------------------------
(* One lemma for each kind of step                                         *)

\* A step that touches neither table keeps what is said of the tables alone.
LEMMA TablesKept ==
    ASSUME IInv, UNCHANGED <<jobs, event>>
    PROVE  OneActiveSync' /\ EventMirrorsJob' /\ EffectsMatchOutcome'
  BY DEF IInv, OneActiveSync, EventMirrorsJob, EffectsMatchOutcome, JobIds, IsSync,
         Unfinished, Transactional

\* A step that touches neither the table of jobs nor a worker keeps what is
\* said of the attempts.
LEMMA AttemptsKept ==
    ASSUME IInv, UNCHANGED <<jobs, worker>>
    PROVE  ExclusiveAttempt' /\ Attempts'
  BY DEF IInv, ExclusiveAttempt, Attempts, JobIds, Busy, IsSync, Unfinished, Transactional

\* An insert keeps what is said of the attempts: they work on older rows.
LEMMA AttemptsSurviveInsert ==
    ASSUME IInv, NEW row \in JobRow, jobs' = Append(jobs, row), UNCHANGED worker
    PROVE  ExclusiveAttempt' /\ Attempts'
  <1>1. /\ DOMAIN jobs \subseteq DOMAIN jobs'
        /\ \A k \in DOMAIN jobs : jobs'[k] = jobs[k]
    BY InsertRow DEF IInv, TypeOK
  <1>2. \A w \in Workers : Busy(w) => worker[w].job \in DOMAIN jobs
    BY DEF IInv, ExclusiveAttempt, JobIds
  <1>3. ExclusiveAttempt'
    BY <1>1, <1>2 DEF IInv, ExclusiveAttempt, JobIds, Busy, Unfinished
  <1>4. Attempts'
    BY <1>1, <1>2 DEF IInv, Attempts, Busy, IsSync, Transactional, JobIds
  <1> QED
    BY <1>3, <1>4

\* Saving an integration touches no job.
LEMMA SaveStep ==
    ASSUME IInv, NEW i \in Integrations, SaveIntegration(i)
    PROVE  IInv'
  <1>1. TypeOK'
    BY DEF IInv, TypeOK, SaveIntegration
  <1> QED
    BY <1>1, TablesKept, AttemptsKept DEF IInv, SaveIntegration

\* The beginning of an insert touches no table.
LEMMA EnqueueBeginStep ==
    ASSUME IInv, NEW r \in Requests, EnqueueBegin(r)
    PROVE  IInv'
  <1>1. PICK q \in Request : request' = [request EXCEPT ![r] = q]
    BY DEF IInv, TypeOK, EnqueueBegin, Request, Reply, Inserting, NoJob
  <1>2. begun' \in Nat
    BY DEF IInv, TypeOK, EnqueueBegin
  <1>3. TypeOK'
    BY <1>1, <1>2 DEF IInv, TypeOK, EnqueueBegin
  <1> QED
    BY <1>3, TablesKept, AttemptsKept DEF IInv, EnqueueBegin

\* The row that the insert of a request puts into the table.
LEMMA InsertedRow ==
    ASSUME IInv, NEW r \in Requests
    PROVE  NewRow(Asked[r], NoEvent, request[r].created, request[r].start) \in JobRow
  <1>1. request[r].created \in Nat /\ request[r].start \in Nat
    BY DEF IInv, TypeOK, Request
  <1> QED
    BY <1>1, SourcesAssumption, NewRowType

\* The insert of a sync: only when the integration has no active one.
LEMMA EnqueueInsertStep ==
    ASSUME IInv, NEW r \in Requests, EnqueueInsert(r)
    PROVE  IInv'
  <1> DEFINE i == Asked[r]
             row == NewRow(i, NoEvent, request[r].created, request[r].start)
  <1>1. row \in JobRow
    BY InsertedRow
  <1>2. CASE UNCHANGED jobs
    <2>1. ActiveSyncs(i) \subseteq Nat
      BY LenProperties DEF IInv, TypeOK, ActiveSyncs, JobIds
    <2>2. PICK j \in Nat : request' = [request EXCEPT ![r] = Reply("lookup", j, NoJob)]
      <3>1. jobs # Append(jobs, row)
        BY <1>1, InsertRow DEF IInv, TypeOK
      <3> QED
        BY <1>2, <2>1, <3>1 DEF EnqueueInsert
    <2>3. TypeOK'
      BY <1>2, <2>2 DEF IInv, TypeOK, EnqueueInsert, Request, Reply, NoJob
    <2> QED
      BY <1>2, <2>3, TablesKept, AttemptsKept DEF IInv, EnqueueInsert
  <1>3. CASE ActiveSyncs(i) = {} /\ jobs' = Append(jobs, row)
                /\ request' = [request EXCEPT ![r] = Reply("accepted", NoJob, Len(jobs) + 1)]
    <2>1. row.event = NoEvent /\ row.status = "pending" /\ row.integration = i /\ row.effects = 0
      BY DEF NewRow
    <2> HIDE DEF row
    <2>2. /\ jobs' \in Seq(JobRow)
          /\ DOMAIN jobs' = DOMAIN jobs \cup {Len(jobs) + 1}
          /\ Len(jobs) + 1 \notin DOMAIN jobs
          /\ jobs'[Len(jobs) + 1] = row
          /\ \A k \in DOMAIN jobs : jobs'[k] = jobs[k]
      BY <1>1, <1>3, InsertRow DEF IInv, TypeOK
    <2>4. TypeOK'
      BY <1>3, <2>2, LenProperties DEF IInv, TypeOK, EnqueueInsert, Request, Reply, NoJob
    <2>5. OneActiveSync'
      BY <1>3, <2>1, <2>2 DEF IInv, OneActiveSync, ActiveSyncs, JobIds, IsSync, Unfinished
    <2>6. EventMirrorsJob'
      <3>1. event' = event
        BY DEF EnqueueInsert
      <3> QED
        BY <2>1, <2>2, <3>1 DEF IInv, EventMirrorsJob, JobIds, IsSync
    <2>7. EffectsMatchOutcome'
      BY <2>1, <2>2 DEF IInv, EffectsMatchOutcome, JobIds, IsSync, Transactional
    <2> QED
      BY <1>1, <1>3, <2>4, <2>5, <2>6, <2>7, AttemptsSurviveInsert DEF IInv, EnqueueInsert
  <1> QED
    BY <1>2, <1>3 DEF EnqueueInsert

\* The lookup of EnqueueSync only answers the request.
LEMMA EnqueueLookupStep ==
    ASSUME IInv, NEW r \in Requests, EnqueueLookup(r)
    PROVE  IInv'
  <1>1. TypeOK'
    <2>1. Syncs(Asked[r]) \subseteq Nat
      BY LenProperties DEF IInv, TypeOK, Syncs, JobIds
    <2>2. request[r].joined \in Nat
      BY DEF IInv, TypeOK, Request
    <2>3. PICK q \in Request : request' = [request EXCEPT ![r] = q]
      BY <2>1, <2>2 DEF EnqueueLookup, Request, Reply, NoJob
    <2> QED
      BY <2>3 DEF IInv, TypeOK, EnqueueLookup
  <1> QED
    BY <1>1, TablesKept, AttemptsKept DEF IInv, EnqueueLookup

\* The insert of an event with its job: no other job can name the event.
LEMMA StoreEventStep ==
    ASSUME IInv, NEW e \in Events, StoreEvent(e)
    PROVE  IInv'
  <1> DEFINE row == NewRow(EventSource[e], e, begun + 1, now)
  <1>1. row \in JobRow
    BY SourcesAssumption, NewRowType DEF IInv, TypeOK
  <1>2. /\ jobs' \in Seq(JobRow)
        /\ DOMAIN jobs' = DOMAIN jobs \cup {Len(jobs) + 1}
        /\ Len(jobs) + 1 \notin DOMAIN jobs
        /\ jobs'[Len(jobs) + 1] = row
        /\ \A k \in DOMAIN jobs : jobs'[k] = jobs[k]
    BY <1>1, InsertRow DEF IInv, TypeOK, StoreEvent
  <1>3. row.event = e /\ row.status = "pending" /\ row.effects = 0 /\ e # NoEvent
    BY SourcesAssumption DEF NewRow
  <1>4. TypeOK'
    BY <1>2 DEF IInv, TypeOK, StoreEvent, EventStatus
  <1>5. OneActiveSync'
    BY <1>2, <1>3 DEF IInv, OneActiveSync, JobIds, IsSync, Unfinished
  <1>6. EventMirrorsJob'
    <2>1. \A k \in DOMAIN jobs : jobs[k].event # e
      <3> SUFFICES ASSUME NEW k \in DOMAIN jobs, jobs[k].event = e
                   PROVE  FALSE
        OBVIOUS
      <3>1. event[e] = IF jobs[k].status = "completed" THEN "processed" ELSE jobs[k].status
        BY <1>3 DEF IInv, EventMirrorsJob, JobIds, IsSync
      <3>2. jobs[k] \in JobRow
        BY LenProperties, ElementOfSeq DEF IInv, TypeOK
      <3> QED
        BY <3>1, <3>2 DEF StoreEvent, JobRow
    <2>2. event' = [event EXCEPT ![e] = "pending"] /\ event \in [Events -> EventStatus]
      BY DEF IInv, TypeOK, StoreEvent
    <2>3. \A f \in Events : event'[f] # "none" => \E j \in DOMAIN jobs' : jobs'[j].event = f
      BY <1>2, <1>3, <2>2 DEF IInv, EventMirrorsJob, JobIds
    <2>4. \A j, k \in DOMAIN jobs' :
             jobs'[j].event # NoEvent /\ jobs'[j].event = jobs'[k].event => j = k
      BY <1>2, <1>3, <2>1 DEF IInv, EventMirrorsJob, JobIds, IsSync
    <2>5. \A j \in DOMAIN jobs' : jobs'[j].event # NoEvent =>
             event'[jobs'[j].event] = IF jobs'[j].status = "completed" THEN "processed"
                                      ELSE jobs'[j].status
      BY <1>2, <1>3, <2>1, <2>2 DEF IInv, EventMirrorsJob, JobIds, IsSync
    <2> QED
      BY <2>3, <2>4, <2>5 DEF EventMirrorsJob, JobIds, IsSync
  <1>7. EffectsMatchOutcome'
    BY <1>2, <1>3 DEF IInv, EffectsMatchOutcome, JobIds, IsSync, Transactional
  <1> QED
    BY <1>1, <1>4, <1>5, <1>6, <1>7, AttemptsSurviveInsert DEF IInv, StoreEvent

\* Every row keeps its identity.
SameJobs ==
    \A k \in DOMAIN jobs : /\ jobs'[k].event = jobs[k].event
                           /\ jobs'[k].integration = jobs[k].integration
                           /\ jobs'[k].created = jobs[k].created

\* An update of the row that worker w holds, which leaves its identity alone.
\* Every other attempt works on another row.
LEMMA OwnRowUpdate ==
    ASSUME IInv, NEW w \in Workers, Busy(w), NEW row \in JobRow,
           row.integration = jobs[worker[w].job].integration,
           row.event = jobs[worker[w].job].event, row.created = jobs[worker[w].job].created,
           jobs' = [jobs EXCEPT ![worker[w].job] = row]
    PROVE  /\ worker[w].job \in DOMAIN jobs
           /\ jobs' \in Seq(JobRow)
           /\ DOMAIN jobs' = DOMAIN jobs
           /\ jobs'[worker[w].job] = row
           /\ \A k \in DOMAIN jobs : k # worker[w].job => jobs'[k] = jobs[k]
           /\ SameJobs
           /\ \A v \in Workers : v # w /\ Busy(v) => worker[v].job # worker[w].job
  <1>1. worker[w].job \in DOMAIN jobs
    BY DEF IInv, ExclusiveAttempt, JobIds
  <1>2. \A v \in Workers : v # w /\ Busy(v) => worker[v].job # worker[w].job
    BY DEF IInv, ExclusiveAttempt
  <1>3. /\ jobs' \in Seq(JobRow)
        /\ DOMAIN jobs' = DOMAIN jobs
        /\ jobs'[worker[w].job] = row
        /\ \A k \in DOMAIN jobs : k # worker[w].job => jobs'[k] = jobs[k]
    BY <1>1, UpdateRow DEF IInv, TypeOK
  <1>4. SameJobs
    BY <1>3 DEF SameJobs
  <1> QED
    BY <1>1, <1>2, <1>3, <1>4

\* The claim takes a due row that nobody holds, so attempts stay exclusive.
LEMMA ClaimStep ==
    ASSUME IInv, NEW w \in Workers, Claim(w)
    PROVE  IInv'
  <1>1. PICK j \in DOMAIN jobs :
           /\ Due(j) /\ ~Locked(j)
           /\ worker' = [worker EXCEPT ![w] = [pc |-> "processing", job |-> j, start |-> now,
                                               wrote |-> FALSE, ok |-> FALSE]]
    BY DEF Claim, JobIds
  <1>2. j \in Nat
    BY LenProperties DEF IInv, TypeOK
  <1>3. TypeOK'
    BY <1>1, <1>2 DEF IInv, TypeOK, Transaction, Claim
  <1>4. ExclusiveAttempt'
    BY <1>1 DEF IInv, TypeOK, ExclusiveAttempt, Claim, Due, Locked, Busy, Unfinished, JobIds
  <1>5. Attempts'
    BY <1>1 DEF IInv, TypeOK, Attempts, Claim, Busy, Transactional, IsSync, JobIds
  <1> QED
    BY <1>3, <1>4, <1>5, TablesKept DEF IInv, Claim

\* A row whose effects are counted up and nothing else.
LEMMA WrittenRow ==
    ASSUME NEW row \in JobRow
    PROVE  LET more == [row EXCEPT !.effects = row.effects + 1] IN
           /\ more \in JobRow /\ more.effects >= 1 /\ more.effects >= row.effects
           /\ more.status = row.status /\ more.attempts = row.attempts
           /\ more.integration = row.integration /\ more.event = row.event
           /\ more.created = row.created
           /\ Task(more) = [Task(row) EXCEPT !.effects = row.effects + 1]
  BY DEF JobRow, Task

\* What a refresh that commits by itself does to the row of its job: whoever else
\* is at work on the job, the row only counts one effect more.
LEMMA WrittenTable ==
    ASSUME IInv, NEW j \in DOMAIN jobs, jobs' = [jobs EXCEPT ![j].effects = @ + 1]
    PROVE  /\ jobs[j] \in JobRow
           /\ jobs' \in Seq(JobRow) /\ DOMAIN jobs' = DOMAIN jobs
           /\ jobs'[j] = [jobs[j] EXCEPT !.effects = jobs[j].effects + 1]
           /\ \A k \in DOMAIN jobs : k # j => jobs'[k] = jobs[k]
           /\ SameJobs
           /\ \A k \in DOMAIN jobs : jobs'[k].status = jobs[k].status
           /\ \A k \in DOMAIN jobs : jobs'[k].attempts = jobs[k].attempts
           /\ \A k \in DOMAIN jobs : jobs[k].effects >= 1 => jobs'[k].effects >= 1
           /\ jobs'[j].effects >= 1
  <1> DEFINE row == [jobs[j] EXCEPT !.effects = jobs[j].effects + 1]
  <1>1. jobs[j] \in JobRow
    BY LenProperties, ElementOfSeq DEF IInv, TypeOK
  <1>2. /\ row \in JobRow /\ row.status = jobs[j].status /\ row.effects >= 1
        /\ row.attempts = jobs[j].attempts /\ row.created = jobs[j].created
        /\ row.integration = jobs[j].integration /\ row.event = jobs[j].event
    BY <1>1, WrittenRow
  <1>3. jobs' = [jobs EXCEPT ![j] = row]
    OBVIOUS
  <1> HIDE DEF row
  <1>4. /\ jobs' \in Seq(JobRow) /\ DOMAIN jobs' = DOMAIN jobs /\ jobs'[j] = row
        /\ \A k \in DOMAIN jobs : k # j => jobs'[k] = jobs[k]
    BY <1>2, <1>3, UpdateRow DEF IInv, TypeOK
  <1>5. SameJobs
    BY <1>2, <1>4 DEF SameJobs
  <1>6. /\ \A k \in DOMAIN jobs : jobs'[k].status = jobs[k].status
        /\ \A k \in DOMAIN jobs : jobs'[k].attempts = jobs[k].attempts
        /\ \A k \in DOMAIN jobs : jobs[k].effects >= 1 => jobs'[k].effects >= 1
        /\ jobs'[j].effects >= 1
    BY <1>2, <1>4
  <1> QED
    BY <1>1, <1>4, <1>5, <1>6 DEF row

\* A refresh that commits by itself, with or without the claim.
LEMMA WriteStep ==
    ASSUME IInv, NEW w \in Workers, worker[w].pc \in {"processing", "cut"},
           worker[w].job \in DOMAIN jobs, ~Transactional(worker[w].job),
           worker' = [worker EXCEPT ![w].wrote = TRUE],
           jobs' = [jobs EXCEPT ![worker[w].job].effects = @ + 1],
           UNCHANGED <<saved, begun, event, request, now, abandons>>
    PROVE  IInv'
  <1> DEFINE j == worker[w].job
  <1>1. /\ jobs' \in Seq(JobRow) /\ DOMAIN jobs' = DOMAIN jobs
        /\ \A k \in DOMAIN jobs : k # j => jobs'[k] = jobs[k]
        /\ SameJobs
        /\ \A k \in DOMAIN jobs : jobs'[k].status = jobs[k].status
        /\ \A k \in DOMAIN jobs : jobs[k].effects >= 1 => jobs'[k].effects >= 1
        /\ jobs'[j].effects >= 1
    BY WrittenTable
  <1>2. worker \in [Workers -> Transaction] /\ worker' \in [Workers -> Transaction]
    BY DEF IInv, TypeOK, Transaction
  <1>3. /\ \A v \in Workers : v # w => worker'[v] = worker[v]
        /\ worker'[w].pc = worker[w].pc /\ worker'[w].job = j /\ worker'[w].ok = worker[w].ok
    BY <1>2 DEF Transaction
  <1>4. TypeOK'
    BY <1>1, <1>2 DEF IInv, TypeOK
  <1>5. \A v \in Workers : worker'[v].pc = worker[v].pc /\ worker'[v].job = worker[v].job
    BY <1>3
  <1>6. ExclusiveAttempt'
    BY <1>1, <1>5 DEF IInv, ExclusiveAttempt, Busy, Unfinished, JobIds
  <1>7. OneActiveSync'
    BY <1>1 DEF IInv, OneActiveSync, IsSync, Unfinished, JobIds, SameJobs
  <1>8. EventMirrorsJob'
    BY <1>1 DEF IInv, EventMirrorsJob, IsSync, JobIds, SameJobs
  <1>9. \A k \in DOMAIN jobs : Transactional(k)' <=> Transactional(k)
    BY <1>1 DEF Transactional, IsSync, SameJobs
  <1>10. EffectsMatchOutcome'
    <2>1. \A k \in DOMAIN jobs : Transactional(k) => jobs'[k] = jobs[k]
      BY <1>1
    <2> QED
      BY <1>1, <1>9, <2>1 DEF IInv, EffectsMatchOutcome, JobIds
  <1>11. Attempts'
    <2>1. \A v \in Workers : Busy(v) => worker[v].job \in DOMAIN jobs
      BY DEF IInv, ExclusiveAttempt, JobIds
    <2>2. ASSUME NEW v \in Workers
          PROVE  /\ worker'[v].pc = "processing" => ~worker'[v].ok
                 /\ worker'[v].pc = "recorded" => (worker'[v].ok <=> worker'[v].wrote)
                 /\ worker'[v].pc = "cut" => worker'[v].job \in DOMAIN jobs
      BY <1>3 DEF IInv, Attempts, JobIds
    <2>3. ASSUME NEW v \in Workers, Busy(v), worker'[v].wrote, ~Transactional(worker[v].job)
          PROVE  jobs'[worker[v].job].effects >= 1
      <3>1. CASE v = w
        BY <1>1, <3>1
      <3>2. CASE v # w
        <4>1. worker'[v] = worker[v] /\ worker[v].job \in DOMAIN jobs
          BY <1>3, <2>1, <2>3, <3>2
        <4> QED
          BY <1>1, <2>3, <4>1 DEF IInv, Attempts
      <3> QED
        BY <3>1, <3>2
    <2>4. \A v \in Workers : Busy(v)' <=> Busy(v)
      BY <1>5 DEF Busy
    <2>5. \A v \in Workers : Busy(v) => (Transactional(worker[v].job)' <=> Transactional(worker[v].job))
      BY <1>1, <1>5, <2>1 DEF Transactional, IsSync, SameJobs
    <2>6. \A v \in Workers : (Busy(v) /\ worker[v].wrote /\ ~Transactional(worker[v].job))'
                               => jobs'[worker'[v].job].effects >= 1
      BY <1>5, <2>3, <2>4, <2>5
    <2> QED
      BY <1>1, <2>2, <2>6 DEF Attempts, JobIds
  <1> QED
    BY <1>4, <1>6, <1>7, <1>8, <1>10, <1>11 DEF IInv

\* A refresh commits by itself, or waits for the outcome of its attempt.
LEMMA RefreshStep ==
    ASSUME IInv, NEW w \in Workers, Refresh(w)
    PROVE  IInv'
  <1> DEFINE j == worker[w].job
  <1>1. Busy(w) /\ j \in DOMAIN jobs
    BY DEF IInv, ExclusiveAttempt, Refresh, Busy, JobIds
  <1>2. worker' = [worker EXCEPT ![w].wrote = TRUE] /\ worker \in [Workers -> Transaction]
    BY DEF IInv, TypeOK, Refresh
  <1>3. CASE Transactional(j) /\ UNCHANGED jobs
    <2>0. worker' \in [Workers -> Transaction]
      BY <1>2 DEF Transaction
    <2>1. TypeOK'
      BY <2>0, <1>3 DEF IInv, TypeOK, Refresh
    <2>2. ExclusiveAttempt'
      BY <1>2, <1>3 DEF IInv, ExclusiveAttempt, Busy, Unfinished, JobIds
    <2>3. Attempts'
      BY <1>2, <1>3 DEF IInv, Attempts, Refresh, Busy, Transactional, IsSync, JobIds
    <2> QED
      BY <1>3, <2>1, <2>2, <2>3, TablesKept DEF IInv, Refresh
  <1>4. CASE ~Transactional(j) /\ jobs' = [jobs EXCEPT ![j].effects = @ + 1]
    BY <1>1, <1>2, <1>4, WriteStep DEF Refresh
  <1> QED
    BY <1>3, <1>4 DEF Refresh

\* A late refresh is one too.
LEMMA CutRefreshStep ==
    ASSUME IInv, NEW w \in Workers, CutRefresh(w)
    PROVE  IInv'
  <1>1. worker[w].job \in DOMAIN jobs
    BY DEF IInv, Attempts, CutRefresh, JobIds
  <1> QED
    BY <1>1, WriteStep DEF CutRefresh

\* An attempt that loses its claim has none any more, but remembers its job.
LEMMA CutStep ==
    ASSUME IInv, NEW w \in Workers, Cut(w)
    PROVE  IInv'
  <1>1. /\ worker' = [worker EXCEPT ![w].pc = "cut"] /\ worker \in [Workers -> Transaction]
        /\ worker[w].job \in DOMAIN jobs
        /\ UNCHANGED <<saved, jobs, begun, event, request, now>>
    BY DEF IInv, TypeOK, ExclusiveAttempt, Cut, Busy, JobIds
  <1>2. TypeOK'
    <2>1. worker' \in [Workers -> Transaction]
      BY <1>1 DEF Transaction
    <2>2. abandons' \in Nat
      BY DEF IInv, TypeOK, Cut
    <2> QED
      BY <1>1, <2>1, <2>2 DEF IInv, TypeOK
  <1>3. ExclusiveAttempt'
    BY <1>1 DEF IInv, ExclusiveAttempt, Busy, Unfinished, JobIds
  <1>4. Attempts'
    BY <1>1 DEF IInv, Attempts, Transaction, Busy, Transactional, IsSync, JobIds
  <1> QED
    BY <1>1, <1>2, <1>3, <1>4, TablesKept DEF IInv

\* The end of an attempt's work: only its own transaction changes.
LEMMA RecordStep ==
    ASSUME IInv, NEW w \in Workers, Succeed(w) \/ Fail(w)
    PROVE  IInv'
  <1>1. PICK t \in Transaction :
           /\ worker' = [worker EXCEPT ![w] = t]
           /\ t.pc = "recorded" /\ t.job = worker[w].job
           /\ t.ok <=> t.wrote
           /\ t.wrote => worker[w].wrote
    <2>1. worker[w] \in Transaction /\ worker[w].pc = "processing" /\ ~worker[w].ok
      BY DEF IInv, TypeOK, Attempts, Succeed, Fail
    <2>2. CASE Succeed(w)
      BY <2>1, <2>2 DEF Succeed, Transaction
    <2>3. CASE Fail(w)
      <3> DEFINE t == [UndoWrites(worker[w]) EXCEPT !.pc = "recorded"]
      <3>1. t \in Transaction /\ t.pc = "recorded" /\ t.job = worker[w].job
        BY <2>1 DEF UndoWrites, Transaction
      <3>2. ~t.ok /\ ~t.wrote
        BY <2>1 DEF UndoWrites, Transaction
      <3>3. worker' = [worker EXCEPT ![w] = t]
        BY <2>3 DEF Fail
      <3> QED
        BY <3>1, <3>2, <3>3
    <2> QED
      BY <2>2, <2>3
  <1>2. Busy(w) /\ UNCHANGED <<saved, jobs, begun, event, request, now, abandons>>
    BY DEF Succeed, Fail, Busy
  <1>3. TypeOK'
    BY <1>1, <1>2 DEF IInv, TypeOK
  <1>4. ExclusiveAttempt'
    BY <1>1, <1>2 DEF IInv, TypeOK, ExclusiveAttempt, Busy, Unfinished, JobIds
  <1>5. Attempts'
    BY <1>1, <1>2 DEF IInv, TypeOK, Attempts, Busy, Transactional, IsSync, JobIds
  <1> QED
    BY <1>2, <1>3, <1>4, <1>5, TablesKept DEF IInv

\* An attempt that dies leaves the tables and the other attempts alone.
LEMMA DropStep ==
    ASSUME IInv, NEW w \in Workers, Abandon(w) \/ Timeout(w) \/ CutEnd(w)
    PROVE  IInv'
  <1>1. /\ worker' = [worker EXCEPT ![w] = Idle]
        /\ abandons' \in Nat
        /\ UNCHANGED <<saved, jobs, begun, event, request, now>>
    BY DEF IInv, TypeOK, Abandon, Timeout, CutEnd
  <1>2. TypeOK'
    BY <1>1 DEF IInv, TypeOK, Idle, NoJob, Transaction
  <1>3. ExclusiveAttempt'
    BY <1>1 DEF IInv, TypeOK, ExclusiveAttempt, Idle, Busy, Unfinished, JobIds
  <1>4. Attempts'
    BY <1>1 DEF IInv, TypeOK, Attempts, Idle, Busy, Transactional, IsSync, JobIds
  <1> QED
    BY <1>1, <1>2, <1>3, <1>4, TablesKept DEF IInv

\* The clock moves nothing else.
LEMMA TickStep ==
    ASSUME IInv, Tick
    PROVE  IInv'
  <1>1. TypeOK'
    BY DEF IInv, TypeOK, Tick
  <1> QED
    BY <1>1, TablesKept, AttemptsKept DEF IInv, Tick

\* Closing a row settles its status and keeps its identity.
LEMMA ClosedRow ==
    ASSUME NEW row \in JobRow, NEW t \in Transaction, NEW n \in Nat
    PROVE  /\ Closed(row, t, n) \in JobRow
           /\ Closed(row, t, n).integration = row.integration
           /\ Closed(row, t, n).event = row.event
           /\ Closed(row, t, n).created = row.created
           /\ Closed(row, t, n).status = IF t.ok THEN "completed" ELSE "failed"
           /\ Closed(row, t, n).effects = row.effects + n
           /\ Closed(row, t, n).attempts >= row.attempts
  <1>1. t.start + RetryDelay \in Nat
    BY BoundsAssumption DEF Transaction
  <1>2. row.attempts + 1 \in Nat /\ row.effects + n \in Nat /\ row.available \in Nat
    BY DEF JobRow
  <1> DEFINE available == IF t.ok THEN row.available ELSE t.start + RetryDelay
             status == IF t.ok THEN "completed" ELSE "failed"
  <1>3. available \in Nat /\ status \in {"failed", "completed"}
    BY <1>1, <1>2
  <1>4. Closed(row, t, n) = [row EXCEPT !.status = status, !.attempts = row.attempts + 1,
                                        !.available = available, !.effects = row.effects + n]
    BY DEF Closed
  <1> HIDE DEF available, status
  <1>5. /\ Closed(row, t, n) \in JobRow
        /\ Closed(row, t, n).integration = row.integration
        /\ Closed(row, t, n).event = row.event
        /\ Closed(row, t, n).created = row.created
        /\ Closed(row, t, n).status = status
        /\ Closed(row, t, n).effects = row.effects + n
        /\ Closed(row, t, n).attempts = row.attempts + 1
    BY <1>2, <1>3, <1>4 DEF JobRow
  <1> QED
    BY <1>2, <1>5 DEF status, JobRow

\* The commit closes the worker's own row.  That row was unfinished, and until
\* now nobody else could change it.
LEMMA CommitStep ==
    ASSUME IInv, NEW w \in Workers, Commit(w)
    PROVE  IInv'
  <1> DEFINE t == worker[w]
             j == t.job
             n == IF Transactional(j) /\ t.wrote THEN 1 ELSE 0
             done == IF t.ok THEN "completed" ELSE "failed"
  <1>0. Busy(w) /\ j \in DOMAIN jobs /\ Unfinished(j) /\ t \in Transaction /\ (t.ok <=> t.wrote)
    BY DEF IInv, TypeOK, ExclusiveAttempt, Attempts, Commit, Busy, JobIds
  <1>1. jobs[j] \in JobRow
    BY <1>0, LenProperties, ElementOfSeq DEF IInv, TypeOK
  <1>2. PICK row \in JobRow :
           /\ jobs' = [jobs EXCEPT ![j] = row]
           /\ row.integration = jobs[j].integration /\ row.event = jobs[j].event
           /\ row.created = jobs[j].created
           /\ row.status = done
           /\ row.effects = jobs[j].effects + n
    <2>1. n \in Nat
      OBVIOUS
    <2>2. jobs' = [jobs EXCEPT ![j] = Closed(jobs[j], t, n)]
      BY DEF Commit
    <2> HIDE DEF n
    <2>3. /\ Closed(jobs[j], t, n) \in JobRow
          /\ Closed(jobs[j], t, n).integration = jobs[j].integration
          /\ Closed(jobs[j], t, n).event = jobs[j].event
          /\ Closed(jobs[j], t, n).created = jobs[j].created
          /\ Closed(jobs[j], t, n).status = done
          /\ Closed(jobs[j], t, n).effects = jobs[j].effects + n
      BY <1>0, <1>1, <2>1, ClosedRow
    <2> QED
      BY <2>2, <2>3
  <1>4. /\ jobs' \in Seq(JobRow)
        /\ DOMAIN jobs' = DOMAIN jobs
        /\ jobs'[j] = row
        /\ \A k \in DOMAIN jobs : k # j => jobs'[k] = jobs[k]
        /\ \A k \in DOMAIN jobs : jobs'[k].event = jobs[k].event
                                  /\ jobs'[k].integration = jobs[k].integration
        /\ \A v \in Workers : v # w /\ Busy(v) => worker[v].job # j
    <2> USE DEF SameJobs
    <2> HIDE DEF done, n
    <2> QED
      BY <1>0, <1>2, OwnRowUpdate
  <1>5. worker' = [worker EXCEPT ![w] = Idle]
    BY DEF Commit
  <1>6. /\ IsSync(j) => event' = event
        /\ ~IsSync(j) => /\ jobs[j].event \in Events
                         /\ event' = [event EXCEPT ![jobs[j].event] =
                                        IF t.ok THEN "processed" ELSE "failed"]
    BY <1>1 DEF Commit, Mirror, IsSync, JobRow
  <1>7. TypeOK'
    BY <1>4, <1>5, <1>6 DEF IInv, TypeOK, Commit, Idle, NoJob, Transaction, EventStatus
  <1>8. ExclusiveAttempt'
    BY <1>4, <1>5 DEF IInv, TypeOK, ExclusiveAttempt, Idle, Busy, Unfinished, JobIds
  <1>9. OneActiveSync'
    <2>1. \A k \in DOMAIN jobs : jobs'[k].status \in {"pending", "failed"} => Unfinished(k)
      BY <1>0, <1>4 DEF Unfinished
    <2> QED
      BY <1>4, <2>1 DEF IInv, OneActiveSync, IsSync, Unfinished, JobIds
  <1>10. EventMirrorsJob'
    <2> DEFINE mirror == IF t.ok THEN "processed" ELSE "failed"
    <2>1. mirror = (IF row.status = "completed" THEN "processed" ELSE row.status) /\ mirror # "none"
      BY <1>2
    <2>2. IsSync(j) => event' = event
      BY <1>6
    <2>3. ~IsSync(j) => jobs[j].event \in Events
                        /\ event' = [event EXCEPT ![jobs[j].event] = mirror]
      BY <1>6
    <2> HIDE DEF mirror, done
    <2>4. \A e \in Events : event'[e] # "none" => \E k \in DOMAIN jobs' : jobs'[k].event = e
      <3> SUFFICES ASSUME NEW e \in Events, event'[e] # "none"
                   PROVE  \E k \in DOMAIN jobs : jobs[k].event = e
        BY <1>4
      <3> QED
        BY <1>0, <2>2, <2>3 DEF IInv, TypeOK, EventMirrorsJob, JobIds
    <2>5. \A k, l \in DOMAIN jobs' :
             jobs'[k].event # NoEvent /\ jobs'[k].event = jobs'[l].event => k = l
      BY <1>4 DEF IInv, EventMirrorsJob, IsSync, JobIds
    <2>6. \A k \in DOMAIN jobs' : jobs'[k].event # NoEvent =>
             event'[jobs'[k].event] = IF jobs'[k].status = "completed" THEN "processed"
                                      ELSE jobs'[k].status
      <3> SUFFICES ASSUME NEW k \in DOMAIN jobs, jobs[k].event # NoEvent
                   PROVE  event'[jobs[k].event] = IF jobs'[k].status = "completed"
                                                  THEN "processed" ELSE jobs'[k].status
        BY <1>4
      <3>1. CASE k = j
        BY <1>4, <2>1, <2>3, <3>1 DEF IInv, TypeOK, IsSync
      <3>2. CASE k # j
        <4>1. jobs'[k] = jobs[k] /\ jobs[k].event # jobs[j].event
          BY <1>0, <1>4, <3>2 DEF IInv, EventMirrorsJob, IsSync, JobIds
        <4>2. event'[jobs[k].event] = event[jobs[k].event]
          <5>1. jobs[k].event \in Events
            <6>1. jobs[k] \in JobRow
              BY LenProperties, ElementOfSeq DEF IInv, TypeOK
            <6> QED
              BY <6>1 DEF JobRow
          <5>2. event \in [Events -> EventStatus]
            BY DEF IInv, TypeOK
          <5>3. CASE IsSync(j)
            BY <2>2, <5>3
          <5>4. CASE ~IsSync(j)
            BY <2>3, <4>1, <5>1, <5>2, <5>4
          <5> QED
            BY <5>3, <5>4
        <4> QED
          BY <4>1, <4>2 DEF IInv, EventMirrorsJob, IsSync, JobIds
      <3> QED
        BY <3>1, <3>2
    <2> QED
      BY <2>4, <2>5, <2>6 DEF EventMirrorsJob, IsSync, JobIds
  <1>11. EffectsMatchOutcome'
    <2>1. jobs[j].status # "completed" /\ jobs[j].effects \in Nat
      BY <1>0, <1>1 DEF Unfinished, JobRow
    <2>2. Transactional(j) => row.effects = IF row.status = "completed" THEN 1 ELSE 0
      BY <1>0, <1>2, <2>1 DEF IInv, EffectsMatchOutcome, JobIds
    <2>3. ~Transactional(j) /\ row.status = "completed" => row.effects >= 1
      BY <1>0, <1>2, <2>1 DEF IInv, Attempts
    <2> QED
      BY <1>2, <1>4, <2>2, <2>3 DEF IInv, EffectsMatchOutcome, Transactional, IsSync, JobIds
  <1>12. Attempts'
    BY <1>4, <1>5
       DEF IInv, TypeOK, Attempts, ExclusiveAttempt, Idle, Busy, Transactional, IsSync, JobIds
  <1> QED
    BY <1>7, <1>8, <1>9, <1>10, <1>11, <1>12 DEF IInv

-----------------------------------------------------------------------------
(* The invariant                                                           *)

\* The empty queue satisfies the invariant.
LEMMA InitIInv == Init => IInv
  <1> SUFFICES ASSUME Init PROVE IInv
    OBVIOUS
  <1>1. jobs = <<>> /\ DOMAIN jobs = {}
    BY DEF Init
  <1>2. TypeOK
    BY <1>1 DEF Init, TypeOK, EventStatus, Idle, NoJob, Transaction, Request, Reply
  <1>3. ExclusiveAttempt /\ Attempts
    BY DEF Init, ExclusiveAttempt, Attempts, Busy, Idle
  <1>4. OneActiveSync /\ EventMirrorsJob /\ EffectsMatchOutcome
    BY <1>1 DEF Init, OneActiveSync, EventMirrorsJob, EffectsMatchOutcome, JobIds
  <1> QED
    BY <1>2, <1>3, <1>4 DEF IInv

\* Every action, and the stutter, keeps the invariant.
LEMMA NextIInv == IInv /\ [Next]_vars => IInv'
  <1> SUFFICES ASSUME IInv, [Next]_vars PROVE IInv'
    OBVIOUS
  <1>1. CASE \E i \in Integrations : SaveIntegration(i)
    BY <1>1, SaveStep
  <1>2. CASE \E r \in Requests : EnqueueBegin(r) \/ EnqueueInsert(r) \/ EnqueueLookup(r)
    BY <1>2, EnqueueBeginStep, EnqueueInsertStep, EnqueueLookupStep
  <1>3. CASE \E e \in Events : StoreEvent(e)
    BY <1>3, StoreEventStep
  <1>4. CASE \E w \in Workers : Claim(w) \/ Finish(w) \/ Abandon(w) \/ Cut(w)
    BY <1>4, ClaimStep, RefreshStep, RecordStep, CommitStep, CutStep, CutRefreshStep, DropStep
       DEF Finish
  <1>5. CASE Tick
    BY <1>5, TickStep
  <1>6. CASE UNCHANGED vars
    <2>1. TypeOK'
      BY <1>6 DEF IInv, TypeOK, vars
    <2> QED
      BY <1>6, <2>1, TablesKept, AttemptsKept DEF IInv, vars
  <1> QED
    BY <1>1, <1>2, <1>3, <1>4, <1>5, <1>6 DEF Next

\* The invariant that carries the theorems below.
THEOREM Safety == Spec => []IInv
  BY InitIInv, NextIInv, PTL DEF Spec

\* Every variable keeps its type in every behaviour.
THEOREM TypeCorrect == Spec => []TypeOK
  <1>1. IInv => TypeOK
    BY DEF IInv
  <1> QED
    BY <1>1, Safety, PTL

\* However many replicas run the worker, a job has one attempt at a time.
THEOREM AttemptsAreExclusive == Spec => []ExclusiveAttempt
  <1>1. IInv => ExclusiveAttempt
    BY DEF IInv
  <1> QED
    BY <1>1, Safety, PTL

\* However many requests race, an integration has one sync in the queue.
THEOREM SyncsAreCoalesced == Spec => []OneActiveSync
  <1>1. IInv => OneActiveSync
    BY DEF IInv
  <1> QED
    BY <1>1, Safety, PTL

\* An event and its one job agree at every commit.
THEOREM EventsMirrorJobs == Spec => []EventMirrorsJob
  <1>1. IInv => EventMirrorsJob
    BY DEF IInv
  <1> QED
    BY <1>1, Safety, PTL

\* The facts of a Stripe event are committed exactly once, with its completion,
\* whatever fails, crashes or times out on the way.
THEOREM EffectsAreAtomic == Spec => []EffectsMatchOutcome
  <1>1. IInv => EffectsMatchOutcome
    BY DEF IInv
  <1> QED
    BY <1>1, Safety, PTL

-----------------------------------------------------------------------------
(* The history of a row                                                    *)

\* A step that leaves the table alone keeps its rows.
LEMMA KeptIfUnchanged ==
    ASSUME IInv, UNCHANGED jobs
    PROVE  RowsKept
  <1>1. \A j \in DOMAIN jobs : jobs[j].attempts \in Nat
    <2> TAKE j \in DOMAIN jobs
    <2>1. jobs[j] \in JobRow
      BY LenProperties, ElementOfSeq DEF IInv, TypeOK
    <2> QED
      BY <2>1 DEF JobRow
  <1> QED
    BY <1>1 DEF RowsKept, JobIds

\* So does an insert.
LEMMA KeptByInsert ==
    ASSUME IInv, NEW row \in JobRow, jobs' = Append(jobs, row)
    PROVE  RowsKept
  <1>1. \A j \in DOMAIN jobs : j \in DOMAIN jobs' /\ jobs'[j] = jobs[j]
    BY InsertRow DEF IInv, TypeOK
  <1>2. \A j \in DOMAIN jobs : jobs[j].attempts \in Nat
    <2> TAKE j \in DOMAIN jobs
    <2>1. jobs[j] \in JobRow
      BY LenProperties, ElementOfSeq DEF IInv, TypeOK
    <2> QED
      BY <2>1 DEF JobRow
  <1> QED
    BY <1>1, <1>2 DEF RowsKept, JobIds

\* A worker only ever rewrites the row it holds, and that row is unfinished.
LEMMA KeptByOwner ==
    ASSUME IInv, NEW w \in Workers, Busy(w), NEW row \in JobRow,
           row.integration = jobs[worker[w].job].integration,
           row.event = jobs[worker[w].job].event, row.created = jobs[worker[w].job].created,
           row.attempts >= jobs[worker[w].job].attempts,
           jobs' = [jobs EXCEPT ![worker[w].job] = row]
    PROVE  RowsKept
  <1>1. /\ DOMAIN jobs' = DOMAIN jobs
        /\ jobs'[worker[w].job] = row
        /\ \A k \in DOMAIN jobs : k # worker[w].job => jobs'[k] = jobs[k]
    BY OwnRowUpdate
  <1>2. jobs[worker[w].job].status # "completed"
    BY DEF IInv, ExclusiveAttempt, Unfinished
  <1>3. \A j \in DOMAIN jobs : jobs[j].attempts \in Nat
    <2> TAKE j \in DOMAIN jobs
    <2>1. jobs[j] \in JobRow
      BY LenProperties, ElementOfSeq DEF IInv, TypeOK
    <2> QED
      BY <2>1 DEF JobRow
  <1> QED
    BY <1>1, <1>2, <1>3 DEF RowsKept, JobIds

\* A refresh only counts effects.
LEMMA KeptByWrite ==
    ASSUME IInv, NEW j \in DOMAIN jobs, jobs' = [jobs EXCEPT ![j].effects = @ + 1]
    PROVE  RowsKept
  <1>1. /\ DOMAIN jobs' = DOMAIN jobs /\ SameJobs
        /\ \A k \in DOMAIN jobs : jobs'[k].status = jobs[k].status
        /\ \A k \in DOMAIN jobs : jobs'[k].attempts = jobs[k].attempts
    BY WrittenTable
  <1>2. \A k \in DOMAIN jobs : jobs[k].attempts \in Nat
    <2> TAKE k \in DOMAIN jobs
    <2>1. jobs[k] \in JobRow
      BY LenProperties, ElementOfSeq DEF IInv, TypeOK
    <2> QED
      BY <2>1 DEF JobRow
  <1> QED
    BY <1>1, <1>2 DEF RowsKept, SameJobs, JobIds

\* Every step keeps the outcome of finished jobs and the identity of the others.
LEMMA StepKeepsRows == IInv /\ [Next]_vars => RowsKept
  <1> SUFFICES ASSUME IInv, [Next]_vars PROVE RowsKept
    OBVIOUS
  <1> USE DEF IInv
  <1>1. ASSUME NEW r \in Requests, EnqueueInsert(r), jobs' # jobs PROVE RowsKept
    <2>1. jobs' = Append(jobs, NewRow(Asked[r], NoEvent, request[r].created, request[r].start))
      BY <1>1 DEF EnqueueInsert
    <2> QED
      BY <2>1, InsertedRow, KeptByInsert
  <1>2. ASSUME NEW e \in Events, StoreEvent(e) PROVE RowsKept
    <2>1. NewRow(EventSource[e], e, begun + 1, now) \in JobRow
      BY SourcesAssumption, NewRowType DEF TypeOK
    <2> QED
      BY <1>2, <2>1, KeptByInsert DEF StoreEvent
  <1>3. ASSUME NEW w \in Workers, Busy(w)
        PROVE  worker[w].job \in DOMAIN jobs /\ jobs[worker[w].job] \in JobRow
               /\ worker[w] \in Transaction
    <2>1. worker[w].job \in DOMAIN jobs
      BY <1>3 DEF ExclusiveAttempt, JobIds
    <2> QED
      BY <2>1, LenProperties, ElementOfSeq DEF TypeOK
  <1>4. ASSUME NEW w \in Workers, Refresh(w) \/ CutRefresh(w), jobs' # jobs PROVE RowsKept
    <2>1. /\ worker[w].job \in DOMAIN jobs
          /\ jobs' = [jobs EXCEPT ![worker[w].job].effects = @ + 1]
      BY <1>4 DEF ExclusiveAttempt, Attempts, Refresh, CutRefresh, Busy, JobIds
    <2> QED
      BY <2>1, KeptByWrite
  <1>5. ASSUME NEW w \in Workers, Commit(w) PROVE RowsKept
    <2> DEFINE j == worker[w].job
               n == IF Transactional(j) /\ worker[w].wrote THEN 1 ELSE 0
               row == Closed(jobs[j], worker[w], n)
    <2>1. Busy(w) /\ jobs' = [jobs EXCEPT ![j] = row] /\ n \in Nat
      BY <1>5 DEF Commit, Busy
    <2> HIDE DEF n
    <2>2. /\ row \in JobRow /\ row.attempts >= jobs[j].attempts
          /\ row.integration = jobs[j].integration /\ row.event = jobs[j].event
          /\ row.created = jobs[j].created
      BY <1>3, <2>1, ClosedRow
    <2> HIDE DEF row
    <2> QED
      BY <2>1, <2>2, KeptByOwner
  <1>6. CASE UNCHANGED jobs
    BY <1>6, KeptIfUnchanged
  <1> QED
    BY <1>1, <1>2, <1>4, <1>5, <1>6
       DEF Next, Finish, vars, SaveIntegration, EnqueueBegin, EnqueueLookup, Claim, Succeed, Fail,
           Timeout, Abandon, Cut, CutEnd, Tick

\* "completed" is final, and no row is removed, renamed, restamped or set back.
THEOREM RowsAreFinal == Spec => CompletedIsFinal
  <1>1. IInv /\ [Next]_vars => [RowsKept]_vars
    BY StepKeepsRows
  <1> QED
    BY <1>1, Safety, PTL DEF Spec, CompletedIsFinal

-----------------------------------------------------------------------------
(* What a request is answered with                                         *)

\* An insert that met an active sync remembers a sync of its integration.
JoinsSync ==
    \A r \in Requests :
        request[r].pc = "lookup" /\ request[r].joined # NoJob => request[r].joined \in Syncs(Asked[r])

\* The syncs of an integration stay its syncs.
LEMMA SyncsStay ==
    ASSUME RowsKept, NEW i, NEW j \in Syncs(i)
    PROVE  j \in Syncs(i)'
  BY DEF RowsKept, Syncs, IsSync, JobIds

\* Every step of a request leaves it at a sync it has met, or at none.
LEMMA NextJoins == IInv /\ JoinsSync /\ [Next]_vars => JoinsSync'
  <1> SUFFICES ASSUME IInv, JoinsSync, [Next]_vars
               PROVE  JoinsSync'
    OBVIOUS
  <1>1. RowsKept
    BY StepKeepsRows
  <1>2. \A q \in Requests : \A j \in Syncs(Asked[q]) : j \in Syncs(Asked[q])'
    BY <1>1, SyncsStay
  <1>3. CASE UNCHANGED request
    BY <1>2, <1>3 DEF JoinsSync
  <1>4. ASSUME NEW r \in Requests, EnqueueBegin(r) \/ EnqueueInsert(r) \/ EnqueueLookup(r)
        PROVE  JoinsSync'
    <2>1. \A q \in Requests \ {r} : request'[q] = request[q]
      BY <1>4 DEF IInv, TypeOK, EnqueueBegin, EnqueueInsert, EnqueueLookup
    <2>2. request'[r].pc = "lookup" =>
             request'[r].joined = NoJob \/ request'[r].joined \in Syncs(Asked[r])
      <3>1. request \in [Requests -> Request]
        BY DEF IInv, TypeOK
      <3>2. CASE EnqueueBegin(r)
        BY <3>1, <3>2 DEF EnqueueBegin, Reply, Inserting
      <3>3. CASE EnqueueInsert(r)
        BY <3>1, <3>3 DEF EnqueueInsert, Reply, ActiveSyncs, Syncs
      <3>4. CASE EnqueueLookup(r)
        BY <3>1, <3>4 DEF EnqueueLookup, Reply
      <3> QED
        BY <1>4, <3>2, <3>3, <3>4
    <2> QED
      BY <1>2, <2>1, <2>2 DEF JoinsSync
  <1> QED
    BY <1>3, <1>4
       DEF Next, Finish, vars, SaveIntegration, StoreEvent, Claim, Refresh, Succeed, Fail, Commit,
           Timeout, Abandon, Cut, CutRefresh, CutEnd, Tick

-----------------------------------------------------------------------------
(* The queue implements TaskQueue                                          *)

TaskRow == [integration : Integrations, event : Events \cup {NoEvent}, since : Nat,
            status : {"pending", "failed", "completed"}, attempts : Nat, effects : Nat]

TasksOf(rows) == [j \in DOMAIN rows |-> Task(rows[j])]

LEMMA TaskType == \A row \in JobRow : Task(row) \in TaskRow
  BY DEF JobRow, Task, TaskRow

\* The tasks are a sequence like the rows.
LEMMA TaskTable ==
    ASSUME NEW rows \in Seq(JobRow)
    PROVE  /\ TasksOf(rows) \in Seq(TaskRow)
           /\ Len(TasksOf(rows)) = Len(rows)
           /\ DOMAIN TasksOf(rows) = DOMAIN rows
           /\ \A j \in DOMAIN rows : rows[j] \in JobRow /\ TasksOf(rows)[j] = Task(rows[j])
  <1>1. Len(rows) \in Nat /\ DOMAIN rows = 1 .. Len(rows)
    BY LenProperties
  <1>2. \A j \in DOMAIN rows : rows[j] \in JobRow
    BY <1>1, ElementOfSeq
  <1>3. TasksOf(rows) \in [1 .. Len(rows) -> TaskRow]
    BY <1>1, <1>2, TaskType DEF TasksOf
  <1>4. TasksOf(rows) \in Seq(TaskRow)
    BY <1>1, <1>3
  <1>5. Len(TasksOf(rows)) = Len(rows)
    <2>1. Len(TasksOf(rows)) \in Nat /\ DOMAIN TasksOf(rows) = 1 .. Len(TasksOf(rows))
      BY <1>4, LenProperties
    <2>2. DOMAIN TasksOf(rows) = 1 .. Len(rows)
      BY <1>3
    <2>3. \A m, n \in Nat : (1 .. m = 1 .. n) => m = n
      <3>1. SUFFICES ASSUME NEW m \in Nat, NEW n \in Nat, m < n PROVE 1 .. m # 1 .. n
        OBVIOUS
      <3>2. n \in 1 .. n /\ n \notin 1 .. m
        BY <3>1
      <3> QED
        BY <3>2, Zenon
    <2> QED
      BY <1>1, <2>1, <2>2, <2>3, Zenon
  <1> QED
    BY <1>1, <1>2, <1>4, <1>5 DEF TasksOf

\* Inserting a row adds its task.
LEMMA TaskAdded ==
    ASSUME NEW rows \in Seq(JobRow), NEW row \in JobRow
    PROVE  TasksOf(Append(rows, row)) = Append(TasksOf(rows), Task(row))
  <1> DEFINE more == Append(rows, row)
             tasks == Append(TasksOf(rows), Task(row))
  <1>1. /\ more \in Seq(JobRow) /\ Len(more) = Len(rows) + 1 /\ more[Len(rows) + 1] = row
        /\ \A j \in 1 .. Len(rows) : more[j] = rows[j]
    BY AppendProperties
  <1>2. /\ Len(rows) \in Nat /\ DOMAIN rows = 1 .. Len(rows) /\ DOMAIN more = 1 .. Len(rows) + 1
    BY <1>1, LenProperties
  <1>3. /\ TasksOf(rows) \in Seq(TaskRow) /\ Len(TasksOf(rows)) = Len(rows)
        /\ \A j \in 1 .. Len(rows) : TasksOf(rows)[j] = Task(rows[j])
    BY <1>2, TaskTable
  <1>4. /\ tasks \in Seq(TaskRow) /\ Len(tasks) = Len(rows) + 1 /\ tasks[Len(rows) + 1] = Task(row)
        /\ \A j \in 1 .. Len(rows) : tasks[j] = Task(rows[j])
    BY <1>3, TaskType, AppendProperties
  <1> HIDE DEF more, tasks
  <1>5. /\ TasksOf(more) \in Seq(TaskRow) /\ Len(TasksOf(more)) = Len(rows) + 1
        /\ \A j \in 1 .. Len(rows) + 1 : TasksOf(more)[j] = Task(more[j])
    BY <1>1, <1>2, TaskTable
  <1>6. \A j \in 1 .. Len(rows) + 1 : TasksOf(more)[j] = tasks[j]
    <2> TAKE j \in 1 .. Len(rows) + 1
    <2>1. CASE j = Len(rows) + 1
      BY <1>1, <1>4, <1>5, <2>1
    <2>2. CASE j \in 1 .. Len(rows)
      BY <1>1, <1>4, <1>5, <2>2
    <2> QED
      BY <1>2, <2>1, <2>2
  <1>7. TasksOf(more) = tasks
    BY <1>4, <1>5, <1>6, SeqEqual
  <1> QED
    BY <1>7 DEF more, tasks

\* Updating a row updates its task.
LEMMA TaskUpdated ==
    ASSUME NEW rows \in Seq(JobRow), NEW j \in DOMAIN rows, NEW row \in JobRow
    PROVE  TasksOf([rows EXCEPT ![j] = row]) = [TasksOf(rows) EXCEPT ![j] = Task(row)]
  BY DEF TasksOf

\* What TaskQueue says of tasks is what JobQueue says of rows.
LEMMA TaskView ==
    ASSUME IInv
    PROVE  /\ jobs \in Seq(JobRow) /\ Tasks = TasksOf(jobs)
           /\ DOMAIN Tasks = DOMAIN jobs /\ Len(Tasks) = Len(jobs) /\ Len(jobs) \in Nat
           /\ \A j \in DOMAIN jobs :
                 /\ Tasks[j] = Task(jobs[j]) /\ jobs[j] \in JobRow
                 /\ Tasks[j].since = jobs[j].created
                 /\ Promise!IsSync(j) <=> IsSync(j)
                 /\ Promise!Open(j) <=> Unfinished(j)
                 /\ Promise!Transactional(j) <=> Transactional(j)
           /\ \A i : Promise!Syncs(i) = Syncs(i) /\ Promise!OpenSyncs(i) = ActiveSyncs(i)
  <1>1. jobs \in Seq(JobRow) /\ Tasks = TasksOf(jobs)
    BY DEF IInv, TypeOK, Tasks, TasksOf, JobIds
  <1>2. DOMAIN Tasks = DOMAIN jobs /\ Len(Tasks) = Len(jobs) /\ Len(jobs) \in Nat
    BY <1>1, TaskTable, LenProperties
  <1>3. ASSUME NEW j \in DOMAIN jobs
        PROVE  /\ Tasks[j] = Task(jobs[j]) /\ jobs[j] \in JobRow
               /\ Tasks[j].since = jobs[j].created
               /\ Promise!IsSync(j) <=> IsSync(j)
               /\ Promise!Open(j) <=> Unfinished(j)
               /\ Promise!Transactional(j) <=> Transactional(j)
    <2>1. Tasks[j] = Task(jobs[j]) /\ jobs[j] \in JobRow
      BY <1>1, TaskTable
    <2>2. /\ Tasks[j].event = jobs[j].event /\ Tasks[j].status = jobs[j].status
          /\ Tasks[j].integration = jobs[j].integration
          /\ Tasks[j].since = jobs[j].created
          /\ jobs[j].status \in {"pending", "failed", "completed"}
      BY <2>1 DEF Task, JobRow
    <2> QED
      BY <2>1, <2>2 DEF Promise!IsSync, Promise!Open, Promise!Transactional, IsSync, Unfinished,
                        Transactional
  <1>4. ASSUME NEW i PROVE Promise!Syncs(i) = Syncs(i) /\ Promise!OpenSyncs(i) = ActiveSyncs(i)
    <2>1. \A j \in DOMAIN jobs : Tasks[j].integration = jobs[j].integration
      <3> TAKE j \in DOMAIN jobs
      <3>1. Tasks[j] = Task(jobs[j])
        BY <1>3
      <3> QED
        BY <3>1 DEF Task
    <2>2. Promise!Syncs(i) = Syncs(i)
      BY <1>2, <1>3, <2>1 DEF Promise!Syncs, Syncs, JobIds
    <2> QED
      BY <1>3, <2>2 DEF Promise!OpenSyncs, ActiveSyncs, Syncs, JobIds
  <1> QED
    BY <1>1, <1>2, <1>3, <1>4

\* What EnqueueSync relies on: an unfinished sync is the one its integration stored
\* last (which need not be the one with the latest stamp), and an integration without
\* a row has none.
ActiveIsLast ==
    \A i \in Integrations : \A j \in ActiveSyncs(i) : \A k \in Syncs(i) : k <= j

SyncsAreSaved ==
    \A j \in JobIds : IsSync(j) => jobs[j].integration \in saved

\* An INSERT that has begun has found its integration.
AsksSaved ==
    \A r \in Requests : request[r].pc = "inserting" => Asked[r] \in saved

Shelf == ActiveIsLast /\ SyncsAreSaved

\* Rows that keep their identity leave the syncs of every integration the same.
LEMMA SyncsSame ==
    ASSUME DOMAIN jobs' = DOMAIN jobs,
           SameJobs
    PROVE  \A i : Syncs(i)' = Syncs(i)
  BY DEF Syncs, IsSync, JobIds, SameJobs

\* An insert adds to the syncs of one integration at most.
LEMMA SyncsAdded ==
    ASSUME IInv, NEW row \in JobRow, jobs' = Append(jobs, row)
    PROVE  /\ row.event # NoEvent => \A i : Syncs(i)' = Syncs(i) /\ ActiveSyncs(i)' = ActiveSyncs(i)
           /\ row.event = NoEvent =>
                 /\ Syncs(row.integration)' = Syncs(row.integration) \cup {Len(jobs) + 1}
                 /\ ActiveSyncs(row.integration)' \subseteq
                       ActiveSyncs(row.integration) \cup {Len(jobs) + 1}
                 /\ \A i : i # row.integration =>
                       Syncs(i)' = Syncs(i) /\ ActiveSyncs(i)' = ActiveSyncs(i)
  <1>1. /\ DOMAIN jobs' = DOMAIN jobs \cup {Len(jobs) + 1}
        /\ Len(jobs) + 1 \notin DOMAIN jobs
        /\ jobs'[Len(jobs) + 1] = row
        /\ \A k \in DOMAIN jobs : jobs'[k] = jobs[k]
    BY InsertRow DEF IInv, TypeOK
  <1> QED
    BY <1>1 DEF Syncs, ActiveSyncs, IsSync, Unfinished, JobIds

\* Positions in the table are at most its length.
LEMMA Positions ==
    ASSUME IInv, NEW i, NEW j \in Syncs(i)
    PROVE  j \in Nat /\ j <= Len(jobs) /\ Len(jobs) \in Nat
  <1>1. DOMAIN jobs = 1 .. Len(jobs) /\ Len(jobs) \in Nat
    BY LenProperties DEF IInv, TypeOK
  <1> QED
    BY <1>1 DEF Syncs, JobIds

\* A step that finishes or keeps syncs keeps the shelf.
LEMMA ShelfKept ==
    ASSUME Shelf, saved \subseteq saved', DOMAIN jobs' = DOMAIN jobs,
           SameJobs, \A k \in DOMAIN jobs : Unfinished(k)' => Unfinished(k)
    PROVE  Shelf'
  <1>1. \A i : Syncs(i)' = Syncs(i)
    BY SyncsSame
  <1>2. \A i : ActiveSyncs(i)' \subseteq ActiveSyncs(i)
    BY DEF ActiveSyncs, IsSync, JobIds, SameJobs
  <1>3. ActiveIsLast'
    BY <1>1, <1>2 DEF Shelf, ActiveIsLast
  <1>4. SyncsAreSaved'
    BY DEF Shelf, SyncsAreSaved, IsSync, JobIds, SameJobs
  <1> QED
    BY <1>3, <1>4 DEF Shelf

\* A new sync is the newest, and the only one that is not finished.
LEMMA ShelfAdded ==
    ASSUME IInv, Shelf, NEW row \in JobRow, jobs' = Append(jobs, row), UNCHANGED saved,
           row.event = NoEvent => row.integration \in saved /\ ActiveSyncs(row.integration) = {}
    PROVE  Shelf'
  <1> DEFINE L == Len(jobs) + 1
  <1>1. ASSUME NEW i \in Integrations, NEW j \in ActiveSyncs(i)'
        PROVE  \A k \in Syncs(i)' : k <= j
    <2>1. CASE row.event = NoEvent /\ row.integration = i
      <3>1. j = L /\ Syncs(i)' = Syncs(i) \cup {L}
        BY <1>1, <2>1, SyncsAdded
      <3>2. \A k \in Syncs(i) : k <= L
        BY Positions
      <3>3. L <= L
        BY LenProperties DEF IInv, TypeOK
      <3> QED
        BY <3>1, <3>2, <3>3
    <2>2. CASE ~(row.event = NoEvent /\ row.integration = i)
      <3>1. Syncs(i)' = Syncs(i) /\ ActiveSyncs(i)' = ActiveSyncs(i)
        BY <2>2, SyncsAdded
      <3> QED
        BY <1>1, <3>1 DEF Shelf, ActiveIsLast
    <2> QED
      BY <2>1, <2>2
  <1>2. SyncsAreSaved'
    <2>1. /\ DOMAIN jobs' = DOMAIN jobs \cup {L} /\ jobs'[L] = row
          /\ \A k \in DOMAIN jobs : jobs'[k] = jobs[k]
      BY InsertRow DEF IInv, TypeOK
    <2> HIDE DEF L
    <2> QED
      BY <2>1 DEF Shelf, SyncsAreSaved, IsSync, JobIds
  <1> QED
    BY <1>1, <1>2 DEF Shelf, ActiveIsLast

\* The row that a commit rewrites keeps its identity, and counts one attempt.
LEMMA OwnRow ==
    ASSUME IInv, NEW w \in Workers, Commit(w)
    PROVE  \E row \in JobRow :
              /\ jobs' = [jobs EXCEPT ![worker[w].job] = row]
              /\ row.integration = jobs[worker[w].job].integration
              /\ row.event = jobs[worker[w].job].event
              /\ row.created = jobs[worker[w].job].created
              /\ Task(row) = Promise!Tried(
                    Task(jobs[worker[w].job]),
                    IF worker[w].ok THEN "completed" ELSE "failed",
                    jobs[worker[w].job].effects
                       + (IF Transactional(worker[w].job) /\ worker[w].wrote THEN 1 ELSE 0))
  <1> DEFINE j == worker[w].job
             n == IF Transactional(j) /\ worker[w].wrote THEN 1 ELSE 0
             row == Closed(jobs[j], worker[w], n)
             done == IF worker[w].ok THEN "completed" ELSE "failed"
  <1>1. Busy(w) /\ j \in DOMAIN jobs /\ worker[w] \in Transaction
    BY DEF IInv, TypeOK, ExclusiveAttempt, Commit, Busy, JobIds
  <1>2. jobs[j] \in JobRow
    BY <1>1, LenProperties, ElementOfSeq DEF IInv, TypeOK
  <1>3. jobs' = [jobs EXCEPT ![j] = row] /\ n \in Nat
    BY DEF Commit
  <1> HIDE DEF n
  <1>4. /\ row \in JobRow /\ row.integration = jobs[j].integration /\ row.event = jobs[j].event
        /\ row.created = jobs[j].created
    BY <1>1, <1>2, <1>3, ClosedRow
  <1>5. /\ row.status = done /\ row.effects = jobs[j].effects + n
        /\ row.attempts = jobs[j].attempts + 1
    BY <1>2 DEF Closed, JobRow
  <1> HIDE DEF row
  <1>6. Task(row) = Promise!Tried(Task(jobs[j]), done, jobs[j].effects + n)
    BY <1>4, <1>5 DEF Task, Promise!Tried
  <1> QED
    BY <1>3, <1>4, <1>6 DEF n

-----------------------------------------------------------------------------
(* Each step maps to a step of TaskQueue or to none                        *)

\* Rows that keep their identity are eligible as before.
LEMMA EligibleSame ==
    ASSUME IInv, DOMAIN jobs' = DOMAIN jobs, SameJobs, NEW i, NEW k,
           k # NoJob => k \in DOMAIN jobs
    PROVE  Eligible(i, k)' = Eligible(i, k)
  <1>1. Syncs(i)' = Syncs(i) /\ Syncs(i) \subseteq DOMAIN jobs
    BY SyncsSame DEF Syncs, JobIds
  <1>2. \A j \in DOMAIN jobs : jobs'[j].created = jobs[j].created
    BY DEF SameJobs
  <1> QED
    BY <1>1, <1>2 DEF Eligible

\* The syncs and the requests decide what a request may be answered with.
LEMMA AskersSame ==
    ASSUME IInv, JoinsSync, DOMAIN jobs' = DOMAIN jobs, SameJobs, UNCHANGED request
    PROVE  Askers' = Askers
  <1>1. \A q \in Requests : Candidates(q)' = Candidates(q)
    <2> TAKE q \in Requests
    <2>1. CASE request[q].pc = "lookup"
      <3>1. request[q].joined # NoJob => request[q].joined \in DOMAIN jobs
        BY <2>1 DEF JoinsSync, Syncs, JobIds
      <3> QED
        BY <2>1, <3>1, EligibleSame DEF Candidates
    <2>2. CASE request[q].pc # "lookup"
      BY <2>2 DEF Candidates
    <2> QED
      BY <2>1, <2>2
  <1> QED
    BY <1>1 DEF Askers

\* A row that nobody has changed keeps its identity.
LEMMA IdentityKept == ASSUME UNCHANGED jobs PROVE SameJobs
  BY DEF SameJobs

LEMMA TasksSame == ASSUME UNCHANGED jobs PROVE Tasks' = Tasks
  BY DEF Tasks, JobIds

\* A table that grows by a row, or whose row j is rewritten.
LEMMA TasksAfter ==
    ASSUME IInv, NEW row \in JobRow
    PROVE  /\ jobs' = Append(jobs, row) => Tasks' = Append(Tasks, Task(row))
           /\ \A j \in DOMAIN jobs : jobs' = [jobs EXCEPT ![j] = row] =>
                 Tasks' = [Tasks EXCEPT ![j] = Task(row)]
  <1>1. jobs \in Seq(JobRow) /\ Tasks = TasksOf(jobs)
    BY TaskView
  <1>2. Tasks' = TasksOf(jobs')
    BY DEF Tasks, TasksOf, JobIds
  <1>3. TasksOf(Append(jobs, row)) = Append(TasksOf(jobs), Task(row))
    BY <1>1, TaskAdded
  <1>4. \A j \in DOMAIN jobs : TasksOf([jobs EXCEPT ![j] = row]) = [TasksOf(jobs) EXCEPT ![j] = Task(row)]
    BY <1>1, TaskUpdated
  <1> QED
    BY <1>1, <1>2, <1>3, <1>4, Zenon

LEMMA NewTaskOf == \A i, e, n, t : Task(NewRow(i, e, n, t)) = Promise!NewTask(i, e, n)
  BY DEF Task, NewRow, Promise!NewTask

\* A provider refresh of its own is seen at once, one in the attempt's transaction later.
LEMMA RefreshTask ==
    ASSUME IInv, JoinsSync, NEW w \in Workers, Refresh(w) \/ CutRefresh(w)
    PROVE  Promise!Next \/ UNCHANGED <<Tasks, begun, event, Askers>>
  <1> DEFINE j == worker[w].job
  <1>1. j \in DOMAIN jobs /\ UNCHANGED <<begun, event, request>>
    BY DEF IInv, ExclusiveAttempt, Attempts, Refresh, CutRefresh, Busy, JobIds
  <1>2. CASE jobs' = jobs
    BY <1>1, <1>2, IdentityKept, AskersSame, TasksSame
  <1>3. CASE jobs' # jobs
    <2>1. jobs' = [jobs EXCEPT ![j].effects = @ + 1] /\ ~Transactional(j)
      BY <1>3 DEF Refresh, CutRefresh
    <2> DEFINE row == [jobs[j] EXCEPT !.effects = jobs[j].effects + 1]
    <2>2. jobs[j] \in JobRow /\ DOMAIN jobs' = DOMAIN jobs /\ SameJobs
      BY <1>1, <2>1, WrittenTable
    <2>3. row \in JobRow /\ Task(row) = [Task(jobs[j]) EXCEPT !.effects = jobs[j].effects + 1]
      BY <2>2, WrittenRow
    <2>4. jobs' = [jobs EXCEPT ![j] = row]
      BY <2>1
    <2> HIDE DEF row
    <2>5. Tasks' = [Tasks EXCEPT ![j] = Task(row)] /\ Tasks[j] = Task(jobs[j])
      BY <1>1, <2>3, <2>4, TasksAfter, TaskView
    <2>6. Task(jobs[j]).effects = jobs[j].effects
      BY DEF Task
    <2>7. Tasks' = [Tasks EXCEPT ![j].effects = @ + 1]
      BY <2>3, <2>5, <2>6
    <2>8. ~Promise!Transactional(j) /\ j \in DOMAIN Tasks
      BY <1>1, <2>1, TaskView
    <2>9. Askers' = Askers
      BY <1>1, <2>2, AskersSame
    <2> QED
      BY <1>1, <2>7, <2>8, <2>9 DEF Promise!Next, Promise!Apply
  <1> QED
    BY <1>2, <1>3

\* The commit is the whole attempt.
LEMMA CommitTask ==
    ASSUME IInv, JoinsSync, NEW w \in Workers, Commit(w)
    PROVE  Promise!Next
  <1> DEFINE j == worker[w].job
             n == IF Transactional(j) /\ worker[w].wrote THEN 1 ELSE 0
             status == IF worker[w].ok THEN "completed" ELSE "failed"
             shown == IF worker[w].ok THEN "processed" ELSE "failed"
             effects == Tasks[j].effects + n
  <1>1. /\ Busy(w) /\ j \in DOMAIN jobs /\ Unfinished(j) /\ UNCHANGED <<begun, request>>
        /\ worker[w].ok <=> worker[w].wrote
        /\ worker[w].wrote /\ ~Transactional(j) => jobs[j].effects >= 1
    BY DEF IInv, ExclusiveAttempt, Attempts, Commit, Busy, JobIds
  <1>2. Tasks[j] = Task(jobs[j]) /\ jobs[j] \in JobRow /\ Tasks[j].event = jobs[j].event
        /\ Tasks[j].effects = jobs[j].effects /\ jobs[j].effects \in Nat /\ jobs[j].attempts \in Nat
    BY <1>1, TaskView DEF Task, JobRow
  <1>4. PICK row \in JobRow :
           /\ jobs' = [jobs EXCEPT ![j] = row]
           /\ row.integration = jobs[j].integration /\ row.event = jobs[j].event
           /\ row.created = jobs[j].created
           /\ Task(row) = Promise!Tried(Task(jobs[j]), status, jobs[j].effects + n)
    BY OwnRow
  <1>5. Askers' = Askers
    <2>1. DOMAIN jobs' = DOMAIN jobs /\ SameJobs
      BY <1>1, <1>4, OwnRowUpdate
    <2> QED
      BY <1>1, <2>1, AskersSame
  <1>6. Tasks' = [Tasks EXCEPT ![j] = Promise!Tried(Tasks[j], status, effects)]
    <2>1. Tasks' = [Tasks EXCEPT ![j] = Task(row)]
      BY <1>1, <1>4, TasksAfter
    <2> QED
      BY <1>2, <1>4, <2>1
  <1>7. event' = IF Promise!IsSync(j) THEN event ELSE [event EXCEPT ![Tasks[j].event] = shown]
    <2>1. Promise!IsSync(j) <=> IsSync(j)
      BY <1>1, TaskView
    <2> QED
      BY <1>2, <2>1 DEF Commit, Mirror
  <1>8. Promise!Open(j) /\ j \in DOMAIN Tasks /\ (Promise!Transactional(j) <=> Transactional(j))
    BY <1>1, TaskView
  <1>9. Promise!Close(j, status, effects, shown)
    BY <1>1, <1>5, <1>6, <1>7, <1>8 DEF Promise!Close
  <1>10. CASE worker[w].ok
    <2>1. status = "completed" /\ shown = "processed"
      BY <1>10
    <2>2. CASE Transactional(j)
      <3>1. effects = Tasks[j].effects + 1
        BY <1>1, <1>10, <2>2
      <3> HIDE DEF effects, status, shown
      <3> QED
        BY <1>8, <1>9, <2>1, <2>2, <3>1 DEF Promise!Next, Promise!Complete
    <2>3. CASE ~Transactional(j)
      <3>1. effects = Tasks[j].effects /\ Tasks[j].effects > 0
        BY <1>1, <1>2, <1>10, <2>3
      <3> HIDE DEF effects, status, shown
      <3> QED
        BY <1>8, <1>9, <2>1, <2>3, <3>1 DEF Promise!Next, Promise!Complete
    <2> QED
      BY <2>2, <2>3
  <1>11. CASE ~worker[w].ok
    <2>1. status = "failed" /\ shown = "failed"
      BY <1>11
    <2>2. effects = Tasks[j].effects
      BY <1>1, <1>2, <1>11
    <2> HIDE DEF effects, status, shown
    <2> QED
      BY <1>8, <1>9, <2>1, <2>2 DEF Promise!Next, Promise!Fail
  <1> QED
    BY <1>10, <1>11

\* An insert adds itself to what is eligible, if it is a sync of the integration.
LEMMA EligibleAfterInsert ==
    ASSUME IInv, NEW row \in JobRow, jobs' = Append(jobs, row), NEW i, NEW k,
           k # NoJob => k \in Syncs(i)
    PROVE  /\ Syncs(i)' = Syncs(i) => Eligible(i, k)' = Eligible(i, k)
           /\ Syncs(i)' = Syncs(i) \cup {Len(jobs) + 1} =>
                 Eligible(i, k)' = Eligible(i, k) \cup {Len(jobs) + 1}
  <1>1. \A j \in Syncs(i) : jobs'[j] = jobs[j] /\ j <= Len(jobs) /\ j \in Nat /\ Len(jobs) \in Nat
    BY InsertRow, Positions DEF IInv, TypeOK, Syncs, JobIds
  <1>2. k # NoJob => k <= Len(jobs) + 1
    BY <1>1
  <1> QED
    BY <1>1, <1>2 DEF Eligible

\* A new event brings its task.
LEMMA StoreTask ==
    ASSUME IInv, JoinsSync, NEW e \in Events, StoreEvent(e)
    PROVE  Promise!Store(e)
  <1> DEFINE row == NewRow(EventSource[e], e, begun + 1, now)
  <1>1. row \in JobRow
    BY SourcesAssumption, NewRowType DEF IInv, TypeOK
  <1>2. row.event # NoEvent
    BY SourcesAssumption DEF NewRow
  <1>3. jobs' = Append(jobs, row) /\ begun' = begun + 1 /\ UNCHANGED request
    BY DEF StoreEvent
  <1> HIDE DEF row
  <1>4. Tasks' = Append(Tasks, Task(row))
    BY <1>1, <1>3, TasksAfter
  <1>5. Task(row) = Promise!NewTask(EventSource[e], e, begun + 1)
    BY NewTaskOf DEF row
  <1>6. Askers' = Askers
    <2>1. \A i : Syncs(i)' = Syncs(i)
      BY <1>1, <1>2, <1>3, SyncsAdded
    <2>2. \A q \in Requests : Candidates(q)' = Candidates(q)
      <3> TAKE q \in Requests
      <3>1. CASE request[q].pc = "lookup"
        BY <1>1, <1>3, <2>1, <3>1, EligibleAfterInsert DEF JoinsSync, Candidates
      <3>2. CASE request[q].pc # "lookup"
        BY <1>3, <3>2 DEF Candidates
      <3> QED
        BY <3>1, <3>2
    <2> QED
      BY <1>3, <2>2 DEF Askers
  <1> QED
    BY <1>3, <1>4, <1>5, <1>6 DEF StoreEvent, Promise!Store

\* The insert that finds no active sync adds one, also for those that wait.
LEMMA AddTask ==
    ASSUME IInv, JoinsSync, NEW r \in Requests, request[r].pc = "inserting",
           ActiveSyncs(Asked[r]) = {}, UNCHANGED <<begun, event>>,
           jobs' = Append(jobs, NewRow(Asked[r], NoEvent, request[r].created, request[r].start)),
           request' = [request EXCEPT ![r] = Reply("accepted", NoJob, Len(jobs) + 1)]
    PROVE  Promise!Add(r)
  <1> DEFINE i == Asked[r]
             row == NewRow(i, NoEvent, request[r].created, request[r].start)
             t == Len(Tasks) + 1
  <1>1. row \in JobRow
    BY InsertedRow
  <1>2. row.event = NoEvent /\ row.integration = i
    BY DEF NewRow
  <1>3. Tasks' = Append(Tasks, Promise!NewTask(i, NoEvent, request[r].created))
    BY <1>1, NewTaskOf, TasksAfter
  <1>4. t = Len(jobs) + 1 /\ Len(jobs) \in Nat /\ Promise!OpenSyncs(i) = {}
    BY TaskView
  <1>5. Askers[r].pc = "inserting" /\ Askers[r].since = request[r].created
    BY DEF Askers
  <1>6. /\ Syncs(i)' = Syncs(i) \cup {t}
        /\ \A k : k # i => Syncs(k)' = Syncs(k)
    BY <1>1, <1>2, <1>4, SyncsAdded
  <1>7. ASSUME NEW q \in Requests
        PROVE  Askers'[q] =
                  IF q = r THEN Promise!Asker("accepted", 0, {}, t)
                  ELSE IF Askers[q].pc = "lookup" /\ Asked[q] = i
                       THEN Promise!Asker("lookup", Askers[q].since, Askers[q].candidates \cup {t},
                                          Askers[q].task)
                       ELSE Askers[q]
    <2>1. /\ Askers'[q] = [pc |-> request'[q].pc, since |-> request'[q].created,
                           candidates |-> Candidates(q)', task |-> request'[q].job]
          /\ Askers[q] = [pc |-> request[q].pc, since |-> request[q].created,
                          candidates |-> Candidates(q), task |-> request[q].job]
      BY DEF Askers
    <2>2. CASE q = r
      <3>1. request'[q].pc = "accepted" /\ request'[q].created = 0 /\ request'[q].job = t
        BY <1>4, <2>2 DEF IInv, TypeOK, Reply
      <3>2. Candidates(q)' = {}
        BY <3>1 DEF Candidates
      <3> QED
        BY <2>1, <2>2, <3>1, <3>2 DEF Promise!Asker
    <2>3. CASE q # r
      <3>1. request'[q] = request[q]
        BY <2>3
      <3>2. CASE request[q].pc = "lookup" /\ Asked[q] = i
        <4>1. request[q].joined # NoJob => request[q].joined \in Syncs(i)
          BY <3>2 DEF JoinsSync
        <4>2. Candidates(q)' = Candidates(q) \cup {t}
          <5>1. Eligible(i, request[q].joined)' = Eligible(i, request[q].joined) \cup {t}
            BY <1>1, <1>4, <1>6, <3>1, <4>1, EligibleAfterInsert
          <5> QED
            BY <3>1, <3>2, <5>1 DEF Candidates
        <4>3. Askers[q].pc = "lookup"
          BY <2>1, <3>2
        <4>4. Askers'[q] = Promise!Asker("lookup", Askers[q].since, Askers[q].candidates \cup {t},
                                          Askers[q].task)
          <5> HIDE DEF i, t
          <5>1. /\ Askers[q].since = request[q].created /\ Askers[q].candidates = Candidates(q)
                /\ Askers[q].task = request[q].job
            BY <2>1
          <5>2. Askers'[q] = [pc |-> "lookup", since |-> request[q].created,
                              candidates |-> Candidates(q) \cup {t}, task |-> request[q].job]
            BY <2>1, <3>1, <3>2, <4>2
          <5> QED
            BY <5>1, <5>2 DEF Promise!Asker
        <4> HIDE DEF i, t
        <4> QED
          BY <2>3, <3>2, <4>3, <4>4
      <3>3. CASE ~(request[q].pc = "lookup" /\ Asked[q] = i)
        <4>1. Candidates(q)' = Candidates(q)
          <5>1. CASE request[q].pc = "lookup"
            <6>1. Syncs(Asked[q])' = Syncs(Asked[q])
              BY <1>6, <3>3, <5>1
            <6>2. Eligible(Asked[q], request[q].joined)' = Eligible(Asked[q], request[q].joined)
              BY <1>1, <3>1, <5>1, <6>1, EligibleAfterInsert DEF JoinsSync
            <6> QED
              BY <3>1, <6>2 DEF Candidates
          <5>2. CASE request[q].pc # "lookup"
            BY <3>1, <5>2 DEF Candidates
          <5> QED
            BY <5>1, <5>2
        <4> QED
          BY <2>1, <2>3, <3>1, <3>3, <4>1
      <3> QED
        BY <3>2, <3>3
    <2> QED
      BY <2>2, <2>3
  <1>8. Askers' = [q \in Requests |->
                  IF q = r THEN Promise!Asker("accepted", 0, {}, t)
                  ELSE IF Askers[q].pc = "lookup" /\ Asked[q] = i
                       THEN Promise!Asker("lookup", Askers[q].since, Askers[q].candidates \cup {t},
                                          Askers[q].task)
                       ELSE Askers[q]]
    <2>1. Askers' = [q \in Requests |-> Askers'[q]]
      BY DEF Askers
    <2> HIDE DEF i, t
    <2> QED
      BY <1>7, <2>1
  <1> QED
    BY <1>3, <1>4, <1>5, <1>8 DEF Promise!Add

\* A step of one request that leaves the tasks alone.
LEMMA AskerStep ==
    ASSUME IInv, JoinsSync, NEW r \in Requests, NEW t, UNCHANGED jobs,
           request' = [request EXCEPT ![r] = t]
    PROVE  /\ Tasks' = Tasks
           /\ Candidates(r)' = IF t.pc = "lookup" THEN Eligible(Asked[r], t.joined) ELSE {}
           /\ Askers' = [Askers EXCEPT ![r] = Promise!Asker(t.pc, t.created, Candidates(r)', t.job)]
  <1>1. Tasks' = Tasks
    BY TasksSame
  <1>2. \A i, k : Eligible(i, k)' = Eligible(i, k)
    BY DEF Eligible, Syncs, IsSync, JobIds
  <1>3. request'[r] = t /\ \A q \in Requests : q # r => request'[q] = request[q]
    BY DEF IInv, TypeOK
  <1>4. Candidates(r)' = IF t.pc = "lookup" THEN Eligible(Asked[r], t.joined) ELSE {}
    BY <1>2, <1>3 DEF Candidates
  <1>5. \A q \in Requests : q # r => Candidates(q)' = Candidates(q)
    BY <1>2, <1>3 DEF Candidates
  <1>6. Askers' = [Askers EXCEPT ![r] = Promise!Asker(t.pc, t.created, Candidates(r)', t.job)]
    BY <1>3, <1>5 DEF Askers, Promise!Asker
  <1> QED
    BY <1>1, <1>4, <1>6

\* The insert begins, and gets its stamp.
LEMMA BeginTask ==
    ASSUME IInv, JoinsSync, NEW r \in Requests, request[r].pc = "new", UNCHANGED <<jobs, event>>,
           begun' = begun + 1, request' = [request EXCEPT ![r] = Inserting(begun + 1, now)]
    PROVE  Promise!Begin(r)
  <1> DEFINE t == Inserting(begun + 1, now)
  <1>1. t.pc = "inserting" /\ t.created = begun + 1 /\ t.job = 0
    BY DEF Inserting, NoJob
  <1>2. request' = [request EXCEPT ![r] = t]
    OBVIOUS
  <1> HIDE DEF t
  <1>3. Tasks' = Tasks
        /\ Askers' = [Askers EXCEPT ![r] = Promise!Asker("inserting", begun + 1, {}, 0)]
    <2>1. Candidates(r)' = {}
      BY <1>1, <1>2, AskerStep
    <2>2. Tasks' = Tasks
          /\ Askers' = [Askers EXCEPT ![r] = Promise!Asker(t.pc, t.created, Candidates(r)', t.job)]
      BY <1>2, AskerStep
    <2>3. Promise!Asker(t.pc, t.created, Candidates(r)', t.job)
             = Promise!Asker("inserting", begun + 1, {}, 0)
      BY <1>1, <2>1
    <2> QED
      BY <2>2, <2>3
  <1>4. Askers[r].pc = "new"
    BY DEF Askers
  <1> QED
    BY <1>3, <1>4 DEF Promise!Begin

\* The insert that meets an active sync, or no integration, begins to wait.
LEMMA AskTask ==
    ASSUME IInv, JoinsSync, Shelf, NEW r \in Requests, request[r].pc \in {"new", "inserting"},
           UNCHANGED <<jobs, begun, event>>,
           \/ \E j \in ActiveSyncs(Asked[r]) :
                 request' = [request EXCEPT ![r] = Reply("lookup", j, NoJob)]
           \/ /\ Asked[r] \notin saved
              /\ request' = [request EXCEPT ![r] = Reply("lookup", NoJob, NoJob)]
    PROVE  Promise!Ask(r)
  <1> DEFINE i == Asked[r]
  <1>1. PICK j : /\ request' = [request EXCEPT ![r] = Reply("lookup", j, NoJob)]
                 /\ j \in ActiveSyncs(i) \/ (j = NoJob /\ i \notin saved)
    OBVIOUS
  <1> DEFINE t == Reply("lookup", j, NoJob)
  <1>2. t.pc = "lookup" /\ t.created = 0 /\ t.joined = j /\ t.job = 0
    BY DEF Reply, NoJob
  <1>3. request' = [request EXCEPT ![r] = t]
    BY <1>1
  <1> HIDE DEF t
  <1>4. /\ Tasks' = Tasks
        /\ Candidates(r)' = Eligible(i, j)
        /\ Askers' = [Askers EXCEPT ![r] = Promise!Asker("lookup", 0, Candidates(r)', 0)]
    BY <1>2, <1>3, AskerStep
  <1>5. /\ Promise!OpenSyncs(i) = ActiveSyncs(i) /\ Promise!Syncs(i) = Syncs(i)
        /\ ActiveSyncs(i) \subseteq Syncs(i)
        /\ \A k \in Syncs(i) : Tasks[k].since = jobs[k].created
    BY TaskView DEF ActiveSyncs, Syncs, JobIds
  <1>6. Eligible(i, j) = Promise!Timely(i)
    <2>1. CASE j \in ActiveSyncs(i)
      <3>1. j \in Syncs(i) /\ \A k \in Syncs(i) : k <= j
        BY <1>5, <2>1, SourcesAssumption DEF Shelf, ActiveIsLast
      <3>2. ActiveSyncs(i) = {j}
        BY <2>1 DEF IInv, OneActiveSync, ActiveSyncs
      <3>3. \A k \in Syncs(i) : k \in Nat /\ k # NoJob
        <4>1. DOMAIN jobs = 1 .. Len(jobs) /\ Len(jobs) \in Nat
          BY LenProperties DEF IInv, TypeOK
        <4> QED
          BY <4>1 DEF Syncs, JobIds, NoJob
      <3>4. jobs[j].created \in Nat
        <4>1. jobs[j] \in JobRow
          BY <3>1, TaskView DEF Syncs, JobIds
        <4> QED
          BY <4>1 DEF JobRow
      <3>5. \A k \in Syncs(i) : (j = NoJob \/ j <= k \/ jobs[j].created <= jobs[k].created)
                                 <=> jobs[j].created <= jobs[k].created
        <4>1. \A k \in Syncs(i) : j <= k => k = j
          BY <3>1, <3>3
        <4> QED
          BY <3>1, <3>3, <3>4, <4>1
      <3>6. Eligible(i, j) = {k \in Syncs(i) : jobs[j].created <= jobs[k].created}
        BY <3>5 DEF Eligible
      <3>7. Promise!Timely(i) = {k \in Syncs(i) : \E o \in {j} : Tasks[o].since <= Tasks[k].since}
        BY <1>5, <3>2 DEF Promise!Timely
      <3> QED
        BY <1>5, <3>1, <3>6, <3>7
    <2>2. CASE i \notin saved
      <3>1. Syncs(i) = {}
        BY <2>2 DEF Shelf, SyncsAreSaved, Syncs
      <3> QED
        BY <1>5, <3>1 DEF Eligible, Promise!Timely
    <2> QED
      BY <1>1, <2>1, <2>2
  <1>7. Askers[r].pc \in {"new", "inserting"}
    BY DEF Askers
  <1> QED
    BY <1>4, <1>6, <1>7 DEF Promise!Ask

\* The lookup answers with the sync of the latest stamp, or there is none.
LEMMA LookupTask ==
    ASSUME IInv, JoinsSync, NEW r \in Requests, EnqueueLookup(r)
    PROVE  Promise!Answer(r) \/ Promise!Reject(r)
  <1> DEFINE i == Asked[r]
  <1>1. UNCHANGED <<jobs, begun, event>> /\ request[r].pc = "lookup"
    BY DEF EnqueueLookup
  <1>2. Askers[r].pc = "lookup" /\ Askers[r].candidates = Eligible(i, request[r].joined)
    BY <1>1 DEF Askers, Candidates
  <1>3. CASE \E j \in Syncs(i) :
                /\ Newest(j, Syncs(i))
                /\ request' = [request EXCEPT ![r] = Reply("accepted", request[r].joined, j)]
    <2>1. PICK j \in Syncs(i) :
                /\ Newest(j, Syncs(i))
                /\ request' = [request EXCEPT ![r] = Reply("accepted", request[r].joined, j)]
      BY <1>3
    <2> DEFINE t == Reply("accepted", request[r].joined, j)
    <2>2. t.pc = "accepted" /\ t.created = 0 /\ t.job = j
      BY DEF Reply
    <2>3. request' = [request EXCEPT ![r] = t]
      BY <2>1
    <2> HIDE DEF t
    <2>4. Tasks' = Tasks /\ Askers' = [Askers EXCEPT ![r] = Promise!Asker("accepted", 0, {}, j)]
      BY <1>1, <2>2, <2>3, AskerStep
    <2>5. j \in Eligible(i, request[r].joined)
      BY <1>1, <2>1 DEF JoinsSync, Newest, Eligible
    <2> QED
      BY <1>1, <1>2, <2>4, <2>5 DEF Promise!Answer
  <1>4. CASE Syncs(i) = {} /\ request' = [request EXCEPT ![r] = Reply("rejected", NoJob, NoJob)]
    <2> DEFINE t == Reply("rejected", NoJob, NoJob)
    <2>1. t.pc = "rejected" /\ t.created = 0 /\ t.job = 0
      BY DEF Reply, NoJob
    <2>2. request' = [request EXCEPT ![r] = t]
      BY <1>4
    <2> HIDE DEF t
    <2>3. Tasks' = Tasks /\ Askers' = [Askers EXCEPT ![r] = Promise!Asker("rejected", 0, {}, 0)]
      BY <1>1, <2>1, <2>2, AskerStep
    <2>4. Promise!Syncs(i) = {}
      BY <1>4, TaskView
    <2> QED
      BY <1>1, <1>2, <2>3, <2>4 DEF Promise!Reject
  <1> QED
    BY <1>3, <1>4 DEF EnqueueLookup

\* Every step keeps the shelf.
LEMMA NextShelf == IInv /\ AsksSaved /\ Shelf /\ [Next]_vars => Shelf'
  <1> SUFFICES ASSUME IInv, AsksSaved, Shelf, [Next]_vars PROVE Shelf'
    OBVIOUS
  <1>1. CASE UNCHANGED jobs /\ saved \subseteq saved'
    <2>1. \A k \in DOMAIN jobs : Unfinished(k)' => Unfinished(k)
      BY <1>1 DEF Unfinished
    <2> QED
      BY <1>1, <2>1, ShelfKept, IdentityKept
  <1>2. ASSUME NEW r \in Requests, EnqueueInsert(r), jobs' # jobs PROVE Shelf'
    <2> DEFINE row == NewRow(Asked[r], NoEvent, request[r].created, request[r].start)
    <2>1. /\ Asked[r] \in saved /\ ActiveSyncs(Asked[r]) = {} /\ jobs' = Append(jobs, row)
          /\ UNCHANGED saved
      BY <1>2 DEF EnqueueInsert, AsksSaved
    <2>2. row \in JobRow
      BY InsertedRow
    <2>3. row.integration = Asked[r]
      BY DEF NewRow
    <2> HIDE DEF row
    <2> QED
      BY <2>1, <2>2, <2>3, ShelfAdded
  <1>3. ASSUME NEW e \in Events, StoreEvent(e) PROVE Shelf'
    <2> DEFINE row == NewRow(EventSource[e], e, begun + 1, now)
    <2>1. jobs' = Append(jobs, row) /\ UNCHANGED saved
      BY <1>3 DEF StoreEvent
    <2>2. row \in JobRow
      BY SourcesAssumption, NewRowType DEF IInv, TypeOK
    <2>3. row.event # NoEvent
      BY SourcesAssumption DEF NewRow
    <2> HIDE DEF row
    <2> QED
      BY <2>1, <2>2, <2>3, ShelfAdded
  <1>4. ASSUME NEW w \in Workers, Commit(w) PROVE Shelf'
    <2>1. PICK row \in JobRow :
             /\ jobs' = [jobs EXCEPT ![worker[w].job] = row]
             /\ row.integration = jobs[worker[w].job].integration
             /\ row.event = jobs[worker[w].job].event
             /\ row.created = jobs[worker[w].job].created
      BY <1>4, OwnRow
    <2>2. Busy(w) /\ Unfinished(worker[w].job) /\ UNCHANGED saved
      BY <1>4 DEF IInv, ExclusiveAttempt, Commit, Busy
    <2>3. /\ DOMAIN jobs' = DOMAIN jobs
          /\ \A k \in DOMAIN jobs : k # worker[w].job => jobs'[k] = jobs[k]
          /\ SameJobs
      BY <2>1, <2>2, OwnRowUpdate
    <2>4. \A k \in DOMAIN jobs : Unfinished(k)' => Unfinished(k)
      BY <2>2, <2>3 DEF Unfinished
    <2> QED
      BY <2>2, <2>3, <2>4, ShelfKept
  <1>5. ASSUME NEW w \in Workers, Refresh(w) \/ CutRefresh(w), jobs' # jobs PROVE Shelf'
    <2>1. /\ worker[w].job \in DOMAIN jobs /\ UNCHANGED saved
          /\ jobs' = [jobs EXCEPT ![worker[w].job].effects = @ + 1]
      BY <1>5 DEF IInv, ExclusiveAttempt, Attempts, Refresh, CutRefresh, Busy, JobIds
    <2>2. /\ DOMAIN jobs' = DOMAIN jobs /\ SameJobs
          /\ \A k \in DOMAIN jobs : jobs'[k].status = jobs[k].status
      BY <2>1, WrittenTable
    <2> QED
      BY <2>1, <2>2, ShelfKept DEF Unfinished
  <1> QED
    BY <1>1, <1>2, <1>3, <1>4, <1>5
       DEF Next, Finish, vars, SaveIntegration, EnqueueBegin, EnqueueInsert, EnqueueLookup, Claim,
           Refresh, CutRefresh, Succeed, Fail, Timeout, Abandon, Cut, CutEnd, Tick

\* Only a saved integration is asked for.
LEMMA NextAsksSaved == IInv /\ AsksSaved /\ [Next]_vars => AsksSaved'
  <1> SUFFICES ASSUME IInv, AsksSaved, [Next]_vars PROVE AsksSaved'
    OBVIOUS
  <1>1. CASE saved \subseteq saved' /\ UNCHANGED request
    BY <1>1 DEF AsksSaved
  <1>2. ASSUME NEW r \in Requests, EnqueueBegin(r) \/ EnqueueInsert(r) \/ EnqueueLookup(r)
        PROVE  AsksSaved'
    <2>1. /\ \A q \in Requests \ {r} : request'[q] = request[q]
          /\ request'[r].pc = "inserting" => Asked[r] \in saved
          /\ UNCHANGED saved
      BY <1>2 DEF IInv, TypeOK, EnqueueBegin, EnqueueInsert, EnqueueLookup, Reply, Inserting
    <2> QED
      BY <2>1 DEF AsksSaved
  <1> QED
    BY <1>1, <1>2
       DEF Next, Finish, vars, SaveIntegration, StoreEvent, Claim, Refresh, Succeed, Fail, Commit,
           Timeout, Abandon, Cut, CutRefresh, CutEnd, Tick

LEMMA InitTaskQueue == Init => Promise!Init
  <1> SUFFICES ASSUME Init PROVE Promise!Init
    OBVIOUS
  <1>1. jobs = <<>> /\ DOMAIN jobs = {} /\ jobs \in Seq(JobRow)
    BY EmptySeq DEF Init
  <1>2. Tasks = <<>>
    BY <1>1 DEF Tasks, JobIds
  <1>3. \A r \in Requests : Candidates(r) = {}
    BY DEF Init, Candidates, Reply
  <1>4. Askers = [r \in Requests |-> Promise!Asker("new", 0, {}, 0)]
    BY <1>3 DEF Init, Askers, Reply, NoJob, Promise!Asker
  <1> QED
    BY <1>2, <1>4 DEF Init, Promise!Init

\* Every step of the queue is a step of TaskQueue, or none.
LEMMA NextTaskQueue ==
    IInv /\ JoinsSync /\ Shelf /\ [Next]_vars => [Promise!Next]_<<Tasks, begun, event, Askers>>
  <1> SUFFICES ASSUME IInv, JoinsSync, Shelf, [Next]_vars
               PROVE  Promise!Next \/ UNCHANGED <<Tasks, begun, event, Askers>>
    OBVIOUS
  <1>1. ASSUME NEW r \in Requests, EnqueueBegin(r) PROVE Promise!Next
    <2>1. Promise!Begin(r) \/ Promise!Ask(r)
      BY <1>1, BeginTask, AskTask DEF EnqueueBegin
    <2> QED
      BY <2>1 DEF Promise!Next
  <1>2. ASSUME NEW r \in Requests, EnqueueInsert(r) PROVE Promise!Next
    <2>1. Promise!Add(r) \/ Promise!Ask(r)
      BY <1>2, AddTask, AskTask DEF EnqueueInsert
    <2> QED
      BY <2>1 DEF Promise!Next
  <1>3. ASSUME NEW r \in Requests, EnqueueLookup(r) PROVE Promise!Next
    BY <1>3, LookupTask DEF Promise!Next
  <1>4. ASSUME NEW e \in Events, StoreEvent(e) PROVE Promise!Next
    BY <1>4, StoreTask DEF Promise!Next
  <1>5. CASE UNCHANGED <<jobs, begun, event, request>>
    BY <1>5, TasksSame, IdentityKept, AskersSame
  <1> QED
    BY <1>1, <1>2, <1>3, <1>4, <1>5, RefreshTask, CommitTask
       DEF Next, Finish, vars, SaveIntegration, Claim, Succeed, Fail, Timeout, Abandon, Cut, CutEnd,
           Tick

\* Whatever workers and requests do at the same time, the queue keeps the promise
\* of TaskQueue: attempts take effect one after the other, each as a whole, and a
\* request is answered with a sync that was open while it waited, or that was asked
\* for after such a one.
THEOREM QueueImplementsTasks == Spec => ImplementsTaskQueue
  <1>1. Init => JoinsSync /\ AsksSaved /\ Shelf
    BY DEF Init, JoinsSync, AsksSaved, Reply, Shelf, ActiveIsLast, SyncsAreSaved,
           ActiveSyncs, JobIds
  <1> QED
    BY <1>1, InitTaskQueue, NextTaskQueue, NextJoins, NextAsksSaved, NextShelf, Safety, PTL
       DEF Spec, ImplementsTaskQueue, Promise!Spec, Promise!vars

=============================================================================
