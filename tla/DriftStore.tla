----------------------------- MODULE DriftStore -----------------------------
(***************************************************************************)
(* What the jobs of one organization do to its customer data (DriftRules): *)
(* Stripe syncs, Stripe webhook jobs and HubSpot syncs run on several      *)
(* replicas while the remote systems keep changing.                        *)
(*                                                                         *)
(* Writers serialize on an advisory lock of the organization.  A Stripe    *)
(* job takes it before it reads Stripe and commits once.  A HubSpot sync   *)
(* lists all companies first and then stores each in a transaction of its  *)
(* own under the lock.  A transaction sees its own writes on top of what   *)
(* is committed ("View"), as READ COMMITTED does, so that the lock and not *)
(* the model keeps two detections apart.                                   *)
(***************************************************************************)
EXTENDS DriftRules, Sequences

CONSTANTS
    Workers,        \* worker loops, one per replica
    MaxSubs,        \* bound: subscriptions of a customer
    MaxChanges,     \* bound: remote changes and requested syncs
    MaxFailures     \* bound: jobs that fail or lose their process

ASSUME BoundsAssumption ==
    /\ None \notin Workers
    /\ MaxSubs \in Nat /\ MaxChanges \in Nat /\ MaxFailures \in Nat

VARIABLES
    stripe,     \* the Stripe account: customers with their subscriptions
    hubspot,    \* the HubSpot account: companies
    todo,       \* queued jobs
    db,         \* the committed tables
    lock,       \* holder of the organization's advisory lock
    worker,     \* per worker, its job and the transaction it has open
    changes,    \* remote changes and requested syncs so far
    failures    \* failed jobs so far

vars == <<stripe, hubspot, todo, db, lock, worker, changes, failures>>

-----------------------------------------------------------------------------
(* Remote systems, jobs and transactions                                   *)

Histories == UNION {[1 .. n -> StripeStatuses] : n \in 0 .. MaxSubs}

\* "subs" are the statuses of a customer's subscriptions, oldest first; "ver"
\* counts the changes of a record; for HubSpot it is updatedAt.  A record that
\* is not listed does not exist yet (ver = 0) or has been deleted.
StripeRecord  == [listed : BOOLEAN, domain : Domains \cup {NoDomain},
                  subs : Histories, ver : Nat]
HubSpotRecord == [listed : BOOLEAN, domain : Domains \cup {NoDomain},
                  status : HubSpotStatuses, ver : Nat]

NoCustomer == [listed |-> FALSE, domain |-> NoDomain, subs |-> <<>>, ver |-> 0]
NoCompany  == [listed |-> FALSE, domain |-> NoDomain, status |-> "inactive", ver |-> 0]

\* A subscription as it was read: the n-th of its customer.
Reading == [n : 1 .. MaxSubs, status : StripeStatuses, ver : Nat]

Sync(provider) == [kind |-> provider]
Event(s, n)    == [kind |-> "event", customer |-> s, sub |-> n]
Tasks == {Sync("stripe"), Sync("hubspot")}
         \cup {Event(s, n) : s \in StripeIds, n \in 1 .. MaxSubs}

Free == [pc |-> "idle", task |-> None, reading |-> None, listing |-> Nothing,
         company |-> None, writes |-> NoWrites]

View(w) == Seen(worker[w].writes, db)

NoLock(w) == TRUE

\* pg_advisory_xact_lock returns only when no other transaction holds the key.
LockFree(w) == lock = None

-----------------------------------------------------------------------------
\* The organization is connected to accounts that may already have records, and
\* a sync of each is asked for.
Init ==
    /\ stripe \in [StripeIds -> {NoCustomer} \cup
                     [listed : {TRUE}, domain : Domains, subs : Histories, ver : {1}]]
    /\ hubspot \in [CompanyIds -> {NoCompany} \cup
                     [listed : {TRUE}, domain : Domains, status : HubSpotStatuses, ver : {1}]]
    /\ todo = {Sync("stripe"), Sync("hubspot")}
    /\ db = EmptyTables
    /\ lock = None
    /\ worker = [w \in Workers |-> Free]
    /\ changes = 0
    /\ failures = 0

(***************************************************************************)
(* The remote systems                                                      *)
(***************************************************************************)

Change ==
    /\ changes < MaxChanges
    /\ changes' = changes + 1
    /\ UNCHANGED <<db, lock, worker, failures>>

StripeSet(s, domain, subs, listed) ==
    stripe' = [stripe EXCEPT ![s] = [listed |-> listed, domain |-> domain, subs |-> subs,
                                     ver |-> @.ver + 1]]

\* A new customer or mail address sends no event that the intake keeps.
CustomerChange(s) ==
    /\ stripe[s].listed \/ stripe[s].ver = 0
    /\ \E d \in Domains \cup {NoDomain} :
          /\ ~stripe[s].listed \/ d # stripe[s].domain
          /\ StripeSet(s, d, stripe[s].subs, TRUE)
    /\ UNCHANGED <<hubspot, todo>>
    /\ Change

\* A new subscription, or a status of one that has not ended.
SubscriptionChange(s) ==
    /\ stripe[s].listed
    /\ \E n \in 1 .. MaxSubs, st \in StripeStatuses :
          /\ n = 1 \/ n - 1 \in DOMAIN stripe[s].subs
          /\ n \in DOMAIN stripe[s].subs => stripe[s].subs[n] \notin {st, "ended"}
          /\ StripeSet(s, stripe[s].domain,
                [k \in DOMAIN stripe[s].subs \cup {n} |-> IF k = n THEN st ELSE stripe[s].subs[k]], TRUE)
          /\ todo' = todo \cup {Event(s, n)}
    /\ UNCHANGED hubspot
    /\ Change

\* Deleting a customer ends its subscriptions, which can still be listed.
CustomerDelete(s) ==
    LET subs == stripe[s].subs IN
    /\ stripe[s].listed
    /\ subs # <<>> => "ended" \in StripeStatuses
    /\ StripeSet(s, NoDomain, [n \in DOMAIN subs |-> "ended"], FALSE)
    /\ todo' = todo \cup {Event(s, n) : n \in {n \in DOMAIN subs : subs[n] # "ended"}}
    /\ UNCHANGED hubspot
    /\ Change

HubSpotSet(c, record) ==
    /\ hubspot' = [hubspot EXCEPT ![c] = record]
    /\ todo' = todo \cup {Sync("hubspot")}
    /\ UNCHANGED stripe
    /\ Change

CompanyChange(c) ==
    /\ hubspot[c].listed \/ hubspot[c].ver = 0
    /\ \E d \in Domains \cup {NoDomain}, st \in HubSpotStatuses :
          /\ ~hubspot[c].listed \/ d # hubspot[c].domain \/ st # hubspot[c].status
          /\ HubSpotSet(c, [listed |-> TRUE, domain |-> d, status |-> st, ver |-> hubspot[c].ver + 1])

CompanyDelete(c) ==
    /\ hubspot[c].listed
    /\ HubSpotSet(c, [hubspot[c] EXCEPT !.listed = FALSE])

\* The owner asks for another sync of either system.
RequestSync(t) ==
    /\ t \notin todo
    /\ todo' = todo \cup {t}
    /\ UNCHANGED <<stripe, hubspot>>
    /\ Change

(***************************************************************************)
(* Transactions                                                            *)
(***************************************************************************)

Goto(w, pc) == worker' = [worker EXCEPT ![w].pc = pc]

\* The writes join the transaction and the worker moves on.
Write(w, pc, more) ==
    /\ worker' = [worker EXCEPT ![w].pc = pc, ![w].writes = Plus(@, more)]
    /\ UNCHANGED <<stripe, hubspot, todo, db, lock, changes, failures>>

Start(w, t) ==
    /\ worker[w].pc = "idle"
    /\ t \in todo
    /\ todo' = todo \ {t}
    /\ worker' = [worker EXCEPT ![w].pc = IF t.kind = "hubspot" THEN "list" ELSE "lock",
                                ![w].task = t]
    /\ UNCHANGED <<stripe, hubspot, db, lock, changes, failures>>

\* LockOrganization, the first statement of every writing transaction.
Lock(w) ==
    /\ worker[w].pc = "lock"
    /\ LockFree(w)
    /\ lock' = w
    /\ Goto(w, CASE worker[w].task.kind = "stripe"  -> "customers"
                 [] worker[w].task.kind = "event"   -> "retrieve"
                 [] worker[w].task.kind = "hubspot" ->
                       IF worker[w].company = None THEN "missing" ELSE "store")
    /\ UNCHANGED <<stripe, hubspot, todo, db, changes, failures>>

ListedCustomers == {s \in StripeIds : stripe[s].listed}

\* The mail domains as Stripe returns them.
MailDomains == [s \in StripeIds |-> stripe[s].domain]

\* syncAll, first half: every customer is listed and saved.
ListCustomers(w) ==
    /\ worker[w].pc = "customers"
    /\ Write(w, "subscriptions", SavedCustomers(ListedCustomers, MailDomains))

Readings(s) == {[n |-> n, status |-> stripe[s].subs[n], ver |-> stripe[s].ver] :
                   n \in DOMAIN stripe[s].subs}

Newest(first, second) == IF second.n >= first.n THEN second ELSE first

\* preferredSubscription: an active one wins, else the newer.
Preferred(first, second) ==
    CASE first.status = "active" /\ second.status # "active" -> first
      [] first.status # "active" /\ second.status = "active" -> second
      [] OTHER -> Newest(first, second)

\* The one that preferredSubscription finds in a list, whatever its order.
Best(readings) == CHOOSE r \in readings : \A q \in readings : Preferred(q, r) = r

WholeReading(reading) == reading

\* Only the status is stored.
StatusOf(reading) == [status |-> reading.status, ver |-> reading.ver]

\* Subscriptions of deleted customers are listed, too.
Subscribers == {s \in StripeIds : stripe[s].subs # <<>>}

\* syncAll, second half: the subscriptions are listed and their statuses saved.
ListSubscriptions(w) ==
    /\ worker[w].pc = "subscriptions"
    /\ Write(w, "compare", SavedStatuses([s \in Subscribers |-> StatusOf(Best(Readings(s)))]))

\* processEvent: the subscription of the event is retrieved ...
Retrieve(w) ==
    LET s == worker[w].task.customer
        n == worker[w].task.sub
    IN
    /\ worker[w].pc = "retrieve"
    /\ worker' = [worker EXCEPT ![w].pc = "refresh",
                     ![w].reading = [n |-> n, status |-> stripe[s].subs[n], ver |-> stripe[s].ver]]
    /\ UNCHANGED <<stripe, hubspot, todo, db, lock, changes, failures>>

\* ... then its customer, then all subscriptions of that customer.
Refresh(w) ==
    LET s == worker[w].task.customer
        current == Preferred(worker[w].reading, Best(Readings(s)))
    IN
    /\ worker[w].pc = "refresh"
    /\ Write(w, "compare", Plus(SavedCustomers({s}, MailDomains),
                                SavedStatuses([k \in {s} |-> StatusOf(current)])))

\* listCompanies reads HubSpot before any lock is taken.
ListCompanies(w) ==
    /\ worker[w].pc = "list"
    /\ worker' = [worker EXCEPT ![w].pc = "next",
                     ![w].listing = [c \in {c \in CompanyIds : hubspot[c].listed} |-> hubspot[c]]]
    /\ UNCHANGED <<stripe, hubspot, todo, db, lock, changes, failures>>

\* The loop of Sync: one transaction per company, then the missing ones.
NextCompany(w) ==
    LET listed == DOMAIN worker[w].listing IN
    /\ worker[w].pc = "next"
    /\ \E c \in IF listed = {} THEN {None} ELSE listed :
          worker' = [worker EXCEPT ![w].pc = "lock", ![w].company = c]
    /\ UNCHANGED <<stripe, hubspot, todo, db, lock, changes, failures>>

\* storeCompany up to CompareStatus.
StoreCompany(w) ==
    LET c       == worker[w].company
        company == worker[w].listing[c]
    IN
    /\ worker[w].pc = "store"
    /\ Write(w, "compare", StoredCompany(View(w), c, company.domain,
                               [status |-> company.status, ver |-> company.ver]))

\* CompareStatus, called for every customer whose status the transaction saved.
Compare(w) ==
    LET v == View(w)
        customers == IF worker[w].task.kind = "hubspot"
                     THEN {v.link[worker[w].company]} \cap StripeIds
                     ELSE DOMAIN worker[w].writes.status
    IN
    /\ worker[w].pc = "compare"
    /\ Write(w, "commit", Compared(v, customers))

FindMissing(w) ==
    /\ worker[w].pc = "missing"
    /\ Write(w, "commit", FoundMissing(View(w)))

\* The commit releases the lock.  A HubSpot sync goes on with the companies left.
Commit(w) ==
    LET c == worker[w].company
        listing == worker[w].listing
    IN
    /\ worker[w].pc = "commit"
    /\ db' = View(w)
    /\ lock' = None
    /\ worker' = [worker EXCEPT ![w] =
          IF c = None THEN Free
          ELSE [Free EXCEPT !.pc = "next", !.task = worker[w].task,
                            !.listing = [k \in DOMAIN listing \ {c} |-> listing[k]]]]
    /\ UNCHANGED <<stripe, hubspot, todo, changes, failures>>

\* An error, a crash or a timeout: the open transaction is rolled back, what the
\* job committed before stays, and the queue will run the job again.
Fail(w) ==
    /\ worker[w].pc # "idle"
    /\ failures < MaxFailures
    /\ failures' = failures + 1
    /\ worker' = [worker EXCEPT ![w] = Free]
    /\ lock' = IF lock = w THEN None ELSE lock
    /\ todo' = todo \cup {worker[w].task}
    /\ UNCHANGED <<stripe, hubspot, db, changes>>

-----------------------------------------------------------------------------
Step(w) ==
    \/ \E t \in Tasks : Start(w, t)
    \/ Lock(w) \/ ListCustomers(w) \/ ListSubscriptions(w) \/ Retrieve(w) \/ Refresh(w)
    \/ ListCompanies(w) \/ NextCompany(w) \/ StoreCompany(w) \/ Compare(w)
    \/ FindMissing(w) \/ Commit(w)

Next ==
    \/ \E s \in StripeIds : CustomerChange(s) \/ SubscriptionChange(s) \/ CustomerDelete(s)
    \/ \E c \in CompanyIds : CompanyChange(c) \/ CompanyDelete(c)
    \/ \E provider \in {"stripe", "hubspot"} : RequestSync(Sync(provider))
    \/ \E w \in Workers : Step(w) \/ Fail(w)

Spec == Init /\ [][Next]_vars

\* The workers keep running and finish what they start (JobQueue shows that a
\* failed job is tried again).  The remote systems need not change.
FairSpec == Spec /\ \A w \in Workers : WF_vars(Step(w))

Serial == INSTANCE SerialStore WITH db <- db

-----------------------------------------------------------------------------
(***************************************************************************)
(* Properties                                                              *)
(***************************************************************************)

\* Rows, records and transactions have their types.
TypeOK ==
    /\ stripe \in [StripeIds -> StripeRecord]
    /\ hubspot \in [CompanyIds -> HubSpotRecord]
    /\ todo \subseteq Tasks
    /\ db \in Tables
    /\ lock \in Workers \cup {None}
    /\ \A w \in Workers : View(w) \in Tables
    /\ changes \in 0 .. MaxChanges /\ failures \in 0 .. MaxFailures

\* Whichever source wrote last and however jobs of both interleave, a customer
\* with facts of both has an open status finding exactly if the committed facts
\* disagree (detection/store.go:66-74).
StatusDriftDetected == \A s \in StripeIds : FindingAgrees(db, s)

\* A Stripe customer is linked to at most one company (hubspot/store.go:91-95).
OneCompanyPerCustomer == OneCompany(db)

\* An open missing-customer finding is about a customer that exists in the one
\* system and is not linked to the other; linking closes it.
MissingFindingsTrue == MissingTrue(db)

\* A committed status is never replaced by an older one: Stripe jobs read after
\* they hold the lock (detection/store.go:67), HubSpot facts carry updatedAt.
FactsNeverRegress ==
    [][/\ \A s \in StripeIds : db.status[s] # None =>
             db'.status[s] # None /\ db'.status[s].ver >= db.status[s].ver
       /\ \A c \in Customers : db.hub[c] # None =>
             db'.hub[c] # None /\ db'.hub[c].ver >= db.hub[c].ver]_vars

\* An identity is permanent: a company keeps the customer it was given.
LinksArePermanent ==
    [][\A c \in CompanyIds : db.link[c] # None => db'.link[c] = db.link[c]]_vars

\* One after the other, the transactions do to the tables what SerialStore says.
ImplementsSerialStore == Serial!Spec

\* The rule on the accounts themselves: any active subscription counts, else the
\* last one decides.
Disagree(subs, status) ==
    IF \E n \in DOMAIN subs : subs[n] = "active"
    THEN status # "active"
    ELSE subs[Len(subs)] = "ended" /\ status = "active"

\* The status that those subscriptions amount to.
Current(subs) ==
    IF \E n \in DOMAIN subs : subs[n] = "active" THEN "active" ELSE subs[Len(subs)]

\* Whenever no job is queued or at work, whatever was applied late, twice or from
\* an old listing before, every company of HubSpot is linked to a customer that
\* carries its present status, and a customer with subscriptions has a status
\* finding exactly if the two accounts disagree now: no reading that was stale
\* when it was written survives without a job that will replace it.
QuietFindingsTrue ==
    todo = {} /\ (\A w \in Workers : worker[w].pc = "idle") =>
        \A c \in CompanyIds : hubspot[c].listed =>
            /\ db.link[c] # None /\ db.hub[db.link[c]] # None
            /\ db.hub[db.link[c]].status = hubspot[c].status
            /\ \A s \in StripeIds : db.link[c] = s /\ stripe[s].subs # <<>> =>
                  (db.open[<<s, "status_mismatch">>] <=> Disagree(stripe[s].subs, hubspot[c].status))

\* Once the remote systems are quiet, the finding of every linked customer says
\* what their current statuses say: each change has queued a job that reads it.
DriftEventuallyReported ==
    <>[](\A s \in StripeIds, c \in CompanyIds :
            db.link[c] = s /\ hubspot[c].listed /\ stripe[s].subs # <<>> =>
                (db.open[<<s, "status_mismatch">>] <=> Disagree(stripe[s].subs, hubspot[c].status)))

(* What the repository says of the store and the code does not keep        *)

\* status_mismatch.go:78, "No Stripe customer matched this HubSpot company by
\* business domain": when a job commits a company with that finding open, no
\* single free Stripe customer has its domain.
UnlinkedMeansNoMatch ==
    [][\A w \in Workers :
          Commit(w) /\ worker[w].company # None /\ db'.link[worker[w].company] = worker[w].company
             => \A s \in StripeIds : Matches(db', worker[w].listing[worker[w].company].domain) # {s}]_vars

=============================================================================
