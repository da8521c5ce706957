------------------------- MODULE DriftOutcomeProofs -------------------------
(***************************************************************************)
(* What the jobs of DriftStore come to.                                    *)
(*                                                                         *)
(* First, DriftStore implements SerialStore: what a transaction of a job   *)
(* has written by the time it commits is one step of SerialStore on what   *)
(* is committed by then.                                                   *)
(*                                                                         *)
(* Second, nothing stale is left once no job is queued or at work: of each *)
(* customer and company, either a job still has to read it, or the lock's  *)
(* holder is about to commit what it is now, or that is committed.         *)
(***************************************************************************)
EXTENDS DriftProofs

-----------------------------------------------------------------------------
(* The operators of the instance are those of DriftRules                   *)

LEMMA SameOperators ==
    /\ \A a, b : Serial!Seen(a, b) = Seen(a, b)
    /\ \A a, b : Serial!Plus(a, b) = Plus(a, b)
    /\ \A a, b : Serial!SavedCustomers(a, b) = SavedCustomers(a, b)
    /\ \A a : Serial!SavedStatuses(a) = SavedStatuses(a)
    /\ \A a, b : Serial!Compared(a, b) = Compared(a, b)
    /\ \A a, b : Serial!Accepts(a, b) <=> Accepts(a, b)
    /\ \A a : Serial!FoundMissing(a) = FoundMissing(a)
<1>1. \A a, b : Serial!Seen(a, b) = Seen(a, b)
  BY DEF Serial!Seen, Seen, Serial!Over, Over
<1>2. \A a, b : Serial!Plus(a, b) = Plus(a, b)
  BY DEF Serial!Plus, Plus, Serial!Later, Later
<1>3. \A a, b : Serial!SavedCustomers(a, b) = SavedCustomers(a, b)
  BY DEF Serial!SavedCustomers, SavedCustomers, Serial!NoWrites, NoWrites, Serial!Nothing, Nothing
<1>4. \A a : Serial!SavedStatuses(a) = SavedStatuses(a)
  BY DEF Serial!SavedStatuses, SavedStatuses, Serial!NoWrites, NoWrites, Serial!Nothing, Nothing
<1>5. \A a, b : Serial!Compared(a, b) = Compared(a, b)
  BY DEF Serial!Compared, Compared, Serial!NoWrites, NoWrites, Serial!Nothing, Nothing,
         Serial!BothFacts, BothFacts, Serial!Mismatch, Mismatch
<1>6. \A a, b : Serial!Accepts(a, b) <=> Accepts(a, b)
  BY DEF Serial!Accepts, Accepts
<1>7. \A a : Serial!FoundMissing(a) = FoundMissing(a)
  BY DEF Serial!FoundMissing, FoundMissing, Serial!NoWrites, NoWrites, Serial!Nothing, Nothing,
         Serial!Unmatched, Unmatched, Serial!Linked, Linked
<1>8. QED
  BY <1>1, <1>2, <1>3, <1>4, <1>5, <1>6, <1>7

LEMMA SameMatching ==
    /\ \A v, c, d : Serial!Resolved(v, c, d) = Resolved(v, c, d)
    /\ \A v, c, d, f : Serial!StoredCompany(v, c, d, f) = StoredCompany(v, c, d, f)
<1>1. \A v, c, d : Serial!ResolvedByDomain(v, c, d) = ResolvedByDomain(v, c, d)
  BY DEF Serial!ResolvedByDomain, ResolvedByDomain, Serial!Matches, Matches, Serial!Linked, Linked
<1>2. \A v, c, d : Serial!Resolved(v, c, d) = Resolved(v, c, d)
  BY <1>1 DEF Serial!Resolved, Resolved
<1>3. ASSUME NEW v, NEW c, NEW d, NEW f
      PROVE  Serial!StoredCompany(v, c, d, f) = StoredCompany(v, c, d, f)
  <2>1. Serial!Resolved(v, c, d) = Resolved(v, c, d)
    BY <1>2
  <2>2. QED
    BY <2>1 DEF Serial!StoredCompany, StoredCompany, Serial!NoWrites, NoWrites, Serial!Nothing, Nothing,
       Serial!MissingFindings, MissingFindings, Serial!Accepts, Accepts
<1>4. QED
  BY <1>2, <1>3

-----------------------------------------------------------------------------
(* What a transaction has done so far                                      *)

\* From a to n: customers have been saved.
CustomersIn(a, n) == \E ids \in SUBSET StripeIds : n = Seen(SavedCustomers(ids, n.domain), a)

\* From a to n: customers, then the statuses of the customers in paid.
StatusesIn(a, n, paid) ==
    /\ \E ids \in SUBSET StripeIds :
          n = Seen(Plus(SavedCustomers(ids, n.domain), SavedStatuses([s \in paid |-> n.status[s]])), a)
    /\ \A s \in paid : n.status[s] # None /\ Accepts(a.status[s], n.status[s].ver)

\* From a to n: a company has been stored, with some domain.
CompanyIn(a, n, c) ==
    \E d \in Domains \cup {NoDomain} :
       LET target == Resolved(a, c, d) IN
       /\ n = Seen(StoredCompany(a, c, d, n.hub[target]), a)
       /\ n.hub[target] # None /\ Accepts(a.hub[target], n.hub[target].ver)
       /\ n.link[c] = target

\* How far the transaction of a worker is, in terms of what is committed.
Shape(w) ==
    /\ worker[w].pc = "subscriptions" =>
          CustomersIn(db, View(w)) /\ DOMAIN worker[w].writes.status = {}
    /\ worker[w].pc = "compare" =>
          IF worker[w].task.kind = "hubspot"
          THEN CompanyIn(db, View(w), worker[w].company)
          ELSE StatusesIn(db, View(w), DOMAIN worker[w].writes.status)
    /\ worker[w].pc = "commit" => Serial!Transaction(db, View(w))

\* Saving customers with the domains that result does the same.
LEMMA CustomersAgain ==
    ASSUME NEW a \in Tables, NEW ids \in SUBSET StripeIds,
           NEW domain \in [StripeIds -> Domains \cup {NoDomain}]
    PROVE  LET n == Seen(SavedCustomers(ids, domain), a) IN
           n = Seen(SavedCustomers(ids, n.domain), a)
<1> DEFINE mailed == {s \in ids : domain[s] # NoDomain}
           n == Seen(SavedCustomers(ids, domain), a)
           kept == {s \in ids : n.domain[s] # NoDomain}
<1>1. n.domain = Over([s \in mailed |-> domain[s]], a.domain)
  BY DEF Seen, SavedCustomers, NoWrites
<1>2. a.domain \in [StripeIds -> Domains \cup {NoDomain}]
  BY DEF Tables
<1> DEFINE f == n.domain
<1>3. f = [s \in StripeIds |-> IF s \in mailed THEN domain[s] ELSE a.domain[s]]
  BY <1>1, <1>2 DEF Over
<1>4. Over([s \in {s \in ids : f[s] # NoDomain} |-> f[s]], a.domain) = f
  <2> HIDE DEF f
  <2>1. \A s \in StripeIds : s \in ids /\ f[s] = NoDomain => a.domain[s] = NoDomain
    BY <1>3
  <2>2. \A s \in StripeIds : s \notin ids => f[s] = a.domain[s]
    BY <1>3
  <2>3. Over([s \in {s \in ids : f[s] # NoDomain} |-> f[s]], a.domain)
           = [s \in StripeIds |-> f[s]]
    BY <1>2, <2>1, <2>2 DEF Over
  <2>4. QED
    BY <1>3, <2>3
<1>5. Seen(SavedCustomers(ids, f), a).domain = f
  <2> HIDE DEF f
  <2>1. QED
    BY <1>4 DEF Seen, SavedCustomers, NoWrites
<1>6. QED
  <2> HIDE DEF f
  <2>1. n = [known |-> Over([s \in ids |-> TRUE], a.known), link |-> Over(Nothing, a.link),
             domain |-> f, status |-> Over(Nothing, a.status),
             hub |-> Over(Nothing, a.hub), open |-> Over(Nothing, a.open)]
    BY DEF f, Seen, SavedCustomers, NoWrites
  <2>2. Seen(SavedCustomers(ids, f), a)
          = [known |-> Over([s \in ids |-> TRUE], a.known), link |-> Over(Nothing, a.link),
             domain |-> f, status |-> Over(Nothing, a.status),
             hub |-> Over(Nothing, a.hub), open |-> Over(Nothing, a.open)]
    BY <1>4 DEF Seen, SavedCustomers, NoWrites
  <2>3. QED
    BY <2>1, <2>2 DEF f

\* Storing a company with the status that results does the same.
LEMMA CompanyAgain ==
    ASSUME NEW a, RightTables(a), NEW c \in CompanyIds, NEW d \in Domains \cup {NoDomain},
           NEW fact \in HubSpotFact
    PROVE  CompanyIn(a, Seen(StoredCompany(a, c, d, fact), a), c)
<1> DEFINE n == Seen(StoredCompany(a, c, d, fact), a)
           target == Resolved(a, c, d)
           old == a.hub[target]
<1>1. a \in Tables /\ OwnLinks(a) /\ OneCompany(a)
  BY DEF RightTables
<1>2. target \in Customers
  BY <1>1, ResolvedCustomer DEF Customers
<1>3. CompanyChanges(a, n, c, target, fact)
  BY <1>1, CompanyStored
<1>4. n.link[c] = target
  BY <1>1, <1>3 DEF CompanyChanges, Tables
<1>5. n.hub[target] = IF Accepts(old, fact.ver) THEN fact ELSE old
  BY <1>2, <1>3 DEF CompanyChanges
<1>6. old \in HubSpotFact \cup {None}
  BY <1>1, <1>2 DEF Tables
<1>7. CASE Accepts(old, fact.ver)
  <2>1. n.hub[target] = fact /\ fact # None
    BY <1>5, <1>7, FactsAssumption
  <2>2. QED
    BY <1>4, <1>7, <2>1 DEF CompanyIn
<1>8. CASE ~Accepts(old, fact.ver)
  <2>1. n.hub[target] = old /\ old # None /\ old \in HubSpotFact
    BY <1>5, <1>6, <1>8 DEF Accepts
  <2>2. Accepts(old, old.ver)
    BY <2>1 DEF Accepts, HubSpotFact
  <2>3. a.hub \in [Customers -> HubSpotFact \cup {None}]
    BY <1>1 DEF Tables
  <2>4. Over([k \in {k \in {target} : Accepts(a.hub[k], fact.ver)} |-> fact], a.hub) = a.hub
    BY <1>8, <2>3 DEF Over
  <2>5. Over([k \in {k \in {target} : Accepts(a.hub[k], old.ver)} |-> old], a.hub) = a.hub
    BY <2>3 DEF Over
  <2>6. Seen(StoredCompany(a, c, d, old), a) = n
    <3> HIDE DEF target, old
    <3>1. ASSUME NEW f, Over([k \in {k \in {target} : Accepts(a.hub[k], f.ver)} |-> f], a.hub) = a.hub
          PROVE  Seen(StoredCompany(a, c, d, f), a) =
                   [known |-> Over(Nothing, a.known), link |-> Over([k \in {c} |-> target], a.link),
                    domain |-> Over(Nothing, a.domain), status |-> Over(Nothing, a.status),
                    hub |-> a.hub, open |-> Over(MissingFindings(target), a.open)]
      BY <3>1 DEF Seen, StoredCompany, NoWrites, target
    <3>2. QED
      BY <2>4, <2>5, <3>1 DEF target, old
  <2>7. QED
    BY <1>4, <2>1, <2>2, <2>6 DEF CompanyIn
<1>9. QED
  BY <1>7, <1>8

-----------------------------------------------------------------------------
(* A comparison completes a transaction                                    *)

LEMMA StripeTransaction ==
    ASSUME NEW a \in Tables, NEW n \in Tables, NEW paid \in SUBSET StripeIds, StatusesIn(a, n, paid)
    PROVE  Serial!Transaction(a, Seen(Compared(n, paid), n))
<1> DEFINE b == Seen(Compared(n, paid), n)
           facts == [s \in paid |-> b.status[s]]
<1>1. b.domain = n.domain /\ b.status = n.status
  BY StatusesCompared
<1>2. PICK ids \in SUBSET StripeIds :
         n = Seen(Plus(SavedCustomers(ids, n.domain), SavedStatuses([s \in paid |-> n.status[s]])), a)
  BY DEF StatusesIn
<1>3. \A s \in paid : n.status[s] # None /\ Accepts(a.status[s], n.status[s].ver)
  BY DEF StatusesIn
<1> HIDE DEF b
<1>4. n = Seen(Plus(SavedCustomers(ids, b.domain), SavedStatuses(facts)), a)
  BY <1>1, <1>2
<1>5. \A s \in paid : facts[s] # None /\ Accepts(a.status[s], facts[s].ver)
  BY <1>1, <1>3
<1>6. Serial!StripeSaved(a, b, ids, paid)
  <2>1. Serial!Seen(Serial!Plus(Serial!SavedCustomers(ids, b.domain), Serial!SavedStatuses(facts)), a) = n
    BY <1>4, SameOperators
  <2>2. b = Serial!Seen(Serial!Compared(n, paid), n)
    BY SameOperators DEF b
  <2>3. \A s \in paid : facts[s] # None /\ Serial!Accepts(a.status[s], facts[s].ver)
    BY <1>5, SameOperators
  <2>4. QED
    BY <2>1, <2>2, <2>3 DEF Serial!StripeSaved
<1>7. QED
  BY <1>6 DEF b, Serial!Transaction

LEMMA CompanyTransaction ==
    ASSUME NEW a \in Tables, NEW n \in Tables, NEW c \in CompanyIds, CompanyIn(a, n, c)
    PROVE  Serial!Transaction(a, Seen(Compared(n, {n.link[c]} \cap StripeIds), n))
<1> DEFINE b == Seen(Compared(n, {n.link[c]} \cap StripeIds), n)
<1>1. PICK d \in Domains \cup {NoDomain} :
         /\ n = Seen(StoredCompany(a, c, d, n.hub[Resolved(a, c, d)]), a)
         /\ n.hub[Resolved(a, c, d)] # None
         /\ Accepts(a.hub[Resolved(a, c, d)], n.hub[Resolved(a, c, d)].ver)
         /\ n.link[c] = Resolved(a, c, d)
  BY DEF CompanyIn
<1>2. b.hub = n.hub
  BY StatusesCompared
<1> DEFINE target == Resolved(a, c, d)
<1>3. b = Seen(Compared(n, {target} \cap StripeIds), n)
  BY <1>1
<1> HIDE DEF b
<1>4. Serial!CompanySaved(a, b, c, d)
  <2>1. Serial!Resolved(a, c, d) = target
    BY SameMatching
  <2>2. n = Serial!Seen(Serial!StoredCompany(a, c, d, b.hub[target]), a)
    BY <1>1, <1>2, SameOperators, SameMatching
  <2>3. b.hub[target] # None /\ Serial!Accepts(a.hub[target], b.hub[target].ver)
    BY <1>1, <1>2, SameOperators
  <2>4. b = Serial!Seen(Serial!Compared(n, {target} \cap StripeIds), n)
    BY <1>3, SameOperators
  <2> HIDE DEF target
  <2>5. QED
    BY <2>1, <2>2, <2>3, <2>4 DEF Serial!CompanySaved
<1>5. QED
  BY <1>4 DEF b, Serial!Transaction

LEMMA MissingTransaction == \A a : Serial!Transaction(a, Seen(FoundMissing(a), a))
  BY SameOperators DEF Serial!Transaction, Serial!MissingSaved

-----------------------------------------------------------------------------
(* Every step keeps the shape                                              *)

LEMMA InitShape ==
    ASSUME Init
    PROVE  \A w \in Workers : Shape(w)
  BY DEF Init, Free, Shape

\* A worker that only waits, reads or has committed has nothing to show.
LEMMA NoShape ==
    ASSUME NEW w \in Workers, worker'[w].pc \notin {"subscriptions", "compare", "commit"}
    PROVE  Shape(w)'
  BY DEF Shape

LEMMA SameShape ==
    ASSUME IInv, NEW u \in Workers, Shape(u), worker'[u] = worker[u],
           db' = db \/ (lock \in Workers /\ lock # u)
    PROVE  Shape(u)'
<1>1. CASE db' = db
  <2>1. View(u)' = View(u)
    BY <1>1 DEF View
  <2>2. QED
    BY <1>1, <2>1 DEF Shape
<1>2. CASE lock \in Workers /\ lock # u
  <2>1. worker[u].pc \notin Held
    BY <1>2, Viewing DEF LockRight
  <2>2. QED
    BY <2>1, NoShape DEF Held
<1>3. QED
  BY <1>1, <1>2

LEMMA ListCustomersShape == ASSUME IInv, NEW w \in Workers, ListCustomers(w) PROVE Shape(w)'
<1> DEFINE more == SavedCustomers(ListedCustomers, MailDomains)
<1>1. worker[w].pc = "customers" /\ Write(w, "subscriptions", more)
  BY DEF ListCustomers
<1>2. View(w) = db /\ View(w) \in Tables /\ worker[w].writes = NoWrites
      /\ worker \in [Workers -> Jobs] /\ worker[w] \in Jobs
  BY <1>1, Viewing DEF Fresh, LockRight
<1>3. View(w)' = Seen(more, db) /\ worker'[w].writes = Plus(NoWrites, more)
  BY <1>1, <1>2, WriteSeen
<1>4. ListedCustomers \in SUBSET StripeIds
  BY DEF ListedCustomers
<1>5. CustomersIn(db, Seen(more, db))
  BY <1>2, <1>4, MailTyped, CustomersAgain DEF CustomersIn
<1>6. DOMAIN worker'[w].writes.status = {}
  BY <1>3 DEF Plus, Later, SavedCustomers, NoWrites, Nothing
<1>7. worker'[w].pc = "subscriptions" /\ db' = db
  BY <1>1, <1>2 DEF Write, Jobs
<1>8. QED
  BY <1>3, <1>5, <1>6, <1>7 DEF Shape

LEMMA ListSubscriptionsShape ==
    ASSUME IInv, NEW w \in Workers, Shape(w), ListSubscriptions(w)
    PROVE  Shape(w)'
<1> DEFINE facts == [s \in Subscribers |-> StatusOf(Best(Readings(s)))]
           more == SavedStatuses(facts)
           v == View(w)
           n == Seen(more, v)
<1>1. worker[w].pc = "subscriptions" /\ Write(w, "compare", more)
  BY DEF ListSubscriptions
<1>2. /\ worker \in [Workers -> Jobs] /\ worker[w] \in Jobs /\ PlaceRight(worker[w]) /\ v \in Tables
  BY Viewing
<1>3. /\ facts \in [Subscribers -> StripeFact] /\ Subscribers \in SUBSET StripeIds
      /\ \A s \in Subscribers : facts[s].ver = stripe[s].ver /\ stripe[s].ver \in Nat
  BY SubscriberFacts
<1>4. CustomersIn(db, v) /\ DOMAIN worker[w].writes.status = {}
  BY <1>1 DEF Shape
<1>5. DOMAIN facts = Subscribers
  OBVIOUS
<1> HIDE DEF facts, v
<1>6. /\ View(w)' = n /\ db' = db /\ worker'[w].task = worker[w].task /\ worker'[w].pc = "compare"
      /\ worker'[w].writes = Plus(worker[w].writes, more)
  BY <1>1, <1>2, WriteSeen DEF v, Write, Jobs
<1>7. worker'[w].task.kind = "stripe"
  BY <1>1, <1>2, <1>6 DEF PlaceRight
<1>8. DOMAIN worker'[w].writes.status = Subscribers
  <2>1. more.status = facts
    BY DEF SavedStatuses, NoWrites
  <2>2. QED
    BY <1>4, <1>5, <1>6, <2>1 DEF Plus, Later
<1>9. n.domain = v.domain /\ \A s \in Subscribers : n.status[s] = facts[s]
  <2>1. facts \in [Subscribers -> StripeFact] /\ Subscribers \in SUBSET StripeIds /\ v \in Tables
    BY <1>2, <1>3
  <2>2. ASSUME NEW x \in Tables, NEW P \in SUBSET StripeIds, NEW f \in [P -> StripeFact]
        PROVE  /\ Seen(SavedStatuses(f), x).domain = x.domain
               /\ \A s \in P : Seen(SavedStatuses(f), x).status[s] = f[s]
    BY StatusesSaved
  <2>3. QED
    BY ONLY <2>1, <2>2
<1>10. [s \in Subscribers |-> n.status[s]] = facts
  BY <1>3, <1>9
<1>11. PICK ids \in SUBSET StripeIds : v = Seen(SavedCustomers(ids, v.domain), db)
  BY <1>4 DEF CustomersIn
<1>12. n = Seen(Plus(SavedCustomers(ids, n.domain), SavedStatuses(facts)), db)
  BY <1>9, <1>11, SeenPlus
<1>13. ASSUME NEW s \in Subscribers
       PROVE  n.status[s] # None /\ Accepts(db.status[s], n.status[s].ver)
  <2>1. s \in StripeIds /\ n.status[s] = facts[s] /\ facts[s] \in StripeFact /\ facts[s] # None
        /\ facts[s].ver = stripe[s].ver
    BY <1>3, <1>9, FactsAssumption
  <2>2. db.status[s] # None => db.status[s].ver <= stripe[s].ver
    BY <2>1 DEF IInv, CommittedRight, NotAhead
  <2>3. QED
    BY <2>1, <2>2 DEF Accepts
<1> HIDE DEF n
<1>14. StatusesIn(db, n, Subscribers)
  BY <1>10, <1>12, <1>13 DEF StatusesIn
<1>15. QED
  BY <1>6, <1>7, <1>8, <1>14 DEF Shape

LEMMA RefreshShape == ASSUME IInv, NEW w \in Workers, Refresh(w) PROVE Shape(w)'
<1> DEFINE s == worker[w].task.customer
           current == Preferred(worker[w].reading, Best(Readings(s)))
           facts == [k \in {s} |-> StatusOf(current)]
           C == SavedCustomers({s}, MailDomains)
           F == SavedStatuses(facts)
           more == Plus(C, F)
           v == Seen(C, db)
           n == Seen(more, db)
<1>1. worker[w].pc = "refresh" /\ Write(w, "compare", more)
  BY DEF Refresh
<1>2. /\ worker \in [Workers -> Jobs] /\ worker[w] \in Jobs /\ PlaceRight(worker[w])
      /\ db \in Tables /\ View(w) = db /\ worker[w].writes = NoWrites
  BY <1>1, Viewing DEF Fresh, LockRight
<1>3. /\ s \in StripeIds /\ current \in Reading
      /\ db.status[s] # None => db.status[s].ver <= current.ver
  BY <1>1, CurrentReading
<1> HIDE DEF current, s
<1>4. /\ facts \in [{s} -> StripeFact] /\ {s} \in SUBSET StripeIds
      /\ facts[s].ver = current.ver /\ DOMAIN facts = {s}
  BY <1>3 DEF StatusOf, StripeFact, Reading
<1> HIDE DEF facts
<1>5. v \in Tables /\ v = Seen(SavedCustomers({s}, v.domain), db)
  BY <1>2, <1>4, MailTyped, CustomersSaved, CustomersAgain
<1>6. n = Seen(F, v)
  BY SeenPlus
<1> HIDE DEF C, v
<1>7. n.domain = v.domain /\ \A k \in {s} : n.status[k] = facts[k]
  BY <1>4, <1>5, <1>6, StatusesSaved
<1>8. [k \in {s} |-> n.status[k]] = facts
  BY <1>4, <1>7
<1>9. n = Seen(Plus(SavedCustomers({s}, n.domain), SavedStatuses(facts)), db)
  BY <1>5, <1>6, <1>7, SeenPlus
<1>10. \A k \in {s} : n.status[k] # None /\ Accepts(db.status[k], n.status[k].ver)
  <2>1. n.status[s] = facts[s] /\ facts[s] # None
    BY <1>4, <1>7, FactsAssumption
  <2>2. QED
    BY <1>3, <1>4, <2>1 DEF Accepts
<1>11. /\ View(w)' = n /\ db' = db /\ worker'[w].task = worker[w].task /\ worker'[w].pc = "compare"
       /\ worker'[w].writes = Plus(NoWrites, more)
  BY <1>1, <1>2, WriteSeen DEF Write, Jobs
<1>12. DOMAIN worker'[w].writes.status = {s}
  <2>1. F.status = facts /\ C.status = Nothing /\ NoWrites.status = Nothing
    BY DEF SavedStatuses, SavedCustomers, NoWrites, C
  <2>2. DOMAIN Nothing = {}
    BY DEF Nothing
  <2>3. QED
    BY <1>4, <1>11, <2>1, <2>2 DEF Plus, Later
<1>13. worker'[w].task.kind = "event"
  BY <1>1, <1>2, <1>11 DEF PlaceRight
<1> HIDE DEF n, more
<1>14. StatusesIn(db, n, {s})
  BY <1>4, <1>8, <1>9, <1>10 DEF StatusesIn
<1>15. QED
  BY <1>11, <1>12, <1>13, <1>14 DEF Shape

LEMMA StoreCompanyShape == ASSUME IInv, NEW w \in Workers, StoreCompany(w) PROVE Shape(w)'
<1> DEFINE c == worker[w].company
           company == worker[w].listing[c]
           fact == [status |-> company.status, ver |-> company.ver]
           more == StoredCompany(View(w), c, company.domain, fact)
<1>1. worker[w].pc = "store" /\ Write(w, "compare", more)
  BY DEF StoreCompany
<1>2. /\ worker \in [Workers -> Jobs] /\ worker[w] \in Jobs /\ PlaceRight(worker[w])
      /\ View(w) = db /\ RightTables(db)
  BY <1>1, Viewing DEF Fresh
<1>3. worker[w].task.kind = "hubspot" /\ c # None
  BY <1>1, <1>2 DEF PlaceRight, Held
<1>4. c \in CompanyIds /\ company \in HubSpotRecord
  <2>1. c \in DOMAIN worker[w].listing
    BY <1>2, <1>3 DEF PlaceRight
  <2>2. QED
    BY <1>2, <2>1 DEF Jobs, Listings
<1>5. fact \in HubSpotFact /\ company.domain \in Domains \cup {NoDomain}
  BY <1>4 DEF HubSpotFact, HubSpotRecord
<1>6. /\ View(w)' = Seen(more, View(w)) /\ db' = db /\ worker'[w].task = worker[w].task
      /\ worker'[w].company = c /\ worker'[w].pc = "compare"
  BY <1>1, <1>2, WriteSeen DEF Write, Jobs
<1> HIDE DEF fact, company, c
<1>7. CompanyIn(db, Seen(StoredCompany(db, c, company.domain, fact), db), c)
  BY <1>2, <1>4, <1>5, CompanyAgain
<1>8. CompanyIn(db, View(w)', c)
  BY <1>2, <1>6, <1>7
<1>9. QED
  BY <1>3, <1>6, <1>8 DEF Shape

LEMMA CompareShape == ASSUME IInv, NEW w \in Workers, Shape(w), Compare(w) PROVE Shape(w)'
<1> DEFINE more == Compared(View(w), ToCompare(w))
<1>1. worker[w].pc = "compare" /\ Write(w, "commit", more)
  BY DEF Compare, ToCompare
<1>2. /\ worker \in [Workers -> Jobs] /\ worker[w] \in Jobs /\ PlaceRight(worker[w])
      /\ View(w) \in Tables /\ db \in Tables
  BY Viewing DEF IInv, CommittedRight, RightTables
<1>3. View(w)' = Seen(more, View(w)) /\ db' = db /\ worker'[w].pc = "commit"
  BY <1>1, <1>2, WriteSeen DEF Write, Jobs
<1>4. CASE worker[w].task.kind = "hubspot"
  <2>1. worker[w].company \in CompanyIds
    BY <1>1, <1>2, <1>4 DEF PlaceRight, Held, Jobs
  <2>2. CompanyIn(db, View(w), worker[w].company)
    BY <1>1, <1>4 DEF Shape
  <2>3. ToCompare(w) = {View(w).link[worker[w].company]} \cap StripeIds
    BY <1>4 DEF ToCompare
  <2>4. Serial!Transaction(db, Seen(more, View(w)))
    BY <1>2, <2>1, <2>2, <2>3, CompanyTransaction
  <2>5. QED
    BY <1>3, <2>4 DEF Shape
<1>5. CASE worker[w].task.kind # "hubspot"
  <2>1. ToCompare(w) = DOMAIN worker[w].writes.status
    BY <1>5 DEF ToCompare
  <2>2. StatusesIn(db, View(w), ToCompare(w)) /\ ToCompare(w) \in SUBSET StripeIds
    BY <1>1, <1>2, <1>5, <2>1 DEF Shape, Jobs, Writes
  <2>3. Serial!Transaction(db, Seen(more, View(w)))
    BY <1>2, <2>2, StripeTransaction
  <2>4. QED
    BY <1>3, <2>3 DEF Shape
<1>6. QED
  BY <1>4, <1>5

LEMMA FindMissingShape == ASSUME IInv, NEW w \in Workers, FindMissing(w) PROVE Shape(w)'
<1>1. worker[w].pc = "missing" /\ Write(w, "commit", FoundMissing(View(w)))
  BY DEF FindMissing
<1>2. worker \in [Workers -> Jobs] /\ worker[w] \in Jobs /\ View(w) = db
  BY <1>1, Viewing DEF Fresh
<1>3. View(w)' = Seen(FoundMissing(db), db) /\ db' = db /\ worker'[w].pc = "commit"
  BY <1>1, <1>2, WriteSeen DEF Write, Jobs
<1>4. QED
  BY <1>3, MissingTransaction DEF Shape

-----------------------------------------------------------------------------
(* The refinement                                                          *)

\* Steps of one worker.
LEMMA StepShape ==
    ASSUME IInv, NEW w \in Workers, \A u \in Workers : Shape(u), Step(w) \/ Fail(w)
    PROVE  \A u \in Workers : Shape(u)'
<1>1. worker \in [Workers -> Jobs] /\ worker[w] \in Jobs
  BY Viewing
<1>2. \A u \in Workers \ {w} : worker'[u] = worker[u]
  BY <1>1 DEF Step, Fail, Start, Lock, Goto, ListCustomers, ListSubscriptions, Retrieve, Refresh,
     ListCompanies, NextCompany, StoreCompany, Compare, FindMissing, Commit, Write
<1>3. db' = db \/ lock = w
  <2>1. CASE Commit(w)
    BY <2>1, Viewing DEF Commit, LockRight, Held
  <2>2. CASE ~Commit(w)
    BY <2>2 DEF Step, Fail, Start, Lock, ListCustomers, ListSubscriptions, Retrieve, Refresh,
       ListCompanies, NextCompany, StoreCompany, Compare, FindMissing, Write
  <2>3. QED
    BY <2>1, <2>2
<1>4. \A u \in Workers \ {w} : Shape(u)'
  BY <1>2, <1>3, SameShape
<1>5. Shape(w)'
  <2>1. ASSUME NEW t \in Tasks, Start(w, t) PROVE Shape(w)'
    <3>1. worker'[w].pc \in {"list", "lock"}
      BY <1>1, <2>1 DEF Start, Jobs
    <3>2. QED
      BY <3>1, NoShape
  <2>2. CASE Lock(w)
    <3>1. worker'[w].pc \in {"customers", "retrieve", "missing", "store"}
      <4>1. worker[w].task.kind \in {"stripe", "event", "hubspot"}
        BY <2>2, Viewing DEF Lock, PlaceRight, Tasks, Sync, Event
      <4>2. QED
        BY <1>1, <2>2, <4>1 DEF Lock, Goto, Jobs
    <3>2. QED
      BY <3>1, NoShape
  <2>3. CASE Retrieve(w) \/ ListCompanies(w) \/ NextCompany(w)
    <3>1. worker'[w].pc \in {"refresh", "next", "lock"}
      BY <1>1, <2>3 DEF Retrieve, ListCompanies, NextCompany, Jobs
    <3>2. QED
      BY <3>1, NoShape
  <2>4. CASE Commit(w) \/ Fail(w)
    <3>1. Commit(w) => worker'[w].pc \in {"idle", "next"}
      BY <1>1 DEF Commit, Free
    <3>2. Fail(w) => worker'[w].pc = "idle"
      BY <1>1 DEF Fail, Free
    <3>3. QED
      BY <2>4, <3>1, <3>2, NoShape
  <2>5. CASE ListCustomers(w)
    BY <2>5, ListCustomersShape
  <2>6. CASE ListSubscriptions(w)
    BY <2>6, ListSubscriptionsShape
  <2>7. CASE Refresh(w)
    BY <2>7, RefreshShape
  <2>8. CASE StoreCompany(w)
    BY <2>8, StoreCompanyShape
  <2>9. CASE Compare(w)
    BY <2>9, CompareShape
  <2>10. CASE FindMissing(w)
    BY <2>10, FindMissingShape
  <2>11. QED
    BY <2>1, <2>2, <2>3, <2>4, <2>5, <2>6, <2>7, <2>8, <2>9, <2>10 DEF Step
<1>6. QED
  BY <1>4, <1>5

Shapes == \A w \in Workers : Shape(w)

LEMMA NextShapes == IInv /\ Shapes /\ [Next]_vars => Shapes'
<1> SUFFICES ASSUME IInv, Shapes, [Next]_vars PROVE Shapes'
  OBVIOUS
<1>1. ASSUME NEW w \in Workers, Step(w) \/ Fail(w) PROVE Shapes'
  BY <1>1, StepShape DEF Shapes
<1>2. CASE UNCHANGED <<db, worker>>
  BY <1>2, SameShape DEF Shapes
<1>3. (\E w \in Workers : Step(w) \/ Fail(w)) \/ UNCHANGED <<db, worker>>
  BY DEF Next, vars, CustomerChange, SubscriptionChange, CustomerDelete, CompanyChange,
         CompanyDelete, RequestSync, HubSpotSet, Change
<1>4. QED
  BY <1>1, <1>2, <1>3

\* A commit is a transaction of SerialStore; no other step touches the tables.
LEMMA StepIsTransaction == IInv /\ Shapes /\ [Next]_vars => [Serial!Next]_db
<1> SUFFICES ASSUME IInv, Shapes, [Next]_vars PROVE [Serial!Next]_db
  OBVIOUS
<1>1. ASSUME NEW w \in Workers, Commit(w) PROVE Serial!Next
  BY <1>1 DEF Commit, Shapes, Shape, Serial!Next
<1>2. (\E w \in Workers : Commit(w)) \/ db' = db
  BY DEF Next, Step, vars, CustomerChange, SubscriptionChange, CustomerDelete, CompanyChange,
         CompanyDelete, RequestSync, HubSpotSet, Change, Start, Lock, ListCustomers,
         ListSubscriptions, Retrieve, Refresh, ListCompanies, NextCompany, StoreCompany, Compare,
         FindMissing, Write, Fail
<1>3. QED
  BY <1>1, <1>2

\* Whatever the workers interleave, the committed tables change as if transactions
\* ran one after the other on what the one before it has committed.
THEOREM StoreIsSerial == Spec => ImplementsSerialStore
<1>1. Init => Serial!Init
  BY DEF Init, Serial!Init, EmptyTables, Serial!EmptyTables, Customers, Serial!Customers,
         Rules, Serial!Rules
<1>2. Init => Shapes
  BY InitShape DEF Shapes
<1>3. IInv /\ Shapes /\ [Next]_vars => Shapes'
  BY NextShapes
<1>4. IInv /\ Shapes /\ [Next]_vars => [Serial!Next]_db
  BY StepIsTransaction
<1>5. QED
  BY <1>1, <1>2, <1>3, <1>4, Invariance, PTL DEF Spec, Serial!Spec, ImplementsSerialStore

-----------------------------------------------------------------------------
(* Who tells the tables of a change                                        *)

\* The committed or seen status of a customer is the one it has in Stripe.
StatusTrue(v, s) == v.status[s] # None /\ v.status[s].status = Current(stripe[s].subs)

\* A job of this task reads the subscriptions of the customer.
Asks(t, s) == t = Sync("stripe") \/ (t.kind = "event" /\ t.customer = s)

\* Such a job is queued or has not taken the lock.
StripeWaits(s) ==
    \/ \E t \in todo : Asks(t, s)
    \/ \E w \in Workers : worker[w].pc = "lock" /\ Asks(worker[w].task, s)

\* What an event's job has retrieved is still so.
ReadingTrue(j) ==
    LET subs == stripe[j.task.customer].subs IN
    j.reading.n \in DOMAIN subs /\ j.reading.status = subs[j.reading.n]

\* The transaction of the lock's holder will leave the customer's present status.
Tells(w, s) ==
    LET j == worker[w] IN
    \/ j.pc \in {"customers", "subscriptions"}
    \/ j.pc = "retrieve" /\ j.task.customer = s
    \/ j.pc = "refresh" /\ j.task.customer = s /\ ReadingTrue(j)
    \/ ~ (j.pc = "refresh" /\ j.task.customer = s) /\ StatusTrue(View(w), s)

StripeTold(s) ==
    stripe[s].subs # <<>> =>
        \/ StripeWaits(s)
        \/ /\ lock = None => StatusTrue(db, s)
           /\ \A w \in Workers : lock = w =>
                 Tells(w, s) /\ (Asks(worker[w].task, s) \/ StatusTrue(db, s))

-----------------------------------------------------------------------------
(* The status of a customer                                                *)

LEMMA HistoryLength ==
    ASSUME NEW h \in Histories
    PROVE  Len(h) \in Nat /\ DOMAIN h = 1 .. Len(h) /\ (h # <<>> => Len(h) \in DOMAIN h)
<1>1. PICK m \in 0 .. MaxSubs : h \in [1 .. m -> StripeStatuses]
  BY DEF Histories
<1>2. m \in Nat
  BY <1>1, BoundsAssumption
<1>3. h \in Seq(StripeStatuses)
  BY <1>1, <1>2
<1>4. Len(h) \in Nat /\ DOMAIN h = 1 .. Len(h)
  BY <1>3
<1>5. h # <<>> => Len(h) # 0
  BY <1>3
<1>6. QED
  BY <1>4, <1>5

\* What is listed of a customer amounts to its status.
LEMMA BestIsCurrent ==
    ASSUME IInv, NEW s \in StripeIds, stripe[s].subs # <<>>
    PROVE  LET b == Best(Readings(s))
               h == stripe[s].subs
           IN  /\ b \in Reading /\ b.status = Current(h)
               /\ b.status # "active" => b.n = Len(h) /\ \A n \in DOMAIN h : h[n] # "active"
<1> DEFINE b == Best(Readings(s))
           h == stripe[s].subs
           reading(n) == [n |-> n, status |-> h[n], ver |-> stripe[s].ver]
<1>1. h \in Histories
  BY DEF IInv, Typed, StripeRecord
<1>2. Len(h) \in Nat /\ DOMAIN h = 1 .. Len(h) /\ Len(h) \in DOMAIN h
  BY <1>1, HistoryLength
<1>3. b \in Reading /\ b \in Readings(s) /\ \A q \in Readings(s) : Preferred(q, b) = b
  BY BestOfCustomer
<1>4. Readings(s) = {reading(n) : n \in DOMAIN h}
  BY DEF Readings
<1>5. PICK m \in DOMAIN h : b = reading(m)
  BY <1>3, <1>4
<1>6. b.n = m /\ b.status = h[m]
  BY <1>5
<1>7. \A n \in DOMAIN h : reading(n).n = n /\ reading(n).status = h[n] /\ reading(n) \in Readings(s)
  BY <1>4
<1> HIDE DEF b, h, reading
<1>8. ASSUME NEW n \in DOMAIN h, h[n] = "active" PROVE b.status = "active"
  <2>1. SUFFICES ASSUME b.status # "active" PROVE FALSE
    OBVIOUS
  <2>2. Preferred(reading(n), b) = reading(n)
    BY <1>7, <1>8, <2>1 DEF Preferred
  <2>3. b = reading(n)
    BY <1>3, <1>7, <2>2
  <2>4. QED
    BY <1>7, <1>8, <2>1, <2>3
<1>9. ASSUME b.status # "active" PROVE b.n = Len(h)
  <2>1. \A n \in DOMAIN h : h[n] # "active"
    BY <1>8, <1>9
  <2>2. Preferred(reading(Len(h)), b) = Newest(reading(Len(h)), b)
    BY <1>2, <1>7, <1>9, <2>1 DEF Preferred
  <2>3. Newest(reading(Len(h)), b) = b
    BY <1>2, <1>3, <1>7, <2>2
  <2>4. m \in 1 .. Len(h) /\ b.n = m /\ reading(Len(h)).n = Len(h)
    BY <1>2, <1>6, <1>7
  <2>5. m >= Len(h) \/ b = reading(Len(h))
    BY <2>3, <2>4 DEF Newest
  <2>6. QED
    BY <1>2, <2>4, <2>5
<1>10. b.status = Current(h)
  <2>1. CASE \E n \in DOMAIN h : h[n] = "active"
    BY <1>8, <2>1 DEF Current
  <2>2. CASE ~ \E n \in DOMAIN h : h[n] = "active"
    <3>1. b.status # "active"
      BY <1>6, <2>2
    <3>2. b.n = Len(h)
      BY <1>9, <3>1
    <3>3. QED
      BY <1>6, <2>2, <3>2 DEF Current
  <2>3. QED
    BY <2>1, <2>2
<1>11. QED
  BY <1>3, <1>8, <1>9, <1>10 DEF b, h

\* An event's job stores that status, if what it has retrieved is still so.
LEMMA RefreshIsCurrent ==
    ASSUME IInv, NEW w \in Workers, worker[w].pc = "refresh", ReadingTrue(worker[w])
    PROVE  LET s == worker[w].task.customer IN
           Preferred(worker[w].reading, Best(Readings(s))).status = Current(stripe[s].subs)
<1> DEFINE s == worker[w].task.customer
           r == worker[w].reading
           b == Best(Readings(s))
           h == stripe[s].subs
<1>1. s \in StripeIds
  BY CurrentReading
<1>2. r \in Reading
  BY Viewing DEF PlaceRight
<1>3. r.n \in DOMAIN h /\ r.status = h[r.n]
  BY DEF ReadingTrue
<1>4. h \in Histories
  BY <1>1 DEF IInv, Typed, StripeRecord
<1>5. h # <<>>
  <2>1. DOMAIN <<>> = {}
    OBVIOUS
  <2>2. QED
    BY <1>3, <2>1
<1>6. /\ b \in Reading /\ b.status = Current(h)
      /\ b.status # "active" => b.n = Len(h) /\ \A n \in DOMAIN h : h[n] # "active"
  BY <1>1, <1>5, BestIsCurrent
<1>7. Len(h) \in Nat /\ DOMAIN h = 1 .. Len(h)
  BY <1>4, HistoryLength
<1> HIDE DEF s, r, b, h
<1>8. CASE b.status = "active"
  <2>1. Preferred(r, b) = b \/ (r.status = "active" /\ Preferred(r, b) = r)
    BY <1>8 DEF Preferred, Newest
  <2>2. QED
    BY <1>6, <1>8, <2>1 DEF s, r, b, h
<1>9. CASE b.status # "active"
  <2>1. r.status # "active" /\ b.n = Len(h)
    BY <1>3, <1>6, <1>9
  <2>2. b.n >= r.n
    BY <1>3, <1>7, <2>1
  <2>3. Preferred(r, b) = b
    BY <1>9, <2>1, <2>2 DEF Preferred, Newest
  <2>4. QED
    BY <1>6, <2>3 DEF s, r, b, h
<1>10. QED
  BY <1>8, <1>9

-----------------------------------------------------------------------------
(* The remote systems and the status of a customer                         *)

LEMMA ToldByEvent ==
    ASSUME NEW s \in StripeIds, NEW t \in todo', Asks(t, s)
    PROVE  StripeTold(s)'
  BY DEF StripeTold, StripeWaits, Asks

\* A step that neither changes the subscriptions nor what a job has done.
LEMMA StillTold ==
    ASSUME NEW s \in StripeIds, StripeTold(s), UNCHANGED <<db, lock, worker>>, todo \subseteq todo',
           stripe'[s].subs = stripe[s].subs
    PROVE  StripeTold(s)'
<1>1. \A w \in Workers : View(w)' = View(w)
  BY DEF View
<1>2. \A v : StatusTrue(v, s)' <=> StatusTrue(v, s)
  BY DEF StatusTrue
<1>3. StripeWaits(s) => StripeWaits(s)'
  BY DEF StripeWaits, Asks
<1>4. ASSUME NEW w \in Workers, Tells(w, s) PROVE Tells(w, s)'
  <2>1. worker[w].task.customer = s /\ ReadingTrue(worker[w]) => ReadingTrue(worker[w])'
    BY DEF ReadingTrue
  <2>2. QED
    BY <1>1, <1>4, <2>1 DEF Tells, StatusTrue
<1>5. QED
  BY <1>3, <1>4 DEF StripeTold, StatusTrue, Asks

LEMMA RemoteTold ==
    ASSUME IInv, NEW s \in StripeIds, StripeTold(s),
           \/ \E k \in StripeIds : CustomerChange(k) \/ SubscriptionChange(k) \/ CustomerDelete(k)
           \/ \E c \in CompanyIds : CompanyChange(c) \/ CompanyDelete(c)
           \/ \E provider \in {"stripe", "hubspot"} : RequestSync(Sync(provider))
    PROVE  StripeTold(s)'
<1>1. UNCHANGED <<db, lock, worker>> /\ todo \subseteq todo'
  BY DEF CustomerChange, SubscriptionChange, CustomerDelete, CompanyChange, CompanyDelete,
         RequestSync, HubSpotSet, Change
<1>2. stripe \in [StripeIds -> StripeRecord]
  BY DEF IInv, Typed
<1>3. ASSUME NEW k \in StripeIds, NEW d, NEW subs, NEW listed, StripeSet(k, d, subs, listed)
      PROVE  stripe'[k].subs = subs /\ \A q \in StripeIds \ {k} : stripe'[q] = stripe[q]
  BY <1>2, <1>3 DEF StripeSet
<1>4. ASSUME NEW k \in StripeIds, CustomerChange(k) PROVE StripeTold(s)'
  <2>1. PICK d : StripeSet(k, d, stripe[k].subs, TRUE)
    BY <1>4 DEF CustomerChange
  <2>2. stripe'[s].subs = stripe[s].subs
    BY <1>3, <2>1
  <2>3. QED
    BY <1>1, <2>2, StillTold
<1>5. ASSUME NEW k \in StripeIds, SubscriptionChange(k) PROVE StripeTold(s)'
  <2>1. PICK n \in 1 .. MaxSubs, st \in StripeStatuses :
          /\ StripeSet(k, stripe[k].domain, [q \in DOMAIN stripe[k].subs \cup {n} |->
                           IF q = n THEN st ELSE stripe[k].subs[q]], TRUE)
          /\ todo' = todo \cup {Event(k, n)}
    BY <1>5 DEF SubscriptionChange
  <2>2. CASE k = s
    <3>1. Event(s, n) \in todo' /\ Asks(Event(s, n), s)
      BY <2>1, <2>2 DEF Asks, Event
    <3>2. QED
      BY <3>1, ToldByEvent
  <2>3. CASE k # s
    <3>1. stripe'[s].subs = stripe[s].subs
      BY <1>3, <2>1, <2>3
    <3>2. QED
      BY <1>1, <3>1, StillTold
  <2>4. QED
    BY <2>2, <2>3
<1>6. ASSUME NEW k \in StripeIds, CustomerDelete(k) PROVE StripeTold(s)'
  <2> DEFINE h == stripe[k].subs
             E == {n \in DOMAIN h : h[n] # "ended"}
  <2>1. StripeSet(k, NoDomain, [n \in DOMAIN h |-> "ended"], FALSE)
        /\ todo' = todo \cup {Event(k, n) : n \in E}
    BY <1>6 DEF CustomerDelete
  <2>2. stripe'[k].subs = [n \in DOMAIN h |-> "ended"]
        /\ \A q \in StripeIds \ {k} : stripe'[q] = stripe[q]
    BY <1>3, <2>1
  <2>3. CASE k = s /\ E # {}
    <3>1. PICK n \in E : TRUE
      BY <2>3
    <3>2. Event(s, n) \in todo' /\ Asks(Event(s, n), s)
      BY <2>1, <2>3 DEF Asks, Event
    <3>3. QED
      BY <3>2, ToldByEvent
  <2>4. CASE k = s /\ E = {}
    <3>1. h \in Histories
      BY <1>2 DEF StripeRecord
    <3>2. h = [n \in DOMAIN h |-> "ended"]
      BY <2>4, <3>1 DEF Histories
    <3>3. stripe'[s].subs = stripe[s].subs
      BY <2>2, <2>4, <3>2
    <3>4. QED
      BY <1>1, <3>3, StillTold
  <2>5. CASE k # s
    <3>1. stripe'[s].subs = stripe[s].subs
      BY <2>2, <2>5
    <3>2. QED
      BY <1>1, <3>1, StillTold
  <2>6. QED
    BY <2>3, <2>4, <2>5
<1>7. ASSUME stripe' = stripe PROVE StripeTold(s)'
  BY <1>1, <1>7, StillTold
<1>8. QED
  BY <1>4, <1>5, <1>6, <1>7
     DEF CompanyChange, CompanyDelete, RequestSync, HubSpotSet

-----------------------------------------------------------------------------
(* The workers and the status of a customer                                *)

\* Who holds the lock, in one place.
LEMMA Holder ==
    ASSUME IInv, NEW w \in Workers
    PROVE  /\ worker[w].pc \in Held <=> lock = w
           /\ worker[w].pc # "idle" => worker[w].task \in Tasks
           /\ lock \in Workers \cup {None} /\ None \notin Workers
  BY BoundsAssumption DEF IInv, Typed, WorkerRight, LockRight, PlaceRight

\* A worker without the lock does something that only it sees.
LEMMA ToldAside ==
    ASSUME NEW s \in StripeIds, NEW w \in Workers, StripeTold(s),
           UNCHANGED <<stripe, db, lock>>, lock # w,
           \A u \in Workers \ {w} : worker'[u] = worker[u],
           \A t \in todo : Asks(t, s) => StripeWaits(s)',
           worker[w].pc = "lock" /\ Asks(worker[w].task, s) => StripeWaits(s)'
    PROVE  StripeTold(s)'
<1>1. StripeWaits(s) => StripeWaits(s)'
  <2>1. ASSUME NEW u \in Workers \ {w}, worker[u].pc = "lock", Asks(worker[u].task, s)
        PROVE  StripeWaits(s)'
    BY <2>1 DEF StripeWaits, Asks
  <2>2. QED
    BY <2>1 DEF StripeWaits
<1>2. \A u \in Workers \ {w} : Tells(u, s)' <=> Tells(u, s)
  BY DEF Tells, View, StatusTrue, ReadingTrue
<1>3. QED
  BY <1>1, <1>2 DEF StripeTold, StatusTrue, Asks

\* The holder of the lock writes and moves on.
LEMMA ToldByWrite ==
    ASSUME IInv, NEW s \in StripeIds, NEW w \in Workers, StripeTold(s),
           UNCHANGED <<stripe, db, lock, todo>>, lock = w,
           worker'[w].task = worker[w].task,
           \A u \in Workers \ {w} : worker'[u] = worker[u],
           stripe[s].subs # <<>> /\ Tells(w, s) => Tells(w, s)'
    PROVE  StripeTold(s)'
<1>1. worker[w].pc # "lock" /\ lock # None
  BY Holder DEF Held
<1>2. StripeWaits(s) => StripeWaits(s)'
  BY <1>1 DEF StripeWaits, Asks
<1>3. QED
  BY <1>1, <1>2 DEF StripeTold, StatusTrue, Asks

LEMMA StartTold ==
    ASSUME IInv, NEW s \in StripeIds, StripeTold(s), NEW w \in Workers, NEW t \in Tasks, Start(w, t)
    PROVE  StripeTold(s)'
<1>1. /\ worker[w].pc = "idle" /\ todo' = todo \ {t} /\ UNCHANGED <<stripe, db, lock>>
      /\ worker' = [worker EXCEPT ![w].pc = IF t.kind = "hubspot" THEN "list" ELSE "lock",
                                  ![w].task = t]
  BY DEF Start
<1>2. worker \in [Workers -> Jobs]
  BY Viewing
<1>3. /\ \A u \in Workers \ {w} : worker'[u] = worker[u]
      /\ worker'[w].pc = (IF t.kind = "hubspot" THEN "list" ELSE "lock") /\ worker'[w].task = t
  BY <1>1, <1>2 DEF Jobs
<1>4. lock # w
  BY <1>1, Holder DEF Held
<1>5. ASSUME NEW q \in todo, Asks(q, s) PROVE StripeWaits(s)'
  <2>1. CASE q = t
    <3>1. t.kind # "hubspot"
      BY <1>5, <2>1 DEF Asks, Sync
    <3>2. QED
      BY <1>3, <1>5, <2>1, <3>1 DEF StripeWaits, Asks
  <2>2. CASE q # t
    BY <1>1, <1>5, <2>2 DEF StripeWaits, Asks
  <2>3. QED
    BY <2>1, <2>2
<1>6. QED
  BY <1>1, <1>3, <1>4, <1>5, ToldAside

LEMMA LockTold ==
    ASSUME IInv, NEW s \in StripeIds, StripeTold(s), NEW w \in Workers, Lock(w)
    PROVE  StripeTold(s)'
<1> DEFINE j == worker[w]
<1>1. /\ j.pc = "lock" /\ lock = None /\ lock' = w /\ UNCHANGED <<stripe, todo, db>>
      /\ worker' = [worker EXCEPT ![w].pc =
            CASE j.task.kind = "stripe"  -> "customers"
              [] j.task.kind = "event"   -> "retrieve"
              [] j.task.kind = "hubspot" -> IF j.company = None THEN "missing" ELSE "store"]
  BY DEF Lock, LockFree, Goto
<1>2. worker \in [Workers -> Jobs] /\ j.task \in Tasks /\ View(w) = db
  BY <1>1, Viewing, Holder DEF Pcs, Held
<1>3. j.task.kind \in {"stripe", "event", "hubspot"}
      /\ (j.task.kind = "stripe" <=> j.task = Sync("stripe"))
  BY <1>2 DEF Tasks, Sync, Event
<1>4. /\ \A u \in Workers \ {w} : worker'[u] = worker[u]
      /\ worker'[w].task = j.task /\ worker'[w].writes = j.writes
      /\ worker'[w].pc \in {"customers", "retrieve", "missing", "store"}
      /\ (j.task.kind = "stripe" => worker'[w].pc = "customers")
      /\ (j.task.kind = "event" => worker'[w].pc = "retrieve")
  BY <1>1, <1>2, <1>3 DEF Jobs
<1>5. View(w)' = db
  BY <1>1, <1>2, <1>4 DEF View
<1>6. ASSUME StripeWaits(s), ~ Asks(j.task, s) PROVE StripeWaits(s)'
  BY <1>1, <1>4, <1>6 DEF StripeWaits, Asks
<1>7. CASE Asks(j.task, s)
  <2>1. Tells(w, s)'
    BY <1>3, <1>4, <1>7 DEF Tells, Asks
  <2>2. QED
    BY <1>1, <1>4, <1>7, <2>1, BoundsAssumption DEF StripeTold, Asks
<1>8. CASE ~ Asks(j.task, s) /\ ~ StripeWaits(s)
  <2>1. stripe[s].subs # <<>> => StatusTrue(db, s)
    BY <1>1, <1>8 DEF StripeTold
  <2>2. stripe[s].subs # <<>> => Tells(w, s)'
    BY <1>1, <1>4, <1>5, <2>1 DEF Tells, StatusTrue
  <2>3. QED
    BY <1>1, <2>1, <2>2, BoundsAssumption DEF StripeTold, StatusTrue
<1>9. QED
  BY <1>6, <1>7, <1>8 DEF StripeTold

LEMMA CommitTold ==
    ASSUME IInv, NEW s \in StripeIds, StripeTold(s), NEW w \in Workers, Commit(w)
    PROVE  StripeTold(s)'
<1>1. /\ worker[w].pc = "commit" /\ db' = View(w) /\ lock' = None /\ UNCHANGED <<stripe, todo>>
      /\ \A u \in Workers \ {w} : worker'[u] = worker[u]
  BY DEF Commit
<1>2. lock = w /\ None \notin Workers
  BY <1>1, Holder DEF Held
<1>3. StripeWaits(s) => StripeWaits(s)'
  BY <1>1 DEF StripeWaits, Asks
<1>4. stripe[s].subs # <<>> /\ ~ StripeWaits(s) => StatusTrue(View(w), s)
  BY <1>1, <1>2 DEF StripeTold, Tells
<1>5. QED
  BY <1>1, <1>2, <1>3, <1>4 DEF StripeTold, StatusTrue

LEMMA FailTold ==
    ASSUME IInv, NEW s \in StripeIds, StripeTold(s), NEW w \in Workers, Fail(w)
    PROVE  StripeTold(s)'
<1>1. /\ worker[w].pc # "idle" /\ todo' = todo \cup {worker[w].task} /\ UNCHANGED <<stripe, db>>
      /\ lock' = (IF lock = w THEN None ELSE lock)
      /\ \A u \in Workers \ {w} : worker'[u] = worker[u]
  BY DEF Fail
<1>2. CASE Asks(worker[w].task, s)
  BY <1>1, <1>2, ToldByEvent
<1>3. CASE ~ Asks(worker[w].task, s) /\ lock = w
  <2>1. StripeWaits(s) => StripeWaits(s)'
    BY <1>1, <1>3 DEF StripeWaits, Asks
  <2>2. stripe[s].subs # <<>> /\ ~ StripeWaits(s) => StatusTrue(db, s)
    BY <1>3 DEF StripeTold
  <2>3. QED
    BY <1>1, <1>3, <2>1, <2>2, BoundsAssumption DEF StripeTold, StatusTrue
<1>4. CASE ~ Asks(worker[w].task, s) /\ lock # w
  <2>1. \A t \in todo : Asks(t, s) => StripeWaits(s)'
    BY <1>1 DEF StripeWaits, Asks
  <2>2. QED
    BY <1>1, <1>4, <2>1, ToldAside
<1>5. QED
  BY <1>2, <1>3, <1>4

\* A transaction that leaves a status as it saw it.
LEMMA TellsStill ==
    ASSUME NEW s \in StripeIds, NEW w \in Workers, NEW v, stripe' = stripe,
           worker'[w].pc \in {"compare", "commit"}, StatusTrue(View(w), s),
           View(w)' = v, v.status[s] = View(w).status[s]
    PROVE  Tells(w, s)'
  BY DEF Tells, StatusTrue

LEMMA ListCustomersTold ==
    ASSUME IInv, NEW s \in StripeIds, StripeTold(s), NEW w \in Workers, ListCustomers(w)
    PROVE  StripeTold(s)'
<1>1. /\ worker[w].pc = "customers" /\ UNCHANGED <<stripe, db, lock, todo>>
      /\ worker' = [worker EXCEPT ![w].pc = "subscriptions",
                       ![w].writes = Plus(@, SavedCustomers(ListedCustomers, MailDomains))]
  BY DEF ListCustomers, Write
<1>2. worker \in [Workers -> Jobs] /\ lock = w
  BY <1>1, Viewing, Holder DEF Held
<1>3. /\ \A u \in Workers \ {w} : worker'[u] = worker[u]
      /\ worker'[w].task = worker[w].task /\ worker'[w].pc = "subscriptions"
  BY <1>1, <1>2 DEF Jobs
<1>4. Tells(w, s)'
  BY <1>3 DEF Tells
<1>5. QED
  BY <1>1, <1>2, <1>3, <1>4, ToldByWrite

\* The listed subscriptions tell the status of every customer that has some.
LEMMA ListSubscriptionsTold ==
    ASSUME IInv, NEW s \in StripeIds, StripeTold(s), NEW w \in Workers, ListSubscriptions(w)
    PROVE  StripeTold(s)'
<1> DEFINE facts == [k \in Subscribers |-> StatusOf(Best(Readings(k)))]
           more == SavedStatuses(facts)
<1>1. /\ worker[w].pc = "subscriptions" /\ UNCHANGED <<stripe, db, lock, todo>>
      /\ Write(w, "compare", more)
      /\ worker' = [worker EXCEPT ![w].pc = "compare", ![w].writes = Plus(@, more)]
  BY DEF ListSubscriptions, Write
<1>2. worker \in [Workers -> Jobs] /\ lock = w /\ View(w) \in Tables
  BY <1>1, Viewing, Holder DEF Held
<1>3. /\ \A u \in Workers \ {w} : worker'[u] = worker[u]
      /\ worker'[w].task = worker[w].task /\ worker'[w].pc = "compare"
  BY <1>1, <1>2 DEF Jobs
<1>4. ASSUME stripe[s].subs # <<>> PROVE Tells(w, s)'
  <2>1. facts \in [Subscribers -> StripeFact] /\ Subscribers \in SUBSET StripeIds
    BY SubscriberFacts
  <2>2. s \in Subscribers
    BY <1>4 DEF Subscribers
  <2>3. facts[s] \in StripeFact /\ facts[s].status = Current(stripe[s].subs)
    BY <1>4, <2>1, <2>2, BestIsCurrent DEF StatusOf
  <2> HIDE DEF facts
  <2>4. Seen(more, View(w)).status[s] = facts[s]
    BY <1>2, <2>1, <2>2, StatusesSaved
  <2>5. View(w)' = Seen(more, View(w))
    BY <1>1, WriteSeen
  <2>6. facts[s] # None
    BY <2>3, FactsAssumption
  <2>7. StatusTrue(View(w), s)'
    BY <1>1, <2>3, <2>4, <2>5, <2>6 DEF StatusTrue
  <2>8. QED
    BY <1>3, <2>7 DEF Tells
<1> HIDE DEF more, facts
<1>5. QED
  BY <1>1, <1>2, <1>3, <1>4, ToldByWrite

LEMMA RetrieveTold ==
    ASSUME IInv, NEW s \in StripeIds, StripeTold(s), NEW w \in Workers, Retrieve(w)
    PROVE  StripeTold(s)'
<1> DEFINE k == worker[w].task.customer
           n == worker[w].task.sub
           r == [n |-> n, status |-> stripe[k].subs[n], ver |-> stripe[k].ver]
<1>1. /\ worker[w].pc = "retrieve" /\ UNCHANGED <<stripe, db, lock, todo>>
      /\ worker' = [worker EXCEPT ![w].pc = "refresh", ![w].reading = r]
  BY DEF Retrieve
<1>2. worker \in [Workers -> Jobs] /\ lock = w /\ PlaceRight(worker[w])
  BY <1>1, Viewing, Holder DEF Held
<1>3. worker[w].task.kind = "event" /\ n \in DOMAIN stripe[k].subs
  BY <1>1, <1>2 DEF PlaceRight, Exists
<1>4. r.n = n /\ r.status = stripe[k].subs[n]
  OBVIOUS
<1> HIDE DEF r
<1>5. /\ \A u \in Workers \ {w} : worker'[u] = worker[u]
      /\ worker'[w].task = worker[w].task /\ worker'[w].pc = "refresh"
      /\ worker'[w].reading = r /\ worker'[w].writes = worker[w].writes
  BY <1>1, <1>2 DEF Jobs
<1>6. ASSUME Tells(w, s) PROVE Tells(w, s)'
  <2>1. CASE k = s
    <3>1. ReadingTrue(worker[w])'
      BY <1>1, <1>3, <1>4, <1>5 DEF ReadingTrue
    <3>2. QED
      BY <1>5, <2>1, <3>1 DEF Tells
  <2>2. CASE k # s
    <3>1. View(w)' = View(w)
      BY <1>1, <1>5 DEF View
    <3>2. StatusTrue(View(w), s)
      BY <1>1, <1>6, <2>2 DEF Tells
    <3>3. QED
      BY <1>1, <1>5, <2>2, <3>1, <3>2 DEF Tells, StatusTrue
  <2>3. QED
    BY <2>1, <2>2
<1>7. QED
  BY <1>1, <1>2, <1>5, <1>6, ToldByWrite

LEMMA RefreshTold ==
    ASSUME IInv, NEW s \in StripeIds, StripeTold(s), NEW w \in Workers, Refresh(w)
    PROVE  StripeTold(s)'
<1> DEFINE k == worker[w].task.customer
           current == Preferred(worker[w].reading, Best(Readings(k)))
           facts == [q \in {k} |-> StatusOf(current)]
           C == SavedCustomers({k}, MailDomains)
           F == SavedStatuses(facts)
           v == Seen(C, View(w))
<1>1. /\ worker[w].pc = "refresh" /\ UNCHANGED <<stripe, db, lock, todo>>
      /\ Write(w, "compare", Plus(C, F))
      /\ worker' = [worker EXCEPT ![w].pc = "compare", ![w].writes = Plus(@, Plus(C, F))]
  BY DEF Refresh, Write
<1>2. worker \in [Workers -> Jobs] /\ lock = w /\ View(w) \in Tables
  BY <1>1, Viewing, Holder DEF Held
<1>3. k \in StripeIds /\ current \in Reading
  BY <1>1, CurrentReading
<1>4. /\ \A u \in Workers \ {w} : worker'[u] = worker[u]
      /\ worker'[w].task = worker[w].task /\ worker'[w].pc = "compare"
  BY <1>1, <1>2 DEF Jobs
<1>5. k = s /\ ReadingTrue(worker[w]) => current.status = Current(stripe[s].subs)
  BY <1>1, RefreshIsCurrent
<1> HIDE DEF k, current
<1>6. /\ facts \in [{k} -> StripeFact] /\ {k} \in SUBSET StripeIds
      /\ facts[k].status = current.status /\ facts[k] # None
  <2>1. StatusOf(current) \in StripeFact
    BY <1>3 DEF StatusOf, StripeFact, Reading
  <2>2. StatusOf(current).status = current.status /\ StatusOf(current) # None
    BY <2>1, FactsAssumption DEF StatusOf
  <2>3. QED
    BY <1>3, <2>1, <2>2
<1> HIDE DEF facts
<1>7. v \in Tables /\ v.status = View(w).status
  BY <1>1, <1>6, CustomersSeen
<1>8. View(w)' = Seen(F, v)
  BY <1>1, WriteSeen, SeenPlus
<1> HIDE DEF C, v
<1>9. \A q \in StripeIds : Seen(F, v).status[q] = IF q \in {k} THEN facts[q] ELSE v.status[q]
  BY <1>6, <1>7, StatusesSaved
<1> HIDE DEF F
<1>10. ASSUME Tells(w, s) PROVE Tells(w, s)'
  <2>1. CASE k = s
    <3>1. ReadingTrue(worker[w])
      BY <1>1, <1>10, <2>1 DEF Tells, k
    <3>2. StatusTrue(View(w), s)'
      BY <1>1, <1>5, <1>6, <1>8, <1>9, <2>1, <3>1 DEF StatusTrue
    <3>3. QED
      BY <1>4, <3>2 DEF Tells
  <2>2. CASE k # s
    <3>1. StatusTrue(View(w), s)
      BY <1>1, <1>10, <2>2 DEF Tells, k
    <3>2. QED
      BY <1>1, <1>4, <1>7, <1>8, <1>9, <2>2, <3>1, TellsStill
  <2>3. QED
    BY <2>1, <2>2
<1>11. QED
  BY <1>1, <1>2, <1>4, <1>10, ToldByWrite

\* Comparing, storing a company and finding missing customers leave statuses alone.
LEMMA WriteTold ==
    ASSUME IInv, NEW s \in StripeIds, StripeTold(s), NEW w \in Workers,
           StoreCompany(w) \/ Compare(w) \/ FindMissing(w)
    PROVE  StripeTold(s)'
<1>1. ASSUME NEW pc \in {"compare", "commit"}, NEW more, Write(w, pc, more),
             worker[w].pc \in {"store", "compare", "missing"},
             Seen(more, View(w)).status = View(w).status
      PROVE  StripeTold(s)'
  <2>1. /\ UNCHANGED <<stripe, db, lock, todo>>
        /\ worker' = [worker EXCEPT ![w].pc = pc, ![w].writes = Plus(@, more)]
    BY <1>1 DEF Write
  <2>2. worker \in [Workers -> Jobs] /\ lock = w
    BY <1>1, Viewing, Holder DEF Held
  <2>3. /\ \A u \in Workers \ {w} : worker'[u] = worker[u]
        /\ worker'[w].task = worker[w].task /\ worker'[w].pc = pc
    BY <2>1, <2>2 DEF Jobs
  <2>4. View(w)' = Seen(more, View(w))
    BY <1>1, WriteSeen
  <2>5. ASSUME Tells(w, s) PROVE Tells(w, s)'
    <3>1. StatusTrue(View(w), s)
      BY <1>1, <2>5 DEF Tells
    <3>2. QED
      BY <1>1, <2>1, <2>3, <2>4, <3>1, TellsStill
  <2>6. QED
    BY <2>1, <2>2, <2>3, <2>5, ToldByWrite
<1>2. View(w) \in Tables /\ RightTables(View(w))
  BY Viewing
<1>3. CASE StoreCompany(w)
  <2> DEFINE c == worker[w].company
             company == worker[w].listing[c]
             fact == [status |-> company.status, ver |-> company.ver]
  <2>1. worker[w].pc = "store" /\ Write(w, "compare", StoredCompany(View(w), c, company.domain, fact))
    BY <1>3 DEF StoreCompany
  <2>2. Seen(StoredCompany(View(w), c, company.domain, fact), View(w)).status = View(w).status
    BY <1>2, <2>1 DEF Seen, StoredCompany, NoWrites, Nothing, Over, Tables
  <2>3. QED
    BY <1>1, <2>1, <2>2
<1>4. CASE Compare(w)
  <2>1. PICK C : worker[w].pc = "compare" /\ Write(w, "commit", Compared(View(w), C))
    BY <1>4 DEF Compare
  <2>2. Seen(Compared(View(w), C), View(w)).status = View(w).status
    BY <1>2 DEF Seen, Compared, NoWrites, Nothing, Over, Tables
  <2>3. QED
    BY <1>1, <2>1, <2>2
<1>5. CASE FindMissing(w)
  <2>1. worker[w].pc = "missing" /\ Write(w, "commit", FoundMissing(View(w)))
    BY <1>5 DEF FindMissing
  <2>2. Seen(FoundMissing(View(w)), View(w)).status = View(w).status
    BY <1>2, MissingFound
  <2>3. QED
    BY <1>1, <2>1, <2>2
<1>6. QED
  BY <1>3, <1>4, <1>5

\* HubSpot is read without the lock.
LEMMA ListingTold ==
    ASSUME IInv, NEW s \in StripeIds, StripeTold(s), NEW w \in Workers,
           ListCompanies(w) \/ NextCompany(w)
    PROVE  StripeTold(s)'
<1>1. worker[w].pc \in {"list", "next"} /\ UNCHANGED <<stripe, db, lock, todo>>
  BY DEF ListCompanies, NextCompany
<1>2. \A u \in Workers \ {w} : worker'[u] = worker[u]
  <2>1. worker \in [Workers -> Jobs]
    BY Viewing
  <2>2. CASE ListCompanies(w)
    BY <2>1, <2>2 DEF ListCompanies
  <2>3. CASE NextCompany(w)
    <3>1. PICK c : worker' = [worker EXCEPT ![w].pc = "lock", ![w].company = c]
      BY <2>3 DEF NextCompany
    <3>2. QED
      BY <2>1, <3>1
  <2>4. QED
    BY <2>2, <2>3
<1>3. lock # w
  BY <1>1, Holder DEF Held
<1>4. \A t \in todo : Asks(t, s) => StripeWaits(s)'
  BY <1>1 DEF StripeWaits, Asks
<1>5. QED
  BY <1>1, <1>2, <1>3, <1>4, ToldAside

LEMMA StripeNextTold ==
    ASSUME IInv, NEW s \in StripeIds, StripeTold(s), [Next]_vars
    PROVE  StripeTold(s)'
<1>1. ASSUME NEW w \in Workers, Step(w) PROVE StripeTold(s)'
  <2>1. ASSUME NEW t \in Tasks, Start(w, t) PROVE StripeTold(s)'
    BY <2>1, StartTold
  <2>2. QED
    BY <1>1, <2>1, LockTold, ListCustomersTold, ListSubscriptionsTold, RetrieveTold, RefreshTold,
       WriteTold, ListingTold, CommitTold DEF Step
<1>2. CASE UNCHANGED vars
  BY <1>2, StillTold DEF vars
<1>3. QED
  BY <1>1, <1>2, FailTold, RemoteTold DEF Next

-----------------------------------------------------------------------------
(* What HubSpot lists and what is stored of it                             *)

\* An observation of a company is its present one, or an earlier one.
SameAs(fact, c)    == fact.ver = hubspot[c].ver /\ fact.status = hubspot[c].status
NotBeyond(fact, c) == fact.ver <= hubspot[c].ver /\ (fact.ver = hubspot[c].ver => SameAs(fact, c))

\* The company's customer carries its present status.
HubTrue(v, c) == v.link[c] # None /\ v.hub[v.link[c]] # None /\ SameAs(v.hub[v.link[c]], c)

\* A sync of HubSpot is queued or has not read it.
HubWaits ==
    \/ Sync("hubspot") \in todo
    \/ \E w \in Workers : worker[w].pc = "list"

HubTold(c) ==
    hubspot[c].listed =>
        \/ HubWaits
        \/ HubTrue(db, c)
        \/ \E w \in Workers : c \in DOMAIN worker[w].listing /\ SameAs(worker[w].listing[c], c)

\* A linked company's customer carries a status of that company, and no other
\* customer carries a HubSpot status.
HubRight(v) ==
    /\ \A c \in CompanyIds : v.link[c] # None =>
          v.hub[v.link[c]] # None /\ NotBeyond(v.hub[v.link[c]], c)
    /\ \A k \in Customers : v.hub[k] # None => \E c \in CompanyIds : v.link[c] = k

\* A transaction that has stored a company leaves nothing older than its listing.
Stored(w) ==
    LET c == worker[w].company
        v == View(w)
    IN  worker[w].pc \in {"compare", "commit"} /\ c # None =>
           /\ v.link[c] # None /\ v.hub[v.link[c]] # None
           /\ v.hub[v.link[c]].ver >= worker[w].listing[c].ver

\* A listing is being worked off, and all of it before the missing customers.
ListingRight(w) ==
    LET j == worker[w] IN
    /\ \A c \in DOMAIN j.listing : NotBeyond(j.listing[c], c)
    /\ j.pc # "next" /\ j.company = None => DOMAIN j.listing = {}
    /\ j.pc = "missing" => j.company = None

HubView(w) == HubRight(View(w)) /\ ListingRight(w) /\ Stored(w)

\* The invariant that IInv is strengthened with.
StripeKnown  == \A s \in StripeIds : StripeTold(s)
HubSpotKnown ==
    /\ \A c \in CompanyIds : HubTold(c)
    /\ HubRight(db)
    /\ \A w \in Workers : HubView(w)

Told == StripeKnown /\ HubSpotKnown

\* HubSpot moves on, what was observed of it does not.
LEMMA StillNotBeyond ==
    ASSUME NEW c \in CompanyIds, hubspot[c].ver \in Nat, NEW fact, fact.ver \in Nat, NotBeyond(fact, c),
           \/ hubspot'[c].ver = hubspot[c].ver + 1
           \/ hubspot'[c].ver = hubspot[c].ver /\ hubspot'[c].status = hubspot[c].status
    PROVE  NotBeyond(fact, c)'
<1>1. CASE hubspot'[c].ver = hubspot[c].ver + 1
  <2>1. fact.ver <= hubspot[c].ver
    BY DEF NotBeyond
  <2>2. fact.ver <= hubspot'[c].ver /\ fact.ver # hubspot'[c].ver
    BY <1>1, <2>1
  <2>3. QED
    BY <2>2 DEF NotBeyond
<1>2. CASE hubspot'[c].ver = hubspot[c].ver /\ hubspot'[c].status = hubspot[c].status
  BY <1>2 DEF NotBeyond, SameAs
<1>3. QED
  BY <1>1, <1>2

LEMMA ListedRecord ==
    ASSUME NEW listing \in Listings, NEW c \in DOMAIN listing
    PROVE  c \in CompanyIds /\ listing[c] \in HubSpotRecord
  BY DEF Listings

LEMMA RemoteKnown ==
    ASSUME IInv, HubSpotKnown,
           \/ \E k \in StripeIds : CustomerChange(k) \/ SubscriptionChange(k) \/ CustomerDelete(k)
           \/ \E c \in CompanyIds : CompanyChange(c) \/ CompanyDelete(c)
           \/ \E provider \in {"stripe", "hubspot"} : RequestSync(Sync(provider))
    PROVE  HubSpotKnown'
<1>1. UNCHANGED <<db, lock, worker>> /\ todo \subseteq todo'
  BY DEF CustomerChange, SubscriptionChange, CustomerDelete, CompanyChange, CompanyDelete,
         RequestSync, HubSpotSet, Change
<1>2. /\ hubspot \in [CompanyIds -> HubSpotRecord] /\ db \in Tables
      /\ \A w \in Workers : View(w) \in Tables /\ worker[w].listing \in Listings
  BY Viewing DEF IInv, Typed, CommittedRight, RightTables, Jobs
<1>3. hubspot' = hubspot \/ Sync("hubspot") \in todo'
  BY DEF CustomerChange, SubscriptionChange, CustomerDelete, CompanyChange, CompanyDelete,
         RequestSync, HubSpotSet
<1>4. ASSUME NEW k \in CompanyIds
      PROVE  \/ hubspot'[k].ver = hubspot[k].ver + 1
             \/ hubspot'[k].ver = hubspot[k].ver /\ hubspot'[k].status = hubspot[k].status
  <2>1. ASSUME NEW c \in CompanyIds, CompanyChange(c)
        PROVE  \/ hubspot'[k] = hubspot[k]
               \/ hubspot'[k].ver = hubspot[k].ver + 1
    <3>1. PICK d, st : hubspot' = [hubspot EXCEPT ![c] =
                 [listed |-> TRUE, domain |-> d, status |-> st, ver |-> hubspot[c].ver + 1]]
      BY <2>1 DEF CompanyChange, HubSpotSet
    <3>2. QED
      BY <1>2, <3>1
  <2>2. ASSUME NEW c \in CompanyIds, CompanyDelete(c)
        PROVE  hubspot'[k].ver = hubspot[k].ver /\ hubspot'[k].status = hubspot[k].status
    <3>1. hubspot' = [hubspot EXCEPT ![c] = [hubspot[c] EXCEPT !.listed = FALSE]]
      BY <2>2 DEF CompanyDelete, HubSpotSet
    <3>2. QED
      BY <1>2, <3>1 DEF HubSpotRecord
  <2>3. CASE hubspot' = hubspot
    BY <2>3
  <2>4. QED
    BY <2>1, <2>2, <2>3
       DEF CustomerChange, SubscriptionChange, CustomerDelete, RequestSync
<1>5. ASSUME NEW c \in CompanyIds, NEW fact, fact.ver \in Nat, NotBeyond(fact, c)
      PROVE  NotBeyond(fact, c)'
  <2>1. hubspot[c].ver \in Nat
    BY <1>2 DEF HubSpotRecord
  <2>2. QED
    BY <1>4, <1>5, <2>1, StillNotBeyond
<1>6. ASSUME NEW v \in Tables, HubRight(v) PROVE HubRight(v)'
  <2>1. ASSUME NEW c \in CompanyIds, v.link[c] # None
        PROVE  v.hub[v.link[c]] # None /\ NotBeyond(v.hub[v.link[c]], c)'
    <3>1. v.hub[v.link[c]] # None /\ NotBeyond(v.hub[v.link[c]], c)
      BY <1>6, <2>1 DEF HubRight
    <3>2. v.link[c] \in Customers
      BY <2>1 DEF Tables
    <3>3. v.hub[v.link[c]].ver \in Nat
      BY <3>1, <3>2 DEF Tables, HubSpotFact
    <3>4. QED
      BY <1>5, <3>1, <3>3
  <2>2. QED
    BY <1>6, <2>1 DEF HubRight
<1>7. ASSUME NEW w \in Workers PROVE HubView(w)'
  <2>1. View(w)' = View(w) /\ HubView(w)
    BY <1>1 DEF View, HubSpotKnown
  <2>2. HubRight(View(w))'
    BY <1>2, <1>6, <2>1 DEF HubView
  <2>3. Stored(w)'
    BY <1>1, <2>1 DEF HubView, Stored
  <2>4. ListingRight(w)'
    <3>1. ASSUME NEW c \in DOMAIN worker[w].listing PROVE NotBeyond(worker[w].listing[c], c)'
      <4>1. c \in CompanyIds /\ worker[w].listing[c] \in HubSpotRecord
        BY <1>2, <3>1, ListedRecord
      <4>2. NotBeyond(worker[w].listing[c], c) /\ worker[w].listing[c].ver \in Nat
        BY <2>1, <4>1 DEF HubView, ListingRight, HubSpotRecord
      <4>3. PICK fact : fact = worker[w].listing[c]
        OBVIOUS
      <4>4. NotBeyond(fact, c) /\ fact.ver \in Nat
        BY <4>2, <4>3
      <4>5. NotBeyond(fact, c)'
        BY <1>5, <4>1, <4>4
      <4>6. fact = worker'[w].listing[c]
        BY <1>1, <4>3
      <4>7. QED
        BY <4>5, <4>6 DEF NotBeyond, SameAs
    <3>2. QED
      BY <1>1, <2>1, <3>1 DEF HubView, ListingRight
  <2>5. QED
    BY <2>2, <2>3, <2>4 DEF HubView
<1>8. ASSUME NEW c \in CompanyIds PROVE HubTold(c)'
  <2>1. CASE Sync("hubspot") \in todo'
    BY <2>1 DEF HubTold, HubWaits
  <2>2. CASE hubspot' = hubspot
    BY <1>1, <2>2 DEF HubSpotKnown, HubTold, HubWaits, HubTrue, SameAs
  <2>3. QED
    BY <1>3, <2>1, <2>2
<1>9. HubRight(db)'
  BY <1>1, <1>2, <1>6 DEF HubSpotKnown
<1>10. QED
  BY <1>7, <1>8, <1>9 DEF HubSpotKnown

-----------------------------------------------------------------------------
(* The workers and what is stored of HubSpot                               *)

\* The other workers still see what is right, also after a commit.
LEMMA OthersKnown ==
    ASSUME IInv, IInv', HubSpotKnown, NEW w \in Workers, hubspot' = hubspot,
           NEW u \in Workers \ {w}, worker'[u] = worker[u],
           db' = db \/ (lock = w /\ HubRight(db)')
    PROVE  HubView(u)'
<1>1. HubView(u)
  BY DEF HubSpotKnown
<1>2. ListingRight(u)'
  BY <1>1 DEF HubView, ListingRight, NotBeyond, SameAs
<1>3. CASE db' = db
  <2>1. View(u)' = View(u)
    BY <1>3 DEF View
  <2>2. QED
    BY <1>1, <1>2, <2>1 DEF HubView, HubRight, Stored, NotBeyond, SameAs
<1>4. CASE lock = w /\ HubRight(db)'
  <2>1. worker[u].pc \in Pcs \ Held /\ worker[u].writes = NoWrites
    <3>1. worker[u] \in Jobs /\ LockRight(u) /\ lock # u
      BY <1>4, Viewing
    <3>2. QED
      BY <3>1 DEF LockRight, Jobs
  <2>2. db' \in Tables
    BY DEF IInv, CommittedRight, RightTables
  <2>3. View(u)' = db'
    BY <2>1, <2>2, SeenNothing DEF View
  <2>4. HubRight(View(u))'
    BY <1>4, <2>3 DEF HubRight, NotBeyond, SameAs
  <2>5. Stored(u)'
    BY <2>1 DEF Stored, Held
  <2>6. QED
    BY <1>2, <2>4, <2>5 DEF HubView
<1>5. QED
  BY <1>3, <1>4

\* What is left to show of a step of one worker.
LEMMA WorkerKnown ==
    ASSUME IInv, IInv', HubSpotKnown, NEW w \in Workers, hubspot' = hubspot,
           \A u \in Workers \ {w} : worker'[u] = worker[u],
           db' = db \/ (lock = w /\ HubRight(db)'),
           HubView(w)', \A c \in CompanyIds : HubTold(c)'
    PROVE  HubSpotKnown'
<1>1. HubRight(db)'
  <2>1. CASE db' = db
    BY <2>1 DEF HubSpotKnown, HubRight, NotBeyond, SameAs
  <2>2. QED
    BY <2>1
<1>2. \A u \in Workers \ {w} : HubView(u)'
  BY OthersKnown
<1>3. QED
  BY <1>1, <1>2 DEF HubSpotKnown

\* A company stays told while the listings and the tables stay.
LEMMA StillHubTold ==
    ASSUME HubSpotKnown, NEW w \in Workers, hubspot' = hubspot, db' = db,
           \A u \in Workers \ {w} : worker'[u] = worker[u],
           worker'[w].listing = worker[w].listing, HubWaits => HubWaits'
    PROVE  \A c \in CompanyIds : HubTold(c)'
<1>1. \A u \in Workers : worker'[u].listing = worker[u].listing
  OBVIOUS
<1>2. QED
  BY <1>1 DEF HubSpotKnown, HubTold, HubTrue, SameAs

\* A step that writes nothing.
LEMMA QuietStep ==
    ASSUME IInv, IInv', HubSpotKnown, NEW w \in Workers, hubspot' = hubspot, db' = db,
           \A u \in Workers \ {w} : worker'[u] = worker[u],
           worker'[w].listing = worker[w].listing, worker'[w].writes = worker[w].writes,
           worker'[w].pc \notin {"compare", "commit"},
           worker'[w].pc # "next" /\ worker'[w].company = None => DOMAIN worker[w].listing = {},
           worker'[w].pc = "missing" => worker'[w].company = None,
           HubWaits => HubWaits'
    PROVE  HubSpotKnown'
<1>1. View(w)' = View(w)
  BY DEF View
<1>2. HubView(w)
  BY DEF HubSpotKnown
<1>3. HubRight(View(w))'
  BY <1>1, <1>2 DEF HubView, HubRight, NotBeyond, SameAs
<1>4. ListingRight(w)'
  BY <1>2 DEF HubView, ListingRight, NotBeyond, SameAs
<1>5. Stored(w)'
  BY DEF Stored
<1>6. QED
  BY <1>3, <1>4, <1>5, StillHubTold, WorkerKnown DEF HubView

LEMMA StartKnown ==
    ASSUME IInv, IInv', HubSpotKnown, NEW w \in Workers, NEW t \in Tasks, Start(w, t)
    PROVE  HubSpotKnown'
<1>1. /\ worker[w].pc = "idle" /\ todo' = todo \ {t} /\ UNCHANGED <<hubspot, db>>
      /\ worker' = [worker EXCEPT ![w].pc = IF t.kind = "hubspot" THEN "list" ELSE "lock",
                                  ![w].task = t]
  BY DEF Start
<1>2. worker \in [Workers -> Jobs] /\ worker[w].company = None
  BY <1>1, Viewing DEF PlaceRight
<1>3. /\ \A u \in Workers \ {w} : worker'[u] = worker[u]
      /\ worker'[w].pc = (IF t.kind = "hubspot" THEN "list" ELSE "lock")
      /\ worker'[w].listing = worker[w].listing /\ worker'[w].writes = worker[w].writes
      /\ worker'[w].company = None
  BY <1>1, <1>2 DEF Jobs
<1>4. DOMAIN worker[w].listing = {}
  BY <1>1, <1>2 DEF HubSpotKnown, HubView, ListingRight
<1>5. HubWaits => HubWaits'
  <2>1. CASE t = Sync("hubspot")
    BY <1>3, <2>1 DEF HubWaits, Sync
  <2>2. CASE t # Sync("hubspot") /\ Sync("hubspot") \in todo
    BY <1>1, <2>2 DEF HubWaits
  <2>3. ASSUME NEW u \in Workers, worker[u].pc = "list" PROVE HubWaits'
    BY <1>1, <1>3, <2>3 DEF HubWaits
  <2>4. QED
    BY <2>1, <2>2, <2>3 DEF HubWaits
<1>6. worker'[w].pc \in {"list", "lock"}
  BY <1>3
<1>7. QED
  BY <1>1, <1>3, <1>4, <1>5, <1>6, QuietStep

\* A worker that was not about to read HubSpot moves on.
LEMMA StillWaits ==
    ASSUME NEW w \in Workers, worker[w].pc # "list", todo \subseteq todo',
           \A u \in Workers \ {w} : worker'[u] = worker[u]
    PROVE  HubWaits => HubWaits'
  BY DEF HubWaits

LEMMA LockKnown ==
    ASSUME IInv, IInv', HubSpotKnown, NEW w \in Workers, Lock(w)
    PROVE  HubSpotKnown'
<1>1. /\ worker[w].pc = "lock" /\ UNCHANGED <<hubspot, todo, db>>
      /\ \E pc : /\ worker' = [worker EXCEPT ![w].pc = pc]
                 /\ pc \notin {"compare", "commit", "next"}
                 /\ pc = "missing" => worker[w].company = None
  <2> DEFINE pc == CASE worker[w].task.kind = "stripe"  -> "customers"
                     [] worker[w].task.kind = "event"   -> "retrieve"
                     [] worker[w].task.kind = "hubspot" ->
                           IF worker[w].company = None THEN "missing" ELSE "store"
  <2>1. worker[w].pc = "lock" /\ UNCHANGED <<hubspot, todo, db>>
        /\ worker' = [worker EXCEPT ![w].pc = pc]
    BY DEF Lock, Goto
  <2>2. worker[w].task.kind \in {"stripe", "event", "hubspot"}
    BY <2>1, Holder DEF Tasks, Sync, Event
  <2>3. pc \in {"customers", "retrieve", "store", "missing"}
        /\ (pc = "missing" => worker[w].company = None)
    BY <2>2
  <2> HIDE DEF pc
  <2>4. QED
    BY <2>1, <2>3
<1>2. PICK pc : /\ worker' = [worker EXCEPT ![w].pc = pc]
                /\ pc \notin {"compare", "commit", "next"}
                /\ pc = "missing" => worker[w].company = None
  BY <1>1
<1>3. worker \in [Workers -> Jobs]
  BY Viewing
<1>4. /\ \A u \in Workers \ {w} : worker'[u] = worker[u]
      /\ worker'[w].pc = pc /\ worker'[w].company = worker[w].company
      /\ worker'[w].listing = worker[w].listing /\ worker'[w].writes = worker[w].writes
  BY <1>2, <1>3 DEF Jobs
<1>5. worker[w].company = None => DOMAIN worker[w].listing = {}
  BY <1>1 DEF HubSpotKnown, HubView, ListingRight
<1>6. HubWaits => HubWaits'
  BY <1>1, <1>4, StillWaits
<1>7. QED
  BY <1>1, <1>2, <1>4, <1>5, <1>6, QuietStep

LEMMA RetrieveKnown ==
    ASSUME IInv, IInv', HubSpotKnown, NEW w \in Workers, Retrieve(w)
    PROVE  HubSpotKnown'
<1>1. /\ worker[w].pc = "retrieve" /\ UNCHANGED <<hubspot, todo, db>>
      /\ \E r : worker' = [worker EXCEPT ![w].pc = "refresh", ![w].reading = r]
  BY DEF Retrieve
<1>2. worker \in [Workers -> Jobs]
  BY Viewing
<1>3. /\ \A u \in Workers \ {w} : worker'[u] = worker[u]
      /\ worker'[w].pc = "refresh" /\ worker'[w].company = worker[w].company
      /\ worker'[w].listing = worker[w].listing /\ worker'[w].writes = worker[w].writes
  BY <1>1, <1>2 DEF Jobs
<1>4. worker[w].company = None => DOMAIN worker[w].listing = {}
  BY <1>1 DEF HubSpotKnown, HubView, ListingRight
<1>5. HubWaits => HubWaits'
  BY <1>1, <1>3, StillWaits
<1>6. QED
  BY <1>1, <1>3, <1>4, <1>5, QuietStep

LEMMA NextCompanyKnown ==
    ASSUME IInv, IInv', HubSpotKnown, NEW w \in Workers, NextCompany(w)
    PROVE  HubSpotKnown'
<1> DEFINE listed == DOMAIN worker[w].listing
<1>1. PICK c \in IF listed = {} THEN {None} ELSE listed :
         worker' = [worker EXCEPT ![w].pc = "lock", ![w].company = c]
  BY DEF NextCompany
<1>2. worker[w].pc = "next" /\ UNCHANGED <<hubspot, todo, db>>
  BY DEF NextCompany
<1>3. worker \in [Workers -> Jobs]
  BY Viewing
<1>4. /\ \A u \in Workers \ {w} : worker'[u] = worker[u]
      /\ worker'[w].pc = "lock" /\ worker'[w].company = c
      /\ worker'[w].listing = worker[w].listing /\ worker'[w].writes = worker[w].writes
  BY <1>1, <1>3 DEF Jobs
<1>5. c = None => listed = {}
  <2>1. listed \subseteq CompanyIds
    BY <1>3 DEF Jobs, Listings
  <2>2. QED
    BY <1>1, <2>1, NamesAssumption
<1>6. HubWaits => HubWaits'
  BY <1>2, <1>4, StillWaits
<1>7. QED
  BY <1>2, <1>4, <1>5, <1>6, QuietStep

LEMMA ListCompaniesKnown ==
    ASSUME IInv, IInv', HubSpotKnown, NEW w \in Workers, ListCompanies(w)
    PROVE  HubSpotKnown'
<1> DEFINE listing == [c \in {c \in CompanyIds : hubspot[c].listed} |-> hubspot[c]]
<1>1. /\ worker[w].pc = "list" /\ UNCHANGED <<hubspot, todo, db>>
      /\ worker' = [worker EXCEPT ![w].pc = "next", ![w].listing = listing]
  BY DEF ListCompanies
<1>2. worker \in [Workers -> Jobs] /\ worker[w].company = None
      /\ hubspot \in [CompanyIds -> HubSpotRecord]
  BY <1>1, Viewing DEF PlaceRight, IInv, Typed
<1>3. \A c \in DOMAIN listing : listing[c] = hubspot[c] /\ hubspot[c].ver \in Nat
  BY <1>2 DEF HubSpotRecord
<1>4. \A c \in CompanyIds : hubspot[c].listed => c \in DOMAIN listing
  OBVIOUS
<1> HIDE DEF listing
<1>5. /\ \A u \in Workers \ {w} : worker'[u] = worker[u]
      /\ worker'[w].pc = "next" /\ worker'[w].company = None
      /\ worker'[w].listing = listing /\ worker'[w].writes = worker[w].writes
  BY <1>1, <1>2 DEF Jobs
<1>6. View(w)' = View(w) /\ HubView(w)
  BY <1>1, <1>5 DEF View, HubSpotKnown
<1>7. HubRight(View(w))' /\ Stored(w)'
  BY <1>1, <1>5, <1>6 DEF HubView, HubRight, NotBeyond, SameAs, Stored
<1>8. ListingRight(w)'
  <2>1. \A c \in DOMAIN listing : NotBeyond(listing[c], c)
    BY <1>3 DEF NotBeyond, SameAs
  <2>2. \A c \in DOMAIN worker'[w].listing : NotBeyond(worker[w].listing[c], c)'
    BY <1>1, <1>5, <2>1 DEF NotBeyond, SameAs
  <2>3. QED
    BY <1>5, <2>2 DEF ListingRight
<1>9. \A c \in CompanyIds : HubTold(c)'
  BY <1>1, <1>3, <1>4, <1>5 DEF HubTold, SameAs
<1>10. QED
  BY <1>1, <1>5, <1>7, <1>8, <1>9, WorkerKnown DEF HubView

\* A transaction that leaves the links and the HubSpot statuses as it saw them.
LEMMA WriteKnown ==
    ASSUME IInv, IInv', HubSpotKnown, NEW w \in Workers, worker[w].pc \in Held,
           NEW pc \in {"subscriptions", "compare", "commit"}, NEW more, Write(w, pc, more),
           Seen(more, View(w)).link = View(w).link, Seen(more, View(w)).hub = View(w).hub,
           worker[w].company # None => worker[w].pc = "compare"
    PROVE  HubSpotKnown'
<1>1. /\ UNCHANGED <<hubspot, todo, db>>
      /\ worker' = [worker EXCEPT ![w].pc = pc, ![w].writes = Plus(@, more)]
  BY DEF Write
<1>2. worker \in [Workers -> Jobs]
  BY Viewing
<1>3. /\ \A u \in Workers \ {w} : worker'[u] = worker[u]
      /\ worker'[w].pc = pc /\ worker'[w].company = worker[w].company
      /\ worker'[w].listing = worker[w].listing
  BY <1>1, <1>2 DEF Jobs
<1>4. HubView(w) /\ View(w)'.link = View(w).link /\ View(w)'.hub = View(w).hub
  BY WriteSeen DEF HubSpotKnown
<1>5. HubRight(View(w))'
  BY <1>1, <1>4 DEF HubView, HubRight, NotBeyond, SameAs
<1>6. ListingRight(w)'
  <2>1. pc \notin {"next", "missing"} /\ worker[w].pc # "next"
    BY DEF Held
  <2>2. QED
    BY <1>1, <1>3, <1>4, <2>1 DEF HubView, ListingRight, NotBeyond, SameAs
<1>7. Stored(w)'
  BY <1>3, <1>4 DEF HubView, Stored
<1>8. HubWaits => HubWaits'
  BY <1>1, <1>3, StillWaits DEF Held
<1>9. QED
  BY <1>1, <1>3, <1>5, <1>6, <1>7, <1>8, StillHubTold, WorkerKnown DEF HubView

LEMMA StripeWritesKnown ==
    ASSUME IInv, IInv', HubSpotKnown, NEW w \in Workers,
           ListCustomers(w) \/ ListSubscriptions(w) \/ Refresh(w) \/ FindMissing(w)
    PROVE  HubSpotKnown'
<1>1. View(w) \in Tables /\ PlaceRight(worker[w]) /\ HubView(w)
  BY Viewing DEF HubSpotKnown
<1>2. CASE ListCustomers(w)
  <2> DEFINE more == SavedCustomers(ListedCustomers, MailDomains)
  <2>1. worker[w].pc = "customers" /\ Write(w, "subscriptions", more)
    BY <1>2 DEF ListCustomers
  <2>2. Seen(more, View(w)).link = View(w).link /\ Seen(more, View(w)).hub = View(w).hub
    BY <1>1, MailTyped, CustomersSaved DEF ListedCustomers
  <2>3. worker[w].company = None
    BY <1>1, <2>1 DEF PlaceRight
  <2>4. QED
    BY <2>1, <2>2, <2>3, WriteKnown DEF Held
<1>3. CASE ListSubscriptions(w)
  <2> DEFINE facts == [s \in Subscribers |-> StatusOf(Best(Readings(s)))]
             more == SavedStatuses(facts)
  <2>1. worker[w].pc = "subscriptions" /\ Write(w, "compare", more)
    BY <1>3 DEF ListSubscriptions
  <2>2. facts \in [Subscribers -> StripeFact] /\ Subscribers \in SUBSET StripeIds
    BY SubscriberFacts
  <2> HIDE DEF facts
  <2>3. Seen(more, View(w)).link = View(w).link /\ Seen(more, View(w)).hub = View(w).hub
    BY <1>1, <2>2, StatusesSaved
  <2>4. worker[w].company = None
    BY <1>1, <2>1 DEF PlaceRight
  <2>5. QED
    BY <2>1, <2>3, <2>4, WriteKnown DEF Held
<1>4. CASE Refresh(w)
  <2>1. PICK s, facts : /\ worker[w].pc = "refresh"
                        /\ Write(w, "compare", Plus(SavedCustomers({s}, MailDomains), SavedStatuses(facts)))
    BY <1>4 DEF Refresh
  <2> DEFINE more == Plus(SavedCustomers({s}, MailDomains), SavedStatuses(facts))
  <2>2. more.link = Nothing /\ more.hub = Nothing
    BY DEF Plus, SavedCustomers, SavedStatuses, NoWrites, Nothing, Later
  <2> HIDE DEF more
  <2>3. Seen(more, View(w)).link = View(w).link /\ Seen(more, View(w)).hub = View(w).hub
    BY <1>1, <2>2 DEF Seen, Over, Nothing, Tables
  <2>4. worker[w].company = None
    BY <1>1, <2>1 DEF PlaceRight
  <2>5. QED
    BY <2>1, <2>3, <2>4, WriteKnown DEF Held, more
<1>5. CASE FindMissing(w)
  <2>1. worker[w].pc = "missing" /\ Write(w, "commit", FoundMissing(View(w)))
    BY <1>5 DEF FindMissing
  <2>2. /\ Seen(FoundMissing(View(w)), View(w)).link = View(w).link
        /\ Seen(FoundMissing(View(w)), View(w)).hub = View(w).hub
    BY <1>1, MissingFound
  <2>3. worker[w].company = None
    BY <1>1, <2>1 DEF HubView, ListingRight
  <2>4. QED
    BY <2>1, <2>2, <2>3, WriteKnown DEF Held
<1>6. QED
  BY <1>2, <1>3, <1>4, <1>5

LEMMA CompareKnown ==
    ASSUME IInv, IInv', HubSpotKnown, NEW w \in Workers, Compare(w)
    PROVE  HubSpotKnown'
<1>1. View(w) \in Tables
  BY Viewing
<1>2. PICK C : worker[w].pc = "compare" /\ Write(w, "commit", Compared(View(w), C))
  BY DEF Compare
<1>3. Compared(View(w), C).link = Nothing /\ Compared(View(w), C).hub = Nothing
  BY DEF Compared, NoWrites
<1>4. /\ Seen(Compared(View(w), C), View(w)).link = View(w).link
      /\ Seen(Compared(View(w), C), View(w)).hub = View(w).hub
  BY <1>1, <1>3 DEF Seen, Over, Nothing, Tables
<1>5. QED
  BY <1>2, <1>4, WriteKnown DEF Held

LEMMA FailKnown ==
    ASSUME IInv, IInv', HubSpotKnown, NEW w \in Workers, Fail(w)
    PROVE  HubSpotKnown'
<1>1. /\ worker[w].pc # "idle" /\ todo' = todo \cup {worker[w].task} /\ UNCHANGED <<hubspot, db>>
      /\ worker' = [worker EXCEPT ![w] = Free]
  BY DEF Fail
<1>2. worker \in [Workers -> Jobs] /\ PlaceRight(worker[w]) /\ db \in Tables
  BY Viewing DEF IInv, CommittedRight, RightTables
<1>3. \A u \in Workers \ {w} : worker'[u] = worker[u]
  BY <1>1
<1>4. worker'[w] = Free
  BY <1>1, <1>2
<1>5. View(w)' = db
  BY <1>1, <1>2, <1>4, SeenNothing DEF View, Free
<1>6. HubView(w)'
  <2>1. HubRight(View(w))'
    BY <1>1, <1>5 DEF HubSpotKnown, HubRight, NotBeyond, SameAs
  <2>2. QED
    BY <1>4, <2>1 DEF HubView, ListingRight, Stored, Free, Nothing
<1>7. worker[w].task.kind = "hubspot" => HubWaits'
  <2>1. worker[w].task \in Tasks
    BY <1>1, <1>2 DEF PlaceRight
  <2>2. worker[w].task.kind = "hubspot" => worker[w].task = Sync("hubspot")
    BY <2>1 DEF Tasks, Sync, Event
  <2>3. QED
    BY <1>1, <2>2 DEF HubWaits
<1>8. HubWaits => HubWaits'
  <2>1. worker[w].pc = "list" => worker[w].task.kind = "hubspot"
    BY <1>2 DEF PlaceRight
  <2>2. QED
    BY <1>1, <1>3, <1>7, <2>1 DEF HubWaits
<1>9. DOMAIN worker[w].listing # {} => worker[w].task.kind = "hubspot"
  <2>1. DOMAIN worker[w].listing # {} => worker[w].pc = "next" \/ worker[w].company # None
    BY DEF HubSpotKnown, HubView, ListingRight
  <2>2. QED
    BY <1>2, <2>1 DEF PlaceRight
<1>10. ASSUME NEW c \in CompanyIds PROVE HubTold(c)'
  <2>1. HubTold(c)
    BY DEF HubSpotKnown
  <2>2. CASE ~ HubWaits'
    <3>1. DOMAIN worker[w].listing = {} /\ ~ HubWaits
      BY <1>7, <1>8, <1>9, <2>2
    <3>2. QED
      BY <1>1, <1>3, <2>1, <3>1 DEF HubTold, HubTrue, SameAs
  <2>3. QED
    BY <2>2 DEF HubTold
<1>11. QED
  BY <1>1, <1>3, <1>6, <1>10, WorkerKnown

\* Storing an observation of a company keeps its customer from falling behind it.
LEMMA CompanyKept ==
    ASSUME NEW v, RightTables(v), HubRight(v), NEW n \in Tables, NEW c \in CompanyIds,
           NEW d \in Domains \cup {NoDomain}, NEW fact \in HubSpotFact, NotBeyond(fact, c),
           CompanyChanges(v, n, c, Resolved(v, c, d), fact)
    PROVE  /\ HubRight(n)
           /\ n.link[c] # None /\ n.hub[n.link[c]] # None /\ n.hub[n.link[c]].ver >= fact.ver
<1> DEFINE target == Resolved(v, c, d)
<1>1. v \in Tables /\ OwnLinks(v) /\ OneCompany(v)
  BY DEF RightTables
<1>2. /\ target \in StripeIds \cup {c}
      /\ \A k \in CompanyIds \ {c} : v.link[k] # target
      /\ v.link[c] # None => target = v.link[c]
  BY <1>1, ResolvedCustomer
<1>3. /\ n.link = [v.link EXCEPT ![c] = target]
      /\ \A k \in Customers : n.hub[k] =
            IF k = target /\ Accepts(v.hub[k], fact.ver) THEN fact ELSE v.hub[k]
  BY DEF CompanyChanges
<1> HIDE DEF target
<1>4. target \in Customers /\ target # None
  BY <1>2, NamesAssumption DEF Customers
<1>5. n.link[c] = target /\ \A k \in CompanyIds \ {c} : n.link[k] = v.link[k] /\ v.link[k] # target
  BY <1>1, <1>2, <1>3 DEF Tables
<1>6. fact # None /\ fact.ver \in Nat
  BY FactsAssumption DEF HubSpotFact
<1>7. n.hub[target] # None /\ NotBeyond(n.hub[target], c) /\ n.hub[target].ver >= fact.ver
  <2>1. CASE Accepts(v.hub[target], fact.ver)
    <3>1. n.hub[target] = fact
      BY <1>3, <1>4, <2>1
    <3>2. QED
      BY <1>6, <3>1
  <2>2. CASE ~ Accepts(v.hub[target], fact.ver)
    <3>1. v.hub[target] # None /\ ~ (v.hub[target].ver <= fact.ver)
      BY <2>2 DEF Accepts
    <3>2. v.hub[target] \in HubSpotFact
      BY <1>1, <1>4, <3>1 DEF Tables
    <3>3. v.hub[target].ver >= fact.ver
      BY <1>6, <3>1, <3>2 DEF HubSpotFact
    <3>4. PICK k \in CompanyIds : v.link[k] = target
      BY <1>4, <3>1 DEF HubRight
    <3>5. v.link[c] = target
      BY <1>2, <3>4
    <3>6. NotBeyond(v.hub[target], c)
      BY <1>4, <3>5 DEF HubRight
    <3>7. n.hub[target] = v.hub[target]
      BY <1>3, <1>4, <2>2
    <3>8. QED
      BY <3>1, <3>3, <3>6, <3>7
  <2>3. QED
    BY <2>1, <2>2
<1>8. ASSUME NEW k \in CompanyIds, n.link[k] # None
      PROVE  n.hub[n.link[k]] # None /\ NotBeyond(n.hub[n.link[k]], k)
  <2>1. CASE k = c
    BY <1>5, <1>7, <2>1
  <2>2. CASE k # c
    <3>1. n.link[k] = v.link[k] /\ v.link[k] # target /\ v.link[k] # None
      BY <1>5, <1>8, <2>2
    <3>2. v.link[k] \in Customers
      BY <1>1, <3>1 DEF Tables
    <3>3. n.hub[n.link[k]] = v.hub[v.link[k]]
      BY <1>3, <3>1, <3>2
    <3>4. QED
      BY <3>1, <3>3 DEF HubRight
  <2>3. QED
    BY <2>1, <2>2
<1>9. ASSUME NEW k \in Customers, n.hub[k] # None PROVE \E q \in CompanyIds : n.link[q] = k
  <2>1. CASE k = target
    BY <1>5, <2>1
  <2>2. CASE k # target
    <3>1. v.hub[k] # None
      BY <1>3, <1>9, <2>2
    <3>2. PICK q \in CompanyIds : v.link[q] = k
      BY <3>1 DEF HubRight
    <3>3. k # None
      BY NamesAssumption DEF Customers
    <3>4. q # c
      BY <1>2, <2>2, <3>2, <3>3
    <3>5. QED
      BY <1>5, <3>2, <3>4
  <2>3. QED
    BY <2>1, <2>2
<1>10. QED
  BY <1>4, <1>5, <1>7, <1>8, <1>9 DEF HubRight

LEMMA StoreCompanyKnown ==
    ASSUME IInv, IInv', HubSpotKnown, NEW w \in Workers, StoreCompany(w)
    PROVE  HubSpotKnown'
<1> DEFINE c == worker[w].company
           company == worker[w].listing[c]
           fact == [status |-> company.status, ver |-> company.ver]
           more == StoredCompany(View(w), c, company.domain, fact)
           n == Seen(more, View(w))
<1>1. /\ worker[w].pc = "store" /\ Write(w, "compare", more) /\ UNCHANGED <<hubspot, todo, db>>
      /\ worker' = [worker EXCEPT ![w].pc = "compare", ![w].writes = Plus(@, more)]
  BY DEF StoreCompany, Write
<1>2. /\ worker \in [Workers -> Jobs] /\ PlaceRight(worker[w])
      /\ View(w) \in Tables /\ RightTables(View(w)) /\ HubView(w)
  BY Viewing DEF HubSpotKnown
<1>3. c # None /\ c \in DOMAIN worker[w].listing /\ worker[w].task.kind = "hubspot"
  BY <1>1, <1>2 DEF PlaceRight, Held
<1>4. c \in CompanyIds /\ company \in HubSpotRecord
  BY <1>2, <1>3, ListedRecord DEF Jobs
<1>5. fact \in HubSpotFact /\ company.domain \in Domains \cup {NoDomain}
      /\ fact.ver = company.ver /\ fact.status = company.status
  BY <1>4 DEF HubSpotFact, HubSpotRecord
<1>6. NotBeyond(company, c)
  BY <1>2, <1>3 DEF HubView, ListingRight
<1>7. NotBeyond(fact, c)
  BY <1>5, <1>6 DEF NotBeyond, SameAs
<1>8. /\ \A u \in Workers \ {w} : worker'[u] = worker[u]
      /\ worker'[w].pc = "compare" /\ worker'[w].company = c
      /\ worker'[w].listing = worker[w].listing
  BY <1>1, <1>2 DEF Jobs
<1>9. View(w)' = n
  BY <1>1, WriteSeen
<1> HIDE DEF fact
<1>10. n \in Tables /\ CompanyChanges(View(w), n, c, Resolved(View(w), c, company.domain), fact)
  BY <1>2, <1>4, <1>5, CompanyStored DEF RightTables
<1> HIDE DEF more, n
<1>11. /\ HubRight(n)
       /\ n.link[c] # None /\ n.hub[n.link[c]] # None /\ n.hub[n.link[c]].ver >= fact.ver
  BY <1>2, <1>4, <1>5, <1>7, <1>10, CompanyKept DEF HubView
<1>12. HubRight(View(w))'
  BY <1>1, <1>9, <1>11 DEF HubRight, NotBeyond, SameAs
<1>13. Stored(w)'
  BY <1>5, <1>8, <1>9, <1>11 DEF Stored
<1>14. ListingRight(w)'
  BY <1>1, <1>2, <1>3, <1>8 DEF HubView, ListingRight, NotBeyond, SameAs
<1>15. HubWaits => HubWaits'
  BY <1>1, <1>8, StillWaits
<1>16. QED
  BY <1>1, <1>8, <1>12, <1>13, <1>14, <1>15, StillHubTold, WorkerKnown DEF HubView

\* What is true of a company when it is committed: its listing is done with.
LEMMA CommitKnown ==
    ASSUME IInv, IInv', HubSpotKnown, NEW w \in Workers, Commit(w)
    PROVE  HubSpotKnown'
<1> DEFINE c == worker[w].company
           listing == worker[w].listing
           rest == [k \in DOMAIN listing \ {c} |-> listing[k]]
           j == IF c = None THEN Free
                ELSE [Free EXCEPT !.pc = "next", !.task = worker[w].task, !.listing = rest]
<1>1. /\ worker[w].pc = "commit" /\ db' = View(w) /\ UNCHANGED <<hubspot, todo>>
      /\ worker' = [worker EXCEPT ![w] = j]
  BY DEF Commit
<1>2. /\ worker \in [Workers -> Jobs] /\ View(w) \in Tables /\ HubView(w) /\ lock = w
      /\ db \in Tables /\ Newer(db, View(w))
  BY <1>1, Viewing, Holder
     DEF HubSpotKnown, Held, IInv, CommittedRight, RightTables, WorkerRight, ViewRight
<1>3. \A k \in DOMAIN listing : k \in CompanyIds /\ listing[k].ver \in Nat /\ NotBeyond(listing[k], k)
  <2>1. ASSUME NEW k \in DOMAIN listing PROVE k \in CompanyIds /\ listing[k] \in HubSpotRecord
    BY <1>2, ListedRecord DEF Jobs
  <2>2. QED
    BY <1>2, <2>1 DEF HubView, ListingRight, HubSpotRecord
<1>4. c = None => DOMAIN listing = {}
  BY <1>1, <1>2 DEF HubView, ListingRight
<1>5. DOMAIN rest = DOMAIN listing \ {c} /\ \A k \in DOMAIN rest : rest[k] = listing[k]
  OBVIOUS
<1> HIDE DEF rest
<1>6. /\ j.writes = NoWrites /\ j.company = None /\ j.pc \in {"idle", "next"}
      /\ (j.pc = "idle" => DOMAIN j.listing = {})
      /\ (\A k \in DOMAIN j.listing : k \in DOMAIN listing /\ j.listing[k] = listing[k])
      /\ (\A k \in DOMAIN listing \ {c} : k \in DOMAIN j.listing)
  BY <1>4, <1>5 DEF Free, Nothing
<1> HIDE DEF j
<1>7. worker'[w] = j /\ \A u \in Workers \ {w} : worker'[u] = worker[u]
  BY <1>1, <1>2
<1>8. View(w)' = db'
  BY <1>1, <1>2, <1>6, <1>7, SeenNothing DEF View
<1>9. HubRight(db)'
  BY <1>1, <1>2 DEF HubView, HubRight, NotBeyond, SameAs
<1>10. HubView(w)'
  <2>1. HubRight(View(w))'
    BY <1>8, <1>9 DEF HubRight, NotBeyond, SameAs
  <2>2. \A k \in DOMAIN j.listing : NotBeyond(j.listing[k], k)
    BY <1>3, <1>6
  <2>3. ListingRight(w)'
    BY <1>1, <1>6, <1>7, <2>2 DEF ListingRight, NotBeyond, SameAs
  <2>4. Stored(w)'
    BY <1>6, <1>7 DEF Stored
  <2>5. QED
    BY <2>1, <2>3, <2>4 DEF HubView
<1>11. ASSUME NEW v \in Tables, HubRight(v), NEW k \in CompanyIds, v.link[k] # None,
              v.hub[v.link[k]].ver >= hubspot[k].ver
       PROVE  HubTrue(v, k)
  <2>1. v.hub[v.link[k]] # None /\ NotBeyond(v.hub[v.link[k]], k)
    BY <1>11 DEF HubRight
  <2>2. v.link[k] \in Customers /\ hubspot[k].ver \in Nat
    BY <1>11 DEF Tables, IInv, Typed, HubSpotRecord
  <2>3. v.hub[v.link[k]].ver \in Nat
    BY <2>1, <2>2 DEF Tables, HubSpotFact
  <2>4. v.hub[v.link[k]].ver = hubspot[k].ver
    BY <1>11, <2>1, <2>2, <2>3 DEF NotBeyond
  <2>5. QED
    BY <1>11, <2>1, <2>4 DEF HubTrue, NotBeyond
<1>12. ASSUME NEW k \in CompanyIds PROVE HubTold(k)'
  <2>1. HubTold(k) /\ HubRight(View(w))
    BY <1>2 DEF HubSpotKnown, HubView
  <2>2. HubTrue(View(w), k) => HubTold(k)'
    BY <1>1 DEF HubTold, HubTrue, SameAs
  <2>3. CASE HubWaits
    <3>1. HubWaits'
      BY <1>1, <1>7, <2>3, StillWaits
    <3>2. QED
      BY <3>1 DEF HubTold
  <2>4. CASE HubTrue(db, k)
    <3>1. db.link[k] # None /\ db.hub[db.link[k]] # None /\ db.hub[db.link[k]].ver = hubspot[k].ver
      BY <2>4 DEF HubTrue, SameAs
    <3>2. db.link[k] \in Customers
      BY <1>2, <3>1 DEF Tables
    <3>3. View(w).link[k] = db.link[k] /\ View(w).hub[db.link[k]].ver >= hubspot[k].ver
      BY <1>2, <3>1, <3>2 DEF Newer
    <3>4. QED
      BY <1>2, <1>11, <2>1, <2>2, <3>1, <3>3
  <2>5. ASSUME NEW u \in Workers, k \in DOMAIN worker[u].listing, SameAs(worker[u].listing[k], k)
        PROVE  HubTold(k)'
    <3>1. CASE u # w
      BY <1>1, <1>7, <2>5, <3>1 DEF HubTold, SameAs
    <3>2. CASE u = w /\ k # c
      <4>1. k \in DOMAIN j.listing /\ j.listing[k] = listing[k]
        BY <1>6, <2>5, <3>2
      <4>2. QED
        BY <1>1, <1>7, <2>5, <3>2, <4>1 DEF HubTold, SameAs
    <3>3. CASE u = w /\ k = c
      <4>1. c # None
        BY <3>3, NamesAssumption
      <4>2. /\ View(w).link[k] # None
            /\ View(w).hub[View(w).link[k]].ver >= listing[k].ver
        BY <1>1, <1>2, <3>3, <4>1 DEF HubView, Stored
      <4>3. listing[k].ver = hubspot[k].ver
        BY <2>5, <3>3 DEF SameAs
      <4>4. QED
        BY <1>2, <1>11, <2>1, <2>2, <4>2, <4>3
    <3>4. QED
      BY <3>1, <3>2, <3>3
  <2>6. CASE ~ hubspot[k].listed
    BY <1>1, <2>6 DEF HubTold
  <2>7. QED
    BY <2>1, <2>3, <2>4, <2>5, <2>6 DEF HubTold
<1>13. QED
  BY <1>1, <1>2, <1>7, <1>9, <1>10, <1>12, WorkerKnown

-----------------------------------------------------------------------------
(* Nothing stale is left when the jobs are done                            *)

LEMMA InitTold == Init => Told
<1> SUFFICES ASSUME Init PROVE Told
  OBVIOUS
<1>1. StripeKnown
  BY DEF Init, StripeKnown, StripeTold, StripeWaits, Asks
<1>2. \A c \in CompanyIds : HubTold(c)
  BY DEF Init, HubTold, HubWaits
<1>3. HubRight(EmptyTables)
  BY DEF EmptyTables, HubRight
<1>4. ASSUME NEW w \in Workers PROVE HubView(w)
  <2>1. worker[w] = Free /\ db = EmptyTables /\ EmptyTables \in Tables
    BY EmptyTablesRight DEF Init, RightTables
  <2>2. View(w) = EmptyTables
    BY <2>1, SeenNothing DEF View, Free
  <2>3. QED
    BY <1>3, <2>1, <2>2 DEF HubView, ListingRight, Stored, Free, Nothing
<1>5. QED
  BY <1>1, <1>2, <1>3, <1>4 DEF Init, Told, HubSpotKnown

LEMMA NextTold == IInv /\ Told /\ [Next]_vars => Told'
<1> SUFFICES ASSUME IInv, Told, [Next]_vars PROVE Told'
  OBVIOUS
<1>1. IInv' /\ StripeKnown /\ HubSpotKnown
  BY NextIInv DEF Told
<1>2. StripeKnown'
  BY <1>1, StripeNextTold DEF StripeKnown
<1>3. ASSUME NEW w \in Workers, Step(w) PROVE HubSpotKnown'
  <2>1. ASSUME NEW t \in Tasks, Start(w, t) PROVE HubSpotKnown'
    BY <1>1, <2>1, StartKnown
  <2>2. QED
    BY <1>1, <1>3, <2>1, LockKnown, StripeWritesKnown, RetrieveKnown, ListCompaniesKnown,
       NextCompanyKnown, StoreCompanyKnown, CompareKnown, CommitKnown DEF Step
<1>4. ASSUME UNCHANGED vars PROVE HubSpotKnown'
  <2>1. UNCHANGED <<hubspot, todo, db, worker>>
    BY <1>4 DEF vars
  <2>2. HubWaits' <=> HubWaits
    BY <2>1 DEF HubWaits
  <2>3. \A c \in CompanyIds : HubTold(c)'
    BY <1>1, <2>1, <2>2 DEF HubSpotKnown, HubTold, HubTrue, SameAs
  <2>4. \A w \in Workers : HubView(w)'
    BY <1>1, <2>1 DEF HubSpotKnown, HubView, HubRight, ListingRight, Stored, View, NotBeyond, SameAs
  <2>5. HubRight(db)'
    BY <1>1, <2>1 DEF HubSpotKnown, HubRight, NotBeyond, SameAs
  <2>6. QED
    BY <2>3, <2>4, <2>5 DEF HubSpotKnown
<1>5. HubSpotKnown'
  BY <1>1, <1>3, <1>4, FailKnown, RemoteKnown DEF Next
<1>6. QED
  BY <1>2, <1>5 DEF Told

LEMMA QuietIsTrue == IInv /\ Told => QuietFindingsTrue
<1> SUFFICES ASSUME IInv, Told, todo = {}, \A w \in Workers : worker[w].pc = "idle",
                    NEW c \in CompanyIds, hubspot[c].listed
             PROVE  /\ db.link[c] # None /\ db.hub[db.link[c]] # None
                    /\ db.hub[db.link[c]].status = hubspot[c].status
                    /\ \A s \in StripeIds : db.link[c] = s /\ stripe[s].subs # <<>> =>
                          (db.open[<<s, "status_mismatch">>]
                             <=> Disagree(stripe[s].subs, hubspot[c].status))
  BY DEF QuietFindingsTrue
<1>1. lock = None
  <2>1. \A w \in Workers : lock # w
    BY Holder DEF Held
  <2>2. QED
    BY <2>1 DEF IInv, Typed
<1>2. HubTrue(db, c)
  <2>1. \A w \in Workers : DOMAIN worker[w].listing = {}
    <3>1. ASSUME NEW w \in Workers PROVE worker[w].company = None
      BY <3>1, Viewing DEF PlaceRight
    <3>2. QED
      BY <3>1 DEF Told, HubSpotKnown, HubView, ListingRight
  <2>2. QED
    BY <2>1 DEF Told, HubSpotKnown, HubTold, HubWaits
<1>3. ASSUME NEW s \in StripeIds, db.link[c] = s, stripe[s].subs # <<>>
      PROVE  db.open[<<s, "status_mismatch">>] <=> Disagree(stripe[s].subs, hubspot[c].status)
  <2>1. StatusTrue(db, s)
    BY <1>1, <1>3 DEF Told, StripeKnown, StripeTold, StripeWaits
  <2>2. FindingAgrees(db, s) /\ db.hub[s] # None /\ db.hub[s].status = hubspot[c].status
    BY <1>2, <1>3 DEF IInv, CommittedRight, HubTrue, SameAs
  <2>3. db.open[<<s, "status_mismatch">>] <=> Mismatch(Current(stripe[s].subs), hubspot[c].status)
    BY <2>1, <2>2 DEF FindingAgrees, StatusTrue
  <2>4. \A h : Mismatch(Current(stripe[s].subs), h) <=> Disagree(stripe[s].subs, h)
    <3> DEFINE subs == stripe[s].subs
    <3>1. CASE \E n \in DOMAIN subs : subs[n] = "active"
      BY <3>1 DEF Current, Disagree, Mismatch
    <3>2. CASE ~ \E n \in DOMAIN subs : subs[n] = "active"
      <4>1. Len(subs) \in DOMAIN subs
        BY <1>3, HistoryLength DEF IInv, Typed, StripeRecord
      <4>2. Current(subs) = subs[Len(subs)] /\ subs[Len(subs)] # "active"
        BY <3>2, <4>1 DEF Current
      <4>3. QED
        BY <3>2, <4>2 DEF Disagree, Mismatch
    <3>3. QED
      BY <3>1, <3>2
  <2>5. QED
    BY <2>3, <2>4
<1>4. QED
  BY <1>2, <1>3 DEF HubTrue, SameAs

\* When no job is queued or at work, every company's customer carries the
\* company's present status, and a customer with subscriptions has a status finding
\* exactly if the two accounts disagree as they are now: stale readings, old
\* listings, failures and repetitions on the way leave nothing behind.
THEOREM QuietIsCorrect == Spec => []QuietFindingsTrue
<1>1. Init => IInv /\ Told
  BY InitIInv, InitTold
<1>2. IInv /\ Told /\ [Next]_vars => (IInv /\ Told)'
  BY NextIInv, NextTold
<1>3. IInv /\ Told => QuietFindingsTrue
  BY QuietIsTrue
<1>4. QED
  BY <1>1, <1>2, <1>3, PTL DEF Spec

=============================================================================
