---------------------------- MODULE DriftProofs ----------------------------
(***************************************************************************)
(* Theorems about DriftStore, with proofs for every set of customers,      *)
(* companies, domains and workers and for all bounds.                      *)
(***************************************************************************)
EXTENDS DriftStore, WellFoundedInduction, TLAPS

-----------------------------------------------------------------------------
(* The statements of a transaction: what each writes, leaves alone, keeps  *)
(* true, for any tables of the right types                                 *)

\* What a transaction may have written: rows of the right types.
Writes ==
    [known  : UNION {[K -> BOOLEAN] : K \in SUBSET StripeIds},
     link   : UNION {[K -> Customers] : K \in SUBSET CompanyIds},
     domain : UNION {[K -> Domains] : K \in SUBSET StripeIds},
     status : UNION {[K -> StripeFact] : K \in SUBSET StripeIds},
     hub    : UNION {[K -> HubSpotFact] : K \in SUBSET Customers},
     open   : UNION {[K -> BOOLEAN] : K \in SUBSET (Customers \X Rules)}]

\* Any function on a part of the keys is among the partial functions.
LEMMA PartialRows ==
    ASSUME NEW D, NEW R, NEW K \in SUBSET D, NEW f \in [K -> R]
    PROVE  f \in UNION {[P -> R] : P \in SUBSET D}
  OBVIOUS

LEMMA NothingWritten == NoWrites \in Writes
<1>1. \A D, R : Nothing \in UNION {[P -> R] : P \in SUBSET D}
  <2>1. \A R : Nothing \in [{} -> R]
    BY DEF Nothing
  <2>2. QED
    BY <2>1
<1>2. QED
  BY <1>1 DEF NoWrites, Writes

LEMMA PlusWritten ==
    ASSUME NEW writes \in Writes, NEW more \in Writes
    PROVE  Plus(writes, more) \in Writes
<1>1. ASSUME NEW D, NEW R, NEW a \in UNION {[P -> R] : P \in SUBSET D},
             NEW b \in UNION {[P -> R] : P \in SUBSET D}
      PROVE  Later(a, b) \in UNION {[P -> R] : P \in SUBSET D}
  <2>1. PICK A \in SUBSET D : a \in [A -> R]
    OBVIOUS
  <2>2. PICK B \in SUBSET D : b \in [B -> R]
    OBVIOUS
  <2>3. Later(a, b) \in [A \cup B -> R]
    BY <2>1, <2>2 DEF Later
  <2>4. QED
    BY <2>3, PartialRows
<1>2. \A w \in {writes, more} :
         /\ w.known \in UNION {[P -> BOOLEAN] : P \in SUBSET StripeIds}
         /\ w.link \in UNION {[P -> Customers] : P \in SUBSET CompanyIds}
         /\ w.domain \in UNION {[P -> Domains] : P \in SUBSET StripeIds}
         /\ w.status \in UNION {[P -> StripeFact] : P \in SUBSET StripeIds}
         /\ w.hub \in UNION {[P -> HubSpotFact] : P \in SUBSET Customers}
         /\ w.open \in UNION {[P -> BOOLEAN] : P \in SUBSET (Customers \X Rules)}
  BY DEF Writes
<1>3. Later(writes.known, more.known) \in UNION {[P -> BOOLEAN] : P \in SUBSET StripeIds}
  <2>1. /\ writes.known \in UNION {[P -> BOOLEAN] : P \in SUBSET StripeIds}
        /\ more.known \in UNION {[P -> BOOLEAN] : P \in SUBSET StripeIds}
    BY <1>2
  <2>2. QED
    BY ONLY <1>1, <2>1, Zenon
<1>4. Later(writes.link, more.link) \in UNION {[P -> Customers] : P \in SUBSET CompanyIds}
  <2>1. /\ writes.link \in UNION {[P -> Customers] : P \in SUBSET CompanyIds}
        /\ more.link \in UNION {[P -> Customers] : P \in SUBSET CompanyIds}
    BY <1>2
  <2>2. QED
    BY ONLY <1>1, <2>1, Zenon
<1>5. Later(writes.domain, more.domain) \in UNION {[P -> Domains] : P \in SUBSET StripeIds}
  <2>1. /\ writes.domain \in UNION {[P -> Domains] : P \in SUBSET StripeIds}
        /\ more.domain \in UNION {[P -> Domains] : P \in SUBSET StripeIds}
    BY <1>2
  <2>2. QED
    BY ONLY <1>1, <2>1, Zenon
<1>6. Later(writes.status, more.status) \in UNION {[P -> StripeFact] : P \in SUBSET StripeIds}
  <2>1. /\ writes.status \in UNION {[P -> StripeFact] : P \in SUBSET StripeIds}
        /\ more.status \in UNION {[P -> StripeFact] : P \in SUBSET StripeIds}
    BY <1>2
  <2>2. QED
    BY ONLY <1>1, <2>1, Zenon
<1>7. Later(writes.hub, more.hub) \in UNION {[P -> HubSpotFact] : P \in SUBSET Customers}
  <2>1. /\ writes.hub \in UNION {[P -> HubSpotFact] : P \in SUBSET Customers}
        /\ more.hub \in UNION {[P -> HubSpotFact] : P \in SUBSET Customers}
    BY <1>2
  <2>2. QED
    BY ONLY <1>1, <2>1, Zenon
<1>8. Later(writes.open, more.open) \in UNION {[P -> BOOLEAN] : P \in SUBSET (Customers \X Rules)}
  <2>1. /\ writes.open \in UNION {[P -> BOOLEAN] : P \in SUBSET (Customers \X Rules)}
        /\ more.open \in UNION {[P -> BOOLEAN] : P \in SUBSET (Customers \X Rules)}
    BY <1>2
  <2>2. QED
    BY ONLY <1>1, <2>1, Zenon
<1>9. QED
  BY <1>3, <1>4, <1>5, <1>6, <1>7, <1>8 DEF Plus, Writes

LEMMA SeenTables ==
    ASSUME NEW v \in Tables, NEW more \in Writes
    PROVE  Seen(more, v) \in Tables
<1>1. /\ v.known \in [StripeIds -> BOOLEAN] 
      /\ v.link \in [CompanyIds -> Customers \cup {None}]
      /\ v.domain \in [StripeIds -> Domains \cup {NoDomain}]
      /\ v.status \in [StripeIds -> StripeFact \cup {None}]
      /\ v.hub \in [Customers -> HubSpotFact \cup {None}]
      /\ v.open \in [Customers \X Rules -> BOOLEAN]
  BY DEF Tables
<1>2. Over(more.known, v.known) \in [StripeIds -> BOOLEAN]
  BY <1>1 DEF Writes, Over
<1>3. Over(more.link, v.link) \in [CompanyIds -> Customers \cup {None}]
  BY <1>1 DEF Writes, Over
<1>4. Over(more.domain, v.domain) \in [StripeIds -> Domains \cup {NoDomain}]
  BY <1>1 DEF Writes, Over
<1>5. Over(more.status, v.status) \in [StripeIds -> StripeFact \cup {None}]
  BY <1>1 DEF Writes, Over
<1>6. Over(more.hub, v.hub) \in [Customers -> HubSpotFact \cup {None}]
  BY <1>1 DEF Writes, Over
<1>7. Over(more.open, v.open) \in [Customers \X Rules -> BOOLEAN]
  BY <1>1 DEF Writes, Over
<1>8. QED
  BY <1>2, <1>3, <1>4, <1>5, <1>6, <1>7 DEF Seen, Tables

LEMMA SeenPlus ==
    ASSUME NEW v, NEW writes, NEW more
    PROVE  Seen(Plus(writes, more), v) = Seen(more, Seen(writes, v))
<1>1. \A a, b, rows : Over(Later(a, b), rows) = Over(b, Over(a, rows))
  BY DEF Over, Later
<1>2. QED
  BY <1>1 DEF Seen, Plus

LEMMA SeenNothing ==
    ASSUME NEW v \in Tables
    PROVE  Seen(NoWrites, v) = v
<1>1. \A K, T : \A rows \in [K -> T] : Over(Nothing, rows) = rows
  BY DEF Over, Nothing
<1>2. QED
  BY <1>1 DEF Seen, NoWrites, Tables


-----------------------------------------------------------------------------
(* What the statements write and what they leave alone                     *)

LEMMA CustomersSaved ==
    ASSUME NEW v \in Tables, NEW ids \in SUBSET StripeIds,
           NEW domain \in [StripeIds -> Domains \cup {NoDomain}]
    PROVE  LET n == Seen(SavedCustomers(ids, domain), v) IN
           /\ SavedCustomers(ids, domain) \in Writes
           /\ n \in Tables
           /\ n.link = v.link /\ n.status = v.status /\ n.hub = v.hub /\ n.open = v.open
           /\ \A s \in StripeIds : v.known[s] => n.known[s]
<1> DEFINE more == SavedCustomers(ids, domain)
<1>1. more \in Writes
  <2>1. [s \in ids |-> TRUE] \in UNION {[P -> BOOLEAN] : P \in SUBSET StripeIds}
    BY PartialRows
  <2>2. [s \in {s \in ids : domain[s] # NoDomain} |-> domain[s]]
           \in UNION {[P -> Domains] : P \in SUBSET StripeIds}
    <3> DEFINE mailed == {s \in ids : domain[s] # NoDomain}
    <3>1. mailed \in SUBSET StripeIds /\ [s \in mailed |-> domain[s]] \in [mailed -> Domains]
      OBVIOUS
    <3>2. QED
      BY <3>1, PartialRows
  <2>3. QED
    BY <2>1, <2>2, NothingWritten DEF SavedCustomers, NoWrites, Writes
<1>2. Seen(more, v) \in Tables
  BY <1>1, SeenTables
<1>3. /\ Over(Nothing, v.link) = v.link /\ Over(Nothing, v.status) = v.status
      /\ Over(Nothing, v.hub) = v.hub /\ Over(Nothing, v.open) = v.open
  BY DEF Over, Nothing, Tables
<1>4. /\ Seen(more, v).link = v.link /\ Seen(more, v).status = v.status
      /\ Seen(more, v).hub = v.hub /\ Seen(more, v).open = v.open
  BY <1>3 DEF Seen, SavedCustomers, NoWrites
<1>5. \A s \in StripeIds : v.known[s] => Seen(more, v).known[s]
  BY DEF Seen, SavedCustomers, NoWrites, Over, Tables
<1>6. QED
  BY <1>1, <1>2, <1>4, <1>5

LEMMA StatusesSaved ==
    ASSUME NEW v \in Tables, NEW P \in SUBSET StripeIds, NEW facts \in [P -> StripeFact]
    PROVE  LET n == Seen(SavedStatuses(facts), v) IN
           /\ SavedStatuses(facts) \in Writes
           /\ n \in Tables
           /\ n.link = v.link /\ n.hub = v.hub /\ n.open = v.open /\ n.domain = v.domain
           /\ \A s \in StripeIds : v.known[s] => n.known[s]
           /\ \A s \in StripeIds : n.status[s] = IF s \in P THEN facts[s] ELSE v.status[s]
<1> DEFINE more == SavedStatuses(facts)
<1>1. more \in Writes
  <2>1. [s \in P |-> TRUE] \in UNION {[K -> BOOLEAN] : K \in SUBSET StripeIds}
    BY PartialRows
  <2>2. facts \in UNION {[K -> StripeFact] : K \in SUBSET StripeIds}
    BY PartialRows
  <2>3. DOMAIN facts = P
    OBVIOUS
  <2>4. QED
    BY <2>1, <2>2, <2>3, NothingWritten DEF SavedStatuses, NoWrites, Writes
<1>2. Seen(more, v) \in Tables
  BY <1>1, SeenTables
<1>3. /\ Over(Nothing, v.link) = v.link /\ Over(Nothing, v.domain) = v.domain
      /\ Over(Nothing, v.hub) = v.hub /\ Over(Nothing, v.open) = v.open
  BY DEF Over, Nothing, Tables
<1>4. /\ Seen(more, v).link = v.link /\ Seen(more, v).domain = v.domain
      /\ Seen(more, v).hub = v.hub /\ Seen(more, v).open = v.open
  BY <1>3 DEF Seen, SavedStatuses, NoWrites
<1>5. \A s \in StripeIds : v.known[s] => Seen(more, v).known[s]
  BY DEF Seen, SavedStatuses, NoWrites, Over, Tables
<1>6. \A s \in StripeIds : Seen(more, v).status[s] = IF s \in P THEN facts[s] ELSE v.status[s]
  BY DEF Seen, SavedStatuses, NoWrites, Over, Tables
<1>7. QED
  BY <1>1, <1>2, <1>4, <1>5, <1>6

LEMMA StatusesCompared ==
    ASSUME NEW v \in Tables, NEW C \in SUBSET StripeIds
    PROVE  LET n == Seen(Compared(v, C), v) IN
           /\ Compared(v, C) \in Writes
           /\ n \in Tables
           /\ n.known = v.known /\ n.link = v.link /\ n.domain = v.domain
           /\ n.status = v.status /\ n.hub = v.hub
           /\ \A k \in Customers \X Rules : k[2] # "status_mismatch" => n.open[k] = v.open[k]
           /\ \A s \in StripeIds : s \in C \/ FindingAgrees(v, s) => FindingAgrees(n, s)
<1> DEFINE more == Compared(v, C)
           n == Seen(more, v)
<1>1. more \in Writes
  <2>1. BothFacts(v, C) \X {"status_mismatch"} \in SUBSET (Customers \X Rules)
    BY DEF BothFacts, Customers, Rules
  <2>2. \A s, h : Mismatch(s, h) \in BOOLEAN
    BY DEF Mismatch
  <2>3. more.open \in UNION {[K -> BOOLEAN] : K \in SUBSET (Customers \X Rules)}
    <3> DEFINE keys == BothFacts(v, C) \X {"status_mismatch"}
    <3>1. more.open \in [keys -> BOOLEAN]
      BY <2>2 DEF Compared, NoWrites
    <3>2. QED
      BY <2>1, <3>1, PartialRows
  <2>4. QED
    BY <2>3, NothingWritten DEF Compared, NoWrites, Writes
<1>2. n \in Tables
  BY <1>1, SeenTables
<1>3. /\ Over(Nothing, v.known) = v.known
      /\ Over(Nothing, v.link) = v.link /\ Over(Nothing, v.domain) = v.domain
      /\ Over(Nothing, v.hub) = v.hub /\ Over(Nothing, v.status) = v.status
  BY DEF Over, Nothing, Tables
<1>4. /\ n.known = v.known /\ n.link = v.link /\ n.domain = v.domain
      /\ n.status = v.status /\ n.hub = v.hub
  BY <1>3 DEF Seen, Compared, NoWrites
<1>5. \A k \in Customers \X Rules :
         n.open[k] = IF k \in BothFacts(v, C) \X {"status_mismatch"}
                     THEN Mismatch(v.status[k[1]].status, v.hub[k[1]].status)
                     ELSE v.open[k]
  BY DEF Seen, Compared, NoWrites, Over, Tables
<1>6. \A k \in Customers \X Rules : k[2] # "status_mismatch" => n.open[k] = v.open[k]
  BY <1>5
<1>7. ASSUME NEW s \in StripeIds, s \in C \/ FindingAgrees(v, s)
      PROVE  FindingAgrees(n, s)
  <2>1. <<s, "status_mismatch">> \in Customers \X Rules
    BY DEF Customers, Rules
  <2>2. s \in BothFacts(v, C) \/ FindingAgrees(v, s) \/ v.status[s] = None \/ v.hub[s] = None
    BY <1>7 DEF BothFacts
  <2>3. QED
    BY <1>4, <1>5, <2>1, <2>2 DEF FindingAgrees
<1>8. QED
  BY <1>1, <1>2, <1>4, <1>6, <1>7

\* A company is linked to a Stripe customer or to a customer named after it.
OwnLinks(v) == \A c \in CompanyIds : v.link[c] \in StripeIds \cup {c, None}

\* A company gets a customer that no other company has.
LEMMA ResolvedCustomer ==
    ASSUME NEW v \in Tables, OwnLinks(v), OneCompany(v), NEW c \in CompanyIds,
           NEW d \in Domains \cup {NoDomain}
    PROVE  /\ Resolved(v, c, d) \in StripeIds \cup {c}
           /\ \A k \in CompanyIds \ {c} : v.link[k] # Resolved(v, c, d)
           /\ v.link[c] # None => Resolved(v, c, d) = v.link[c]
<1>1. v.link[c] \in StripeIds \cup {c, None} /\ None \notin StripeIds \cup CompanyIds
  BY NamesAssumption DEF OwnLinks
<1>2. CASE v.link[c] # None
  BY <1>1, <1>2 DEF Resolved, OneCompany
<1>3. CASE v.link[c] = None
  <2>1. Resolved(v, c, d) = ResolvedByDomain(v, c, d)
    BY <1>3 DEF Resolved
  <2>2. CASE \E s \in StripeIds : Matches(v, d) = {s}
    <3>1. Resolved(v, c, d) \in Matches(v, d)
      BY <2>1, <2>2 DEF ResolvedByDomain
    <3>2. QED
      BY <1>3, <3>1 DEF Matches, Linked
  <2>3. CASE ~\E s \in StripeIds : Matches(v, d) = {s}
    <3>1. Resolved(v, c, d) = c
      BY <2>1, <2>3 DEF ResolvedByDomain
    <3>2. \A k \in CompanyIds \ {c} : v.link[k] # c
      BY NamesAssumption DEF OwnLinks
    <3>3. QED
      BY <1>3, <3>1, <3>2
  <2>4. QED
    BY <2>2, <2>3
<1>4. QED
  BY <1>2, <1>3

\* storeCompany links the company to a customer and changes the facts and the
\* missing-customer findings of that customer only.
CompanyChanges(v, n, c, target, fact) ==
    /\ n.known = v.known /\ n.status = v.status /\ n.domain = v.domain
    /\ n.link = [v.link EXCEPT ![c] = target]
    /\ \A k \in Customers : n.hub[k] =
          IF k = target /\ Accepts(v.hub[k], fact.ver) THEN fact ELSE v.hub[k]
    /\ \A k \in Customers \X Rules : n.open[k] =
          IF k \in DOMAIN MissingFindings(target) THEN MissingFindings(target)[k] ELSE v.open[k]

LEMMA CompanyStored ==
    ASSUME NEW v \in Tables, OwnLinks(v), OneCompany(v), NEW c \in CompanyIds,
           NEW d \in Domains \cup {NoDomain},
           NEW fact \in HubSpotFact
    PROVE  LET n == Seen(StoredCompany(v, c, d, fact), v) IN
           /\ StoredCompany(v, c, d, fact) \in Writes
           /\ n \in Tables
           /\ CompanyChanges(v, n, c, Resolved(v, c, d), fact)
<1> DEFINE more == StoredCompany(v, c, d, fact)
           n == Seen(more, v)
           target == Resolved(v, c, d)
<1>1. target \in Customers
  BY ResolvedCustomer DEF Customers
<1>2. DOMAIN MissingFindings(target) \in SUBSET (Customers \X Rules)
  BY <1>1 DEF MissingFindings, Rules
<1>3. MissingFindings(target) \in [DOMAIN MissingFindings(target) -> BOOLEAN]
  BY DEF MissingFindings
<1>4. more \in Writes
  <2>1. more.link \in UNION {[K -> Customers] : K \in SUBSET CompanyIds}
    <3>1. more.link \in [{c} -> Customers]
      BY <1>1 DEF StoredCompany, NoWrites
    <3>2. QED
      BY <3>1, PartialRows
  <2>2. more.hub \in UNION {[K -> HubSpotFact] : K \in SUBSET Customers}
    <3> DEFINE K == {k \in {target} : Accepts(v.hub[k], fact.ver)}
    <3>1. more.hub \in [K -> HubSpotFact] /\ K \in SUBSET Customers
      BY <1>1 DEF StoredCompany, NoWrites
    <3>2. QED
      BY <3>1, PartialRows
  <2>3. more.open \in UNION {[K -> BOOLEAN] : K \in SUBSET (Customers \X Rules)}
    <3>1. more.open = MissingFindings(target)
      BY DEF StoredCompany, NoWrites
    <3>2. QED
      BY <1>2, <1>3, <3>1, PartialRows
  <2>4. QED
    BY <2>1, <2>2, <2>3, NothingWritten DEF StoredCompany, NoWrites, Writes
<1>5. n \in Tables
  BY <1>4, SeenTables
<1>6. /\ Over(Nothing, v.known) = v.known /\ Over(Nothing, v.domain) = v.domain
      /\ Over(Nothing, v.status) = v.status
  BY DEF Over, Nothing, Tables
<1>7. n.known = v.known /\ n.status = v.status /\ n.domain = v.domain
  BY <1>6 DEF Seen, StoredCompany, NoWrites
<1>8. n.link = [v.link EXCEPT ![c] = target]
  BY DEF Seen, StoredCompany, NoWrites, Over, Tables
<1>9. \A k \in Customers : n.hub[k] =
         IF k = target /\ Accepts(v.hub[k], fact.ver) THEN fact ELSE v.hub[k]
  BY DEF Seen, StoredCompany, NoWrites, Over, Tables
<1>10. \A k \in Customers \X Rules : n.open[k] =
         IF k \in DOMAIN MissingFindings(target) THEN MissingFindings(target)[k] ELSE v.open[k]
  <2>1. n.open = Over(MissingFindings(target), v.open)
    BY DEF Seen, StoredCompany, NoWrites
  <2>2. QED
    BY <2>1 DEF Over, Tables
<1>11. CompanyChanges(v, n, c, target, fact)
  BY <1>7, <1>8, <1>9, <1>10 DEF CompanyChanges
<1>12. QED
  BY <1>4, <1>5, <1>11

LEMMA MissingFound ==
    ASSUME NEW v \in Tables
    PROVE  LET n == Seen(FoundMissing(v), v) IN
           /\ FoundMissing(v) \in Writes
           /\ n \in Tables
           /\ n.known = v.known /\ n.link = v.link /\ n.domain = v.domain
           /\ n.status = v.status /\ n.hub = v.hub
           /\ \A k \in Customers \X Rules :
                 n.open[k] <=> v.open[k] \/ k \in Unmatched(v) \X {"missing_in_hubspot"}
<1> DEFINE keys == Unmatched(v) \X {"missing_in_hubspot"}
           more == FoundMissing(v)
           n == Seen(more, v)
<1>1. keys \in SUBSET (Customers \X Rules)
  BY DEF Customers, Rules, Unmatched
<1>2. more.open = [k \in keys |-> TRUE]
  BY DEF FoundMissing, NoWrites
<1>3. more \in Writes
  <2>1. more.open \in UNION {[K -> BOOLEAN] : K \in SUBSET (Customers \X Rules)}
    <3>1. more.open \in [keys -> BOOLEAN]
      BY <1>2
    <3>2. QED
      BY <1>1, <3>1, PartialRows
  <2>2. QED
    BY <2>1, NothingWritten DEF FoundMissing, NoWrites, Writes
<1>4. n \in Tables
  BY <1>3, SeenTables
<1>5. /\ Over(Nothing, v.known) = v.known
      /\ Over(Nothing, v.link) = v.link /\ Over(Nothing, v.domain) = v.domain
      /\ Over(Nothing, v.hub) = v.hub /\ Over(Nothing, v.status) = v.status
  BY DEF Over, Nothing, Tables
<1>6. /\ n.known = v.known /\ n.link = v.link /\ n.domain = v.domain
      /\ n.status = v.status /\ n.hub = v.hub
  BY <1>5 DEF Seen, FoundMissing, NoWrites
<1>7. n.open = Over([k \in keys |-> TRUE], v.open)
  BY <1>2 DEF Seen
<1>8. v.open \in [Customers \X Rules -> BOOLEAN]
  BY DEF Tables
<1>9. \A k \in Customers \X Rules : n.open[k] = (k \in keys \/ v.open[k])
  BY <1>7, <1>8 DEF Over
<1>10. QED
  BY <1>3, <1>4, <1>6, <1>9

-----------------------------------------------------------------------------
(* What the statements keep true                                           *)

RightTables(v) == v \in Tables /\ OwnLinks(v) /\ OneCompany(v) /\ MissingTrue(v)

\* No status is lost or replaced by an older one, and no company changes its
\* customer.
Newer(a, b) ==
    /\ \A s \in StripeIds : a.status[s] # None =>
          b.status[s] # None /\ b.status[s].ver >= a.status[s].ver
    /\ \A k \in Customers : a.hub[k] # None => b.hub[k] # None /\ b.hub[k].ver >= a.hub[k].ver
    /\ \A c \in CompanyIds : a.link[c] # None => b.link[c] = a.link[c]

LEMMA NewerSame == ASSUME NEW v \in Tables PROVE Newer(v, v)
<1>1. \A f \in StripeFact \cup HubSpotFact : f.ver >= f.ver
  BY DEF StripeFact, HubSpotFact
<1>2. QED
  BY <1>1 DEF Newer, Tables

LEMMA NewerTransitive ==
    ASSUME NEW a \in Tables, NEW b \in Tables, NEW d \in Tables, Newer(a, b), Newer(b, d)
    PROVE  Newer(a, d)
<1>1. ASSUME NEW s \in StripeIds, a.status[s] # None
      PROVE  d.status[s] # None /\ d.status[s].ver >= a.status[s].ver
  <2>1. /\ a.status[s] \in StripeFact \cup {None} /\ b.status[s] \in StripeFact \cup {None}
        /\ d.status[s] \in StripeFact \cup {None}
    BY DEF Tables
  <2>2. /\ b.status[s] # None /\ b.status[s].ver >= a.status[s].ver
        /\ d.status[s] # None /\ d.status[s].ver >= b.status[s].ver
    BY <1>1 DEF Newer
  <2>3. a.status[s].ver \in Nat /\ b.status[s].ver \in Nat /\ d.status[s].ver \in Nat
    BY <1>1, <2>1, <2>2 DEF StripeFact
  <2>4. QED
    BY <2>2, <2>3
<1>2. ASSUME NEW k \in Customers, a.hub[k] # None
      PROVE  d.hub[k] # None /\ d.hub[k].ver >= a.hub[k].ver
  <2>1. /\ a.hub[k] \in HubSpotFact \cup {None} /\ b.hub[k] \in HubSpotFact \cup {None}
        /\ d.hub[k] \in HubSpotFact \cup {None}
    BY DEF Tables
  <2>2. /\ b.hub[k] # None /\ b.hub[k].ver >= a.hub[k].ver
        /\ d.hub[k] # None /\ d.hub[k].ver >= b.hub[k].ver
    BY <1>2 DEF Newer
  <2>3. a.hub[k].ver \in Nat /\ b.hub[k].ver \in Nat /\ d.hub[k].ver \in Nat
    BY <1>2, <2>1, <2>2 DEF HubSpotFact
  <2>4. QED
    BY <2>2, <2>3
<1>3. \A c \in CompanyIds : a.link[c] # None => d.link[c] = a.link[c]
  BY DEF Newer
<1>4. QED
  BY <1>1, <1>2, <1>3 DEF Newer

\* What is true of links, identities and missing-customer findings depends on
\* nothing else.
LEMMA SameLinks ==
    ASSUME NEW v, RightTables(v), NEW n \in Tables, n.link = v.link,
           \A s \in StripeIds : v.known[s] => n.known[s],
           \A k \in Customers \X Rules : k[2] # "status_mismatch" => n.open[k] = v.open[k]
    PROVE  RightTables(n)
<1>1. OwnLinks(n) /\ OneCompany(n)
  BY DEF RightTables, OwnLinks, OneCompany
<1>2. \A k \in Customers : n.open[<<k, "missing_in_hubspot">>] = v.open[<<k, "missing_in_hubspot">>]
  BY DEF Rules
<1>3. \A k \in Customers : n.open[<<k, "missing_in_stripe">>] = v.open[<<k, "missing_in_stripe">>]
  BY DEF Rules
<1>4. \A s \in StripeIds : Linked(n, s) <=> Linked(v, s)
  BY DEF Linked
<1>5. MissingTrue(n)
  BY <1>2, <1>3, <1>4 DEF RightTables, MissingTrue, Customers
<1>6. QED
  BY <1>1, <1>5 DEF RightTables

LEMMA CustomersRight ==
    ASSUME NEW v, RightTables(v), NEW ids \in SUBSET StripeIds,
           NEW domain \in [StripeIds -> Domains \cup {NoDomain}]
    PROVE  LET n == Seen(SavedCustomers(ids, domain), v) IN
           /\ RightTables(n)
           /\ Newer(v, n)
           /\ \A s \in StripeIds : FindingAgrees(v, s) => FindingAgrees(n, s)
<1> DEFINE n == Seen(SavedCustomers(ids, domain), v)
<1>1. v \in Tables
  BY DEF RightTables
<1>2. /\ n \in Tables
      /\ n.link = v.link /\ n.status = v.status /\ n.hub = v.hub /\ n.open = v.open
      /\ \A s \in StripeIds : v.known[s] => n.known[s]
  BY <1>1, CustomersSaved
<1> HIDE DEF n
<1>3. RightTables(n)
  BY <1>2, SameLinks
<1>4. Newer(v, n)
  BY <1>1, <1>2, NewerSame DEF Newer
<1>5. \A s \in StripeIds : FindingAgrees(v, s) => FindingAgrees(n, s)
  BY <1>2 DEF FindingAgrees
<1>6. QED
  BY <1>3, <1>4, <1>5 DEF n

LEMMA StatusesRight ==
    ASSUME NEW v, RightTables(v), NEW P \in SUBSET StripeIds, NEW facts \in [P -> StripeFact],
           \A s \in P : Accepts(v.status[s], facts[s].ver)
    PROVE  LET n == Seen(SavedStatuses(facts), v) IN
           /\ RightTables(n)
           /\ Newer(v, n)
           /\ \A s \in StripeIds \ P : FindingAgrees(v, s) => FindingAgrees(n, s)
<1> DEFINE n == Seen(SavedStatuses(facts), v)
<1>1. v \in Tables
  BY DEF RightTables
<1>2. /\ n \in Tables
      /\ n.link = v.link /\ n.hub = v.hub /\ n.open = v.open
      /\ \A s \in StripeIds : v.known[s] => n.known[s]
      /\ \A s \in StripeIds : n.status[s] = IF s \in P THEN facts[s] ELSE v.status[s]
  BY <1>1, StatusesSaved
<1> HIDE DEF n
<1>3. RightTables(n)
  BY <1>2, SameLinks
<1>4. ASSUME NEW s \in StripeIds, v.status[s] # None
      PROVE  n.status[s] # None /\ n.status[s].ver >= v.status[s].ver
  <2>1. v.status[s] \in StripeFact
    BY <1>1, <1>4 DEF Tables
  <2>2. CASE s \in P
    <3>1. facts[s] \in StripeFact /\ facts[s].ver >= v.status[s].ver
      BY <1>4, <2>1, <2>2 DEF Accepts, StripeFact
    <3>2. facts[s] # None
      BY <1>2, <2>2, <3>1, FactsAssumption
    <3>3. QED
      BY <1>2, <2>2, <3>1, <3>2
  <2>3. CASE s \notin P
    BY <1>2, <1>4, <2>1, <2>3 DEF StripeFact
  <2>4. QED
    BY <2>2, <2>3
<1>5. Newer(v, n)
  BY <1>1, <1>2, <1>4, NewerSame DEF Newer
<1>6. \A s \in StripeIds \ P : FindingAgrees(v, s) => FindingAgrees(n, s)
  BY <1>2 DEF FindingAgrees
<1>7. QED
  BY <1>3, <1>5, <1>6 DEF n

LEMMA CompanyRight ==
    ASSUME NEW v, RightTables(v), NEW c \in CompanyIds,
           NEW d \in Domains \cup {NoDomain}, NEW fact \in HubSpotFact
    PROVE  LET n == Seen(StoredCompany(v, c, d, fact), v) IN
           /\ RightTables(n)
           /\ Newer(v, n)
           /\ n.link[c] \in Customers
           /\ \A s \in StripeIds : s # n.link[c] /\ FindingAgrees(v, s) => FindingAgrees(n, s)
<1> DEFINE n == Seen(StoredCompany(v, c, d, fact), v)
           target == Resolved(v, c, d)
<1>1. v \in Tables /\ OwnLinks(v) /\ OneCompany(v) /\ MissingTrue(v)
  BY DEF RightTables
<1>2. /\ target \in StripeIds \cup {c}
      /\ \A k \in CompanyIds \ {c} : v.link[k] # target
      /\ v.link[c] # None => target = v.link[c]
  BY <1>1, ResolvedCustomer
<1>3. n \in Tables /\ CompanyChanges(v, n, c, target, fact)
  BY <1>1, CompanyStored
<1> HIDE DEF n, target
<1> USE DEF CompanyChanges
<1>4. v.link \in [CompanyIds -> Customers \cup {None}] /\ target \in Customers /\ target # None
  BY <1>1, <1>2, NamesAssumption DEF Tables, Customers
<1>5. /\ n.link[c] = target
      /\ \A k \in CompanyIds \ {c} : n.link[k] = v.link[k]
  <2>1. \A f \in [CompanyIds -> Customers \cup {None}] :
           /\ [f EXCEPT ![c] = target][c] = target
           /\ \A k \in CompanyIds \ {c} : [f EXCEPT ![c] = target][k] = f[k]
    OBVIOUS
  <2>2. QED
    BY <1>3, <1>4, <2>1
<1>6. OwnLinks(n)
  BY <1>1, <1>2, <1>5 DEF OwnLinks
<1>7. OneCompany(n)
  BY <1>1, <1>2, <1>5 DEF OneCompany
<1>8. MissingTrue(n)
  <2>1. ASSUME NEW s \in StripeIds, n.open[<<s, "missing_in_hubspot">>]
        PROVE  n.known[s] /\ ~Linked(n, s)
    <3>1. <<s, "missing_in_hubspot">> \in Customers \X Rules
      BY DEF Customers, Rules
    <3>2. s # target
      BY <1>3, <2>1, <3>1 DEF MissingFindings
    <3>3. <<s, "missing_in_hubspot">> \notin DOMAIN MissingFindings(target)
      BY <3>2 DEF MissingFindings
    <3>4. v.open[<<s, "missing_in_hubspot">>]
      BY <1>3, <2>1, <3>1, <3>3
    <3>5. v.known[s] /\ ~Linked(v, s)
      BY <1>1, <3>4 DEF MissingTrue
    <3>6. QED
      BY <1>3, <1>5, <3>2, <3>5 DEF Linked
  <2>2. ASSUME NEW k \in CompanyIds
        PROVE  n.open[<<k, "missing_in_stripe">>] <=> n.link[k] = k
    <3>1. <<k, "missing_in_stripe">> \in Customers \X Rules
      BY DEF Customers, Rules
    <3>2. k \notin StripeIds
      BY NamesAssumption
    <3>3. CASE k = target
      <4>1. k = c
        BY <1>2, <3>2, <3>3
      <4>2. n.open[<<k, "missing_in_stripe">>]
        BY <1>3, <3>1, <3>2, <3>3 DEF MissingFindings
      <4>3. QED
        BY <1>5, <3>3, <4>1, <4>2
    <3>4. CASE k # target
      <4>1. n.open[<<k, "missing_in_stripe">>] = v.open[<<k, "missing_in_stripe">>]
        BY <1>3, <3>1, <3>4 DEF MissingFindings
      <4>2. v.open[<<k, "missing_in_stripe">>] <=> v.link[k] = k
        BY <1>1 DEF MissingTrue
      <4>3. CASE k = c
        \* A company that is not its own target was not its own customer before.
        <5>1. n.link[k] # k
          BY <1>5, <3>4, <4>3
        <5>2. v.link[k] # k
          <6>1. v.link[c] # None => v.link[c] = target
            BY <1>2
          <6>2. k # None
            BY NamesAssumption
          <6>3. QED
            BY <3>4, <4>3, <6>1, <6>2
        <5>3. QED
          BY <4>1, <4>2, <5>1, <5>2
      <4>4. CASE k # c
        BY <1>5, <4>1, <4>2, <4>4
      <4>5. QED
        BY <4>3, <4>4
    <3>5. QED
      BY <3>3, <3>4
  <2>3. QED
    BY <2>1, <2>2 DEF MissingTrue
<1>9. Newer(v, n)
  <2>1. \A s \in StripeIds : v.status[s] # None =>
           n.status[s] # None /\ n.status[s].ver >= v.status[s].ver
    BY <1>1, <1>3, NewerSame DEF Newer
  <2>2. ASSUME NEW k \in Customers, v.hub[k] # None
        PROVE  n.hub[k] # None /\ n.hub[k].ver >= v.hub[k].ver
    <3>1. v.hub[k] \in HubSpotFact
      BY <1>1, <2>2 DEF Tables
    <3>2. fact # None
      BY FactsAssumption
    <3>3. QED
      BY <1>3, <2>2, <3>1, <3>2 DEF Accepts, HubSpotFact
  <2>3. \A k \in CompanyIds : v.link[k] # None => n.link[k] = v.link[k]
    BY <1>2, <1>5
  <2>4. QED
    BY <2>1, <2>2, <2>3 DEF Newer
<1>10. ASSUME NEW s \in StripeIds, s # target, FindingAgrees(v, s)
       PROVE  FindingAgrees(n, s)
  <2>1. <<s, "status_mismatch">> \in Customers \X Rules /\ s \in Customers
    BY DEF Customers, Rules
  <2>2. <<s, "status_mismatch">> \notin DOMAIN MissingFindings(target)
    BY DEF MissingFindings
  <2>3. n.open[<<s, "status_mismatch">>] = v.open[<<s, "status_mismatch">>] /\ n.hub[s] = v.hub[s]
    BY <1>3, <1>10, <2>1, <2>2
  <2>4. QED
    BY <1>3, <1>10, <2>3 DEF FindingAgrees
<1>11. QED
  BY <1>3, <1>4, <1>5, <1>6, <1>7, <1>8, <1>9, <1>10 DEF RightTables, n

LEMMA ComparedRight ==
    ASSUME NEW v, RightTables(v), NEW C \in SUBSET StripeIds,
           \A s \in StripeIds \ C : FindingAgrees(v, s)
    PROVE  LET n == Seen(Compared(v, C), v) IN
           /\ RightTables(n)
           /\ Newer(v, n)
           /\ \A s \in StripeIds : FindingAgrees(n, s)
<1> DEFINE n == Seen(Compared(v, C), v)
<1>1. v \in Tables
  BY DEF RightTables
<1>2. /\ n \in Tables
      /\ n.known = v.known /\ n.link = v.link /\ n.status = v.status /\ n.hub = v.hub
      /\ \A k \in Customers \X Rules : k[2] # "status_mismatch" => n.open[k] = v.open[k]
      /\ \A s \in StripeIds : s \in C \/ FindingAgrees(v, s) => FindingAgrees(n, s)
  BY <1>1, StatusesCompared
<1> HIDE DEF n
<1>3. RightTables(n)
  BY <1>2, SameLinks
<1>4. Newer(v, n)
  BY <1>1, <1>2, NewerSame DEF Newer
<1>5. QED
  BY <1>2, <1>3, <1>4 DEF n

LEMMA MissingRight ==
    ASSUME NEW v, RightTables(v), \A s \in StripeIds : FindingAgrees(v, s)
    PROVE  LET n == Seen(FoundMissing(v), v) IN
           /\ RightTables(n)
           /\ Newer(v, n)
           /\ \A s \in StripeIds : FindingAgrees(n, s)
<1> DEFINE n == Seen(FoundMissing(v), v)
<1>1. v \in Tables /\ OwnLinks(v) /\ OneCompany(v) /\ MissingTrue(v)
  BY DEF RightTables
<1>2. /\ n \in Tables
      /\ n.known = v.known /\ n.link = v.link /\ n.status = v.status /\ n.hub = v.hub
      /\ \A k \in Customers \X Rules :
            n.open[k] <=> v.open[k] \/ k \in Unmatched(v) \X {"missing_in_hubspot"}
  BY <1>1, MissingFound
<1> HIDE DEF n
<1>3. OwnLinks(n) /\ OneCompany(n)
  BY <1>1, <1>2 DEF OwnLinks, OneCompany
<1>4. MissingTrue(n)
  <2>1. ASSUME NEW s \in StripeIds, n.open[<<s, "missing_in_hubspot">>]
        PROVE  n.known[s] /\ ~Linked(n, s)
    <3>1. <<s, "missing_in_hubspot">> \in Customers \X Rules
      BY DEF Customers, Rules
    <3>2. v.known[s] /\ ~Linked(v, s)
      BY <1>1, <1>2, <2>1, <3>1 DEF MissingTrue, Unmatched
    <3>3. QED
      BY <1>2, <3>2 DEF Linked
  <2>2. \A c \in CompanyIds : n.open[<<c, "missing_in_stripe">>] <=> n.link[c] = c
    <3>1. ASSUME NEW c \in CompanyIds
          PROVE  n.open[<<c, "missing_in_stripe">>] <=> v.open[<<c, "missing_in_stripe">>]
      <4>1. <<c, "missing_in_stripe">> \in Customers \X Rules
        BY DEF Customers, Rules
      <4>2. <<c, "missing_in_stripe">> \notin Unmatched(v) \X {"missing_in_hubspot"}
        OBVIOUS
      <4>3. QED
        BY <1>2, <4>1, <4>2
    <3>2. QED
      BY <1>1, <1>2, <3>1 DEF MissingTrue
  <2>3. QED
    BY <2>1, <2>2 DEF MissingTrue
<1>5. Newer(v, n)
  BY <1>1, <1>2, NewerSame DEF Newer
<1>6. ASSUME NEW s \in StripeIds
      PROVE  FindingAgrees(n, s)
  <2>1. <<s, "status_mismatch">> \in Customers \X Rules
    BY DEF Customers, Rules
  <2>2. n.open[<<s, "status_mismatch">>] <=> v.open[<<s, "status_mismatch">>]
    BY <1>2, <2>1
  <2>3. QED
    BY <1>2, <2>2 DEF FindingAgrees
<1>7. QED
  BY <1>2, <1>3, <1>4, <1>5, <1>6 DEF RightTables, n

-----------------------------------------------------------------------------
(* preferredSubscription over a list                                       *)

LEMMA LargestNumber ==
    ASSUME NEW N \in SUBSET (1 .. MaxSubs), N # {}
    PROVE  \E m \in N : \A n \in N : n <= m
<1> DEFINE T == {MaxSubs - n : n \in N}
<1>1. T \subseteq Nat /\ T # {}
  <2>1. MaxSubs \in Nat
    BY BoundsAssumption
  <2>2. \A n \in N : n \in Nat /\ n <= MaxSubs
    BY <2>1
  <2>3. \A n \in N : MaxSubs - n \in Nat
    BY <2>1, <2>2
  <2>4. QED
    BY <2>3
<1>2. \E x \in T : \A y \in T : ~ (<<y, x>> \in OpToRel(<, Nat))
  <2> HIDE DEF T
  <2>1. QED
    BY <1>1, WFMin, NatLessThanWellFounded, Zenon
<1>3. PICK x \in T : \A y \in T : ~ (<<y, x>> \in OpToRel(<, Nat))
  BY <1>2
<1>4. \A y \in T : ~ (y < x)
  BY <1>1, <1>3 DEF OpToRel
<1>5. PICK m \in N : x = MaxSubs - m
  OBVIOUS
<1>6. \A n \in N : ~ (MaxSubs - n < MaxSubs - m)
  BY <1>4, <1>5
<1>7. ASSUME NEW n \in N PROVE n <= m
  <2>1. ~ (MaxSubs - n < MaxSubs - m) /\ MaxSubs \in Nat
    BY <1>6, BoundsAssumption
  <2>2. n \in Int /\ m \in Int
    BY <2>1
  <2>3. QED
    BY <2>1, <2>2
<1>8. QED
  BY <1>7

\* Some reading of a list is preferred to all others.
LEMMA BestReading ==
    ASSUME NEW R \in SUBSET Reading, R # {},
           \A p, q \in R : p.n = q.n => p = q
    PROVE  Best(R) \in R /\ \A q \in R : Preferred(q, Best(R)) = Best(R)
<1> DEFINE active == {r \in R : r.status = "active"}
           pool   == IF active # {} THEN active ELSE R
           N      == {r.n : r \in pool}
<1>1. pool # {} /\ pool \subseteq R
  OBVIOUS
<1>2. N \in SUBSET (1 .. MaxSubs) /\ N # {}
  BY <1>1 DEF Reading
<1>3. PICK m \in N : \A n \in N : n <= m
  BY <1>2, LargestNumber
<1>4. PICK r \in pool : r.n = m
  OBVIOUS
<1>5. ASSUME NEW q \in R
      PROVE  Preferred(q, r) = r
  <2>1. r \in R /\ q.n \in 1 .. MaxSubs /\ r.n \in 1 .. MaxSubs
    BY <1>1 DEF Reading
  <2>2. q \in pool => q.n <= r.n
    BY <1>3, <1>4
  <2>3. q \in pool => Newest(q, r) = r
    BY <2>1, <2>2 DEF Newest
  <2>4. q \notin pool => r.status = "active" /\ q.status # "active"
    OBVIOUS
  <2>5. q \in pool => (q.status = "active" <=> r.status = "active")
    OBVIOUS
  <2>6. QED
    BY <2>3, <2>4, <2>5 DEF Preferred
<1>6. QED
  BY <1>1, <1>5 DEF Best

-----------------------------------------------------------------------------
(* The inductive invariant                                                 *)

\* Where a worker holds the organization's lock, and where it has just taken it.
Held  == {"customers", "subscriptions", "retrieve", "refresh", "store", "missing",
          "compare", "commit"}
Fresh == {"customers", "retrieve", "refresh", "store", "missing"}
Pcs   == Held \cup {"idle", "lock", "list", "next"}

Listings == UNION {[K -> HubSpotRecord] : K \in SUBSET CompanyIds}

Jobs == [pc : Pcs, task : Tasks \cup {None}, reading : Reading \cup {None},
         listing : Listings, company : CompanyIds \cup {None}, writes : Writes]

Typed ==
    /\ stripe \in [StripeIds -> StripeRecord]
    /\ hubspot \in [CompanyIds -> HubSpotRecord]
    /\ todo \subseteq Tasks
    /\ lock \in Workers \cup {None}
    /\ worker \in [Workers -> Jobs]
    /\ changes \in 0 .. MaxChanges /\ failures \in 0 .. MaxFailures

\* An event that is queued or at work is about a subscription that exists.
Exists(t) == t \in Tasks /\ t.kind = "event" => t.sub \in DOMAIN stripe[t.customer].subs

\* No status is newer than the account it was read from.
NotAhead(v) == \A s \in StripeIds : v.status[s] # None => v.status[s].ver <= stripe[s].ver

\* What is committed is right.
CommittedRight ==
    /\ RightTables(db)
    /\ \A s \in StripeIds : FindingAgrees(db, s)
    /\ NotAhead(db)

\* Which job a worker can be at, by the place it has reached.
PlaceRight(j) ==
    /\ j.pc # "idle" => j.task \in Tasks /\ Exists(j.task)
    /\ j.pc \in {"customers", "subscriptions"} => j.task.kind = "stripe"
    /\ j.pc \in {"retrieve", "refresh"} => j.task.kind = "event"
    /\ j.pc \in {"list", "next", "store", "missing"} => j.task.kind = "hubspot"
    /\ j.pc \in {"idle", "list", "next"} => j.company = None
    /\ j.company # None => j.task.kind = "hubspot" /\ j.company \in DOMAIN j.listing
    /\ j.pc \in Held /\ j.pc \notin {"missing", "commit"} /\ j.task.kind = "hubspot" =>
          j.company # None
    /\ j.pc = "refresh" =>
          /\ j.reading \in Reading
          /\ j.reading.ver <= stripe[j.task.customer].ver
          /\ db.status[j.task.customer] # None =>
                db.status[j.task.customer].ver <= j.reading.ver

\* The customers a worker is about to compare.
ToCompare(w) ==
    IF worker[w].task.kind = "hubspot"
    THEN {View(w).link[worker[w].company]} \cap StripeIds
    ELSE DOMAIN worker[w].writes.status

\* What a transaction sees is right, up to the comparison it still owes.
ViewRight(w) ==
    /\ RightTables(View(w))
    /\ Newer(db, View(w))
    /\ NotAhead(View(w))
    /\ \A s \in StripeIds :
          FindingAgrees(View(w), s) \/ (worker[w].pc = "compare" /\ s \in ToCompare(w))

\* Only the holder of the lock has written anything.
LockRight(w) ==
    /\ worker[w].pc \in Held <=> lock = w
    /\ worker[w].pc \in (Pcs \ Held) \cup Fresh => worker[w].writes = NoWrites

WorkerRight(w) == PlaceRight(worker[w]) /\ LockRight(w) /\ ViewRight(w)

IInv ==
    /\ Typed
    /\ CommittedRight
    /\ \A t \in todo : Exists(t)
    /\ \A w \in Workers : WorkerRight(w)

-----------------------------------------------------------------------------
(* Initial states                                                          *)

LEMMA EmptyTablesRight == RightTables(EmptyTables) /\ \A s \in StripeIds : FindingAgrees(EmptyTables, s)
<1>1. EmptyTables \in Tables
  BY DEF EmptyTables, Tables
<1>2. OwnLinks(EmptyTables) /\ OneCompany(EmptyTables)
  BY DEF EmptyTables, OwnLinks, OneCompany
<1>3. MissingTrue(EmptyTables)
  BY NamesAssumption DEF EmptyTables, MissingTrue, Customers, Rules
<1>4. \A s \in StripeIds : FindingAgrees(EmptyTables, s)
  BY DEF EmptyTables, FindingAgrees
<1>5. QED
  BY <1>1, <1>2, <1>3, <1>4 DEF RightTables

LEMMA FreeIsJob == Free \in Jobs
<1>1. Nothing \in Listings
  <2>1. Nothing \in [{} -> HubSpotRecord]
    BY DEF Nothing
  <2>2. QED
    BY <2>1 DEF Listings
<1>2. QED
  BY <1>1, NothingWritten DEF Free, Jobs, Pcs

\* A worker between two jobs sees what is committed.
LEMMA IdleRight ==
    ASSUME CommittedRight, NEW w \in Workers, worker[w].writes = NoWrites
    PROVE  View(w) = db /\ ViewRight(w)
<1>1. db \in Tables
  BY DEF CommittedRight, RightTables
<1>2. View(w) = db
  BY <1>1, SeenNothing DEF View
<1>3. QED
  BY <1>1, <1>2, NewerSame DEF ViewRight, CommittedRight

\* Records whose fields are in smaller sets.
LEMMA SmallerCustomers ==
    ASSUME NEW T, NEW U, NEW X, NEW Y, NEW D, NEW E, NEW S, T \subseteq X, U \subseteq Y, D \subseteq E,
           NEW r \in [listed : T, domain : D, subs : S, ver : U]
    PROVE  r \in [listed : X, domain : E, subs : S, ver : Y]
  BY SMT

LEMMA SmallerCompanies ==
    ASSUME NEW T, NEW U, NEW X, NEW Y, NEW D, NEW E, NEW S, T \subseteq X, U \subseteq Y, D \subseteq E,
           NEW r \in [listed : T, domain : D, status : S, ver : U]
    PROVE  r \in [listed : X, domain : E, status : S, ver : Y]
  BY SMT

LEMMA InitIInv == Init => IInv
<1> SUFFICES ASSUME Init PROVE IInv
  OBVIOUS
<1>1. Typed
  <2>1. <<>> \in Histories
    <3>1. <<>> \in [1 .. 0 -> StripeStatuses] /\ 0 \in 0 .. MaxSubs
      BY BoundsAssumption
    <3>2. QED
      BY <3>1 DEF Histories
  <2>2. stripe \in [StripeIds -> StripeRecord]
    <3>1. [listed |-> FALSE, domain |-> NoDomain, subs |-> <<>>, ver |-> 0] \in StripeRecord
      <4>1. 0 \in Nat /\ FALSE \in BOOLEAN /\ NoDomain \in Domains \cup {NoDomain}
        OBVIOUS
      <4>2. QED
        BY <2>1, <4>1, Zenon DEF StripeRecord
    <3>2. [listed : {TRUE}, domain : Domains, subs : Histories, ver : {1}] \subseteq StripeRecord
      <4>1. {TRUE} \subseteq BOOLEAN /\ {1} \subseteq Nat /\ Domains \subseteq Domains \cup {NoDomain}
        OBVIOUS
      <4>2. QED
        BY <4>1, SmallerCustomers, Zenon DEF StripeRecord
    <3>3. QED
      BY <3>1, <3>2 DEF Init, NoCustomer
  <2>3. hubspot \in [CompanyIds -> HubSpotRecord]
    <3>1. [listed |-> FALSE, domain |-> NoDomain, status |-> "inactive", ver |-> 0] \in HubSpotRecord
      <4>1. 0 \in Nat /\ FALSE \in BOOLEAN /\ NoDomain \in Domains \cup {NoDomain}
            /\ "inactive" \in HubSpotStatuses
        BY DEF HubSpotStatuses
      <4>2. QED
        BY <4>1, Zenon DEF HubSpotRecord
    <3>2. [listed : {TRUE}, domain : Domains, status : HubSpotStatuses, ver : {1}] \subseteq HubSpotRecord
      <4>1. {TRUE} \subseteq BOOLEAN /\ {1} \subseteq Nat /\ Domains \subseteq Domains \cup {NoDomain}
        OBVIOUS
      <4>2. QED
        BY <4>1, SmallerCompanies, Zenon DEF HubSpotRecord
    <3>3. QED
      BY <3>1, <3>2 DEF Init, NoCompany
  <2>4. worker \in [Workers -> Jobs]
    BY FreeIsJob DEF Init
  <2>5. QED
    BY <2>2, <2>3, <2>4, BoundsAssumption DEF Init, Typed, Tasks, Sync
<1>2. CommittedRight
  BY EmptyTablesRight DEF Init, CommittedRight, NotAhead, EmptyTables
<1>3. \A t \in todo : Exists(t)
  BY DEF Init, Exists, Sync
<1>4. ASSUME NEW w \in Workers PROVE WorkerRight(w)
  <2>1. worker[w] = Free
    BY DEF Init
  <2>2. ViewRight(w)
    BY <1>2, <2>1, IdleRight DEF Free
  <2>3. PlaceRight(worker[w])
    BY <2>1 DEF PlaceRight, Free, Held
  <2>4. LockRight(w)
    BY <2>1, BoundsAssumption DEF Init, LockRight, Free, Held
  <2>5. QED
    BY <2>2, <2>3, <2>4 DEF WorkerRight
<1>5. QED
  BY <1>1, <1>2, <1>3, <1>4 DEF IInv

-----------------------------------------------------------------------------
(* What a step leaves alone                                                *)

\* The remote systems move on.
LEMMA AccountsGrow ==
    ASSUME IInv, UNCHANGED <<db, lock, worker>>,
           \A s \in StripeIds : /\ stripe'[s].ver \in Nat /\ stripe'[s].ver >= stripe[s].ver
                                /\ DOMAIN stripe[s].subs \subseteq DOMAIN stripe'[s].subs
    PROVE  /\ CommittedRight'
           /\ \A t \in Tasks : Exists(t) => Exists(t)'
           /\ \A w \in Workers : WorkerRight(w)'
<1>1. \A s \in StripeIds : stripe[s].ver \in Nat
  BY DEF IInv, Typed, StripeRecord
<1>2. ASSUME NEW v \in Tables, NotAhead(v) PROVE NotAhead(v)'
  <2>1. ASSUME NEW s \in StripeIds, v.status[s] # None
        PROVE  v.status[s].ver <= stripe'[s].ver
    <3>1. v.status[s].ver \in Nat
      BY <2>1 DEF Tables, StripeFact
    <3>2. v.status[s].ver <= stripe[s].ver
      BY <1>2, <2>1 DEF NotAhead
    <3>3. QED
      BY <1>1, <3>1, <3>2
  <2>2. QED
    BY <2>1 DEF NotAhead
<1>3. CommittedRight'
  BY <1>2 DEF IInv, CommittedRight, RightTables
<1>4. ASSUME NEW t \in Tasks, Exists(t) PROVE Exists(t)'
  <2>1. t.kind = "event" => t.customer \in StripeIds
    BY DEF Tasks, Sync, Event
  <2>2. QED
    BY <1>4, <2>1 DEF Exists
<1>5. ASSUME NEW w \in Workers PROVE WorkerRight(w)'
  <2>1. WorkerRight(w) /\ worker[w] \in Jobs
    BY DEF IInv, Typed
  <2>2. View(w)' = View(w) /\ View(w) \in Tables
    BY <2>1 DEF View, WorkerRight, ViewRight, RightTables
  <2>3. ViewRight(w)'
    <3>1. NotAhead(View(w))'
      BY <1>2, <2>1, <2>2 DEF WorkerRight, ViewRight
    <3>2. (ToCompare(w))' = ToCompare(w)
      BY <2>2 DEF ToCompare
    <3>3. QED
      BY <2>1, <2>2, <3>1, <3>2 DEF WorkerRight, ViewRight
  <2>4. LockRight(w)'
    BY <2>1 DEF WorkerRight, LockRight
  <2>5. PlaceRight(worker[w])'
    <3>1. PlaceRight(worker[w])
      BY <2>1 DEF WorkerRight
    <3>2. worker[w].pc # "idle" => Exists(worker[w].task)'
      BY <1>4, <3>1 DEF PlaceRight
    <3>3. ASSUME worker[w].pc = "refresh"
          PROVE  worker[w].reading.ver <= stripe'[worker[w].task.customer].ver
      <4>1. worker[w].task \in Tasks /\ worker[w].task.kind = "event"
        BY <3>1, <3>3 DEF PlaceRight
      <4>2. worker[w].task.customer \in StripeIds
        BY <4>1 DEF Tasks, Sync, Event
      <4>3. worker[w].reading.ver \in Nat
            /\ worker[w].reading.ver <= stripe[worker[w].task.customer].ver
        BY <3>1, <3>3 DEF PlaceRight, Reading
      <4>4. QED
        BY <1>1, <4>2, <4>3
    <3>4. QED
      BY <3>1, <3>2, <3>3 DEF PlaceRight
  <2>6. QED
    BY <2>3, <2>4, <2>5 DEF WorkerRight
<1>6. QED
  BY <1>3, <1>4, <1>5

\* A worker's step leaves the others right, also when it commits.
LEMMA OthersRight ==
    ASSUME IInv, NEW u \in Workers, worker'[u] = worker[u], stripe' = stripe,
           lock' = u <=> lock = u,
           db' = db \/ (lock # u /\ CommittedRight')
    PROVE  WorkerRight(u)'
<1>1. WorkerRight(u) /\ worker[u] \in Jobs
  BY DEF IInv, Typed
<1>2. LockRight(u)'
  BY <1>1 DEF WorkerRight, LockRight
<1>3. CASE db' = db
  <2>1. View(u)' = View(u)
    BY <1>3 DEF View
  <2>2. PlaceRight(worker[u])'
    BY <1>1, <1>3 DEF WorkerRight, PlaceRight, Exists
  <2>3. (ToCompare(u))' = ToCompare(u) /\ (NotAhead(View(u)))' = NotAhead(View(u))
    BY <2>1 DEF ToCompare, NotAhead
  <2>4. ViewRight(u)'
    BY <1>1, <1>3, <2>1, <2>3 DEF WorkerRight, ViewRight
  <2>5. QED
    BY <1>2, <2>2, <2>4 DEF WorkerRight
<1>4. CASE lock # u /\ CommittedRight'
  <2>1. worker[u].pc \in Pcs \ Held /\ worker[u].writes = NoWrites
    BY <1>1, <1>4 DEF WorkerRight, LockRight, Jobs
  <2>2. ViewRight(u)'
    <3>1. db' \in Tables
      BY <1>4 DEF CommittedRight, RightTables
    <3>2. View(u)' = db'
      BY <2>1, <3>1, SeenNothing DEF View
    <3>3. Newer(db, View(u))'
      BY <3>1, <3>2, NewerSame
    <3>4. QED
      BY <1>4, <3>2, <3>3 DEF ViewRight, CommittedRight, NotAhead
  <2>3. PlaceRight(worker[u])'
    BY <1>1, <2>1 DEF WorkerRight, PlaceRight, Exists, Held
  <2>4. QED
    BY <1>2, <2>2, <2>3 DEF WorkerRight
<1>5. QED
  BY <1>3, <1>4

\* What is left to show of a step of one worker.
LEMMA StepRight ==
    ASSUME IInv, NEW w \in Workers, UNCHANGED <<stripe, hubspot, changes>>,
           worker' \in [Workers -> Jobs], \A u \in Workers \ {w} : worker'[u] = worker[u],
           todo' \subseteq Tasks, \A t \in todo' : Exists(t),
           failures' \in 0 .. MaxFailures,
           lock' \in Workers \cup {None}, \A u \in Workers \ {w} : lock' = u <=> lock = u,
           db' = db \/ (lock = w /\ CommittedRight'),
           WorkerRight(w)'
    PROVE  IInv'
<1>1. Typed'
  BY DEF IInv, Typed
<1>2. CommittedRight'
  BY DEF IInv, CommittedRight, NotAhead
<1>3. (\A t \in todo : Exists(t))'
  BY DEF Exists
<1>4. \A u \in Workers \ {w} : WorkerRight(u)'
  <2>1. \A u \in Workers \ {w} : lock = w => lock # u
    OBVIOUS
  <2>2. QED
    BY <2>1, OthersRight
<1>5. QED
  BY <1>1, <1>2, <1>3, <1>4 DEF IInv

\* A worker writes: what it then sees has to be right.
LEMMA WriteRight ==
    ASSUME IInv, NEW w \in Workers, worker[w].pc \in Held,
           NEW pc \in {"subscriptions", "compare", "commit"}, NEW more \in Writes,
           Write(w, pc, more),
           RightTables(Seen(more, View(w))), Newer(View(w), Seen(more, View(w))),
           NotAhead(Seen(more, View(w))),
           \A s \in StripeIds : \/ FindingAgrees(Seen(more, View(w)), s)
                                \/ pc = "compare" /\ s \in ToCompare(w)',
           pc = "subscriptions" => worker[w].task.kind = "stripe",
           pc = "compare" /\ worker[w].task.kind = "hubspot" => worker[w].company # None
    PROVE  IInv'
<1>1. worker \in [Workers -> Jobs] /\ WorkerRight(w) /\ worker[w] \in Jobs
  BY DEF IInv, Typed
<1>2. UNCHANGED <<stripe, hubspot, todo, db, lock, changes, failures>>
      /\ worker' = [worker EXCEPT ![w].pc = pc, ![w].writes = Plus(@, more)]
  BY DEF Write
<1>3. worker'[w] = [worker[w] EXCEPT !.pc = pc, !.writes = Plus(worker[w].writes, more)]
      /\ \A u \in Workers \ {w} : worker'[u] = worker[u]
  BY <1>1, <1>2
<1>4. Plus(worker[w].writes, more) \in Writes
  BY <1>1, PlusWritten DEF Jobs
<1>5. worker' \in [Workers -> Jobs]
  BY <1>1, <1>2, <1>4 DEF Jobs, Pcs, Held
<1>6. View(w)' = Seen(more, View(w))
  BY <1>1, <1>2, <1>3, SeenPlus DEF View, Jobs
<1>7. /\ worker'[w].pc = pc /\ worker'[w].task = worker[w].task
      /\ worker'[w].company = worker[w].company /\ worker'[w].listing = worker[w].listing
  BY <1>1, <1>3 DEF Jobs
<1>8. LockRight(w)'
  <2>1. lock' = w
    BY <1>1, <1>2 DEF WorkerRight, LockRight
  <2>2. QED
    BY <1>7, <2>1 DEF LockRight, Held, Fresh
<1>9. PlaceRight(worker[w])'
  BY <1>1, <1>2, <1>7 DEF WorkerRight, PlaceRight, Held, Exists
<1>10. ViewRight(w)'
  <2>1. db \in Tables /\ View(w) \in Tables /\ Seen(more, View(w)) \in Tables /\ Newer(db, View(w))
    BY <1>1 DEF IInv, CommittedRight, WorkerRight, ViewRight, RightTables
  <2>2. Newer(db, Seen(more, View(w)))
    BY <2>1, NewerTransitive
  <2>3. NotAhead(View(w))'
    BY <1>2, <1>6 DEF NotAhead
  <2>4. QED
    BY <1>2, <1>6, <1>7, <2>2, <2>3 DEF ViewRight
<1>11. QED
  <2>1. todo' \subseteq Tasks /\ failures' \in 0 .. MaxFailures /\ lock' \in Workers \cup {None}
        /\ \A t \in todo' : Exists(t)
    BY <1>2 DEF IInv, Typed
  <2>2. WorkerRight(w)'
    BY <1>8, <1>9, <1>10 DEF WorkerRight
  <2>3. QED
    BY <1>2, <1>3, <1>5, <2>1, <2>2, StepRight

\* What a worker sees at each place in a transaction.
LEMMA Viewing ==
    ASSUME IInv, NEW w \in Workers
    PROVE  /\ worker \in [Workers -> Jobs] /\ worker[w] \in Jobs
           /\ PlaceRight(worker[w]) /\ LockRight(w)
           /\ View(w) \in Tables /\ RightTables(View(w)) /\ NotAhead(View(w))
           /\ worker[w].pc # "compare" => \A s \in StripeIds : FindingAgrees(View(w), s)
           /\ worker[w].pc \in (Pcs \ Held) \cup Fresh => View(w) = db
<1>1. worker \in [Workers -> Jobs] /\ worker[w] \in Jobs /\ WorkerRight(w) /\ CommittedRight
  BY DEF IInv, Typed
<1>2. worker[w].pc \in (Pcs \ Held) \cup Fresh => View(w) = db
  <2>1. db \in Tables
    BY <1>1 DEF CommittedRight, RightTables
  <2>2. QED
    BY <1>1, <2>1, SeenNothing DEF WorkerRight, LockRight, View
<1>3. QED
  BY <1>1, <1>2 DEF WorkerRight, ViewRight, RightTables

\* A worker moves on and has not written anything.
LEMMA MoveRight ==
    ASSUME IInv, NEW w \in Workers, NEW j \in Jobs, worker' = [worker EXCEPT ![w] = j],
           UNCHANGED <<stripe, hubspot, db, changes>>,
           todo' \subseteq Tasks, \A t \in todo' : Exists(t), failures' \in 0 .. MaxFailures,
           lock' \in Workers \cup {None}, \A u \in Workers \ {w} : lock' = u <=> lock = u,
           j.pc \in (Pcs \ Held) \cup Fresh, j.pc \in Held <=> lock' = w,
           j.writes = NoWrites, PlaceRight(j)
    PROVE  IInv'
<1>1. worker \in [Workers -> Jobs] /\ CommittedRight
  BY DEF IInv, Typed
<1>2. worker'[w] = j /\ worker' \in [Workers -> Jobs]
      /\ \A u \in Workers \ {w} : worker'[u] = worker[u]
  BY <1>1
<1>3. ViewRight(w)'
  <2>1. db \in Tables
    BY <1>1 DEF CommittedRight, RightTables
  <2>2. View(w)' = db
    BY <1>2, <2>1, SeenNothing DEF View
  <2>3. QED
    BY <1>1, <2>1, <2>2, NewerSame DEF ViewRight, CommittedRight, NotAhead
<1>4. LockRight(w)'
  BY <1>2 DEF LockRight
<1>5. PlaceRight(worker[w])'
  BY <1>2 DEF PlaceRight, Exists
<1>6. WorkerRight(w)'
  BY <1>3, <1>4, <1>5 DEF WorkerRight
<1>7. QED
  BY <1>2, <1>6, StepRight

-----------------------------------------------------------------------------
(* Steps of a worker                                                       *)

LEMMA StartStep == ASSUME IInv, NEW w \in Workers, NEW t \in Tasks, Start(w, t) PROVE IInv'
<1> DEFINE j == [worker[w] EXCEPT !.pc = IF t.kind = "hubspot" THEN "list" ELSE "lock",
                                  !.task = t]
<1>1. worker \in [Workers -> Jobs] /\ worker[w] \in Jobs /\ PlaceRight(worker[w]) /\ LockRight(w)
  BY Viewing
<1>2. worker' = [worker EXCEPT ![w] = j] /\ worker[w].pc = "idle"
  BY <1>1 DEF Start
<1>3. j \in Jobs
  BY <1>1 DEF Jobs, Pcs
<1>4. /\ j.pc \in {"list", "lock"} /\ j.task = t /\ j.writes = worker[w].writes
      /\ j.company = worker[w].company
      /\ j.pc = "list" => t.kind = "hubspot"
  BY <1>1 DEF Jobs
<1> HIDE DEF j
<1>5. worker[w].writes = NoWrites /\ lock # w
  BY <1>1, <1>2 DEF LockRight, Pcs, Held
<1>6. PlaceRight(j)
  <2>1. Exists(t) /\ worker[w].company = None
    BY <1>1, <1>2 DEF Start, IInv, PlaceRight
  <2>2. QED
    BY <1>4, <2>1 DEF PlaceRight, Held
<1>7. todo' \subseteq Tasks /\ \A q \in todo' : Exists(q)
  BY DEF Start, IInv, Typed
<1>8. UNCHANGED <<stripe, hubspot, changes, failures, lock, db>>
  BY DEF Start
<1>9. failures' \in 0 .. MaxFailures /\ lock' \in Workers \cup {None}
  BY <1>8 DEF IInv, Typed
<1>10. j.pc \in Pcs \ Held
  BY <1>4 DEF Pcs, Held
<1>11. QED
  BY <1>2, <1>3, <1>4, <1>5, <1>6, <1>7, <1>8, <1>9, <1>10, MoveRight

LEMMA LockStep == ASSUME IInv, NEW w \in Workers, Lock(w) PROVE IInv'
<1> DEFINE place == CASE worker[w].task.kind = "stripe"  -> "customers"
                      [] worker[w].task.kind = "event"   -> "retrieve"
                      [] worker[w].task.kind = "hubspot" ->
                            IF worker[w].company = None THEN "missing" ELSE "store"
           j == [worker[w] EXCEPT !.pc = place]
<1>1. worker \in [Workers -> Jobs] /\ worker[w] \in Jobs /\ PlaceRight(worker[w]) /\ LockRight(w)
  BY Viewing
<1>2. worker' = [worker EXCEPT ![w].pc = place] /\ worker[w].pc = "lock" /\ lock = None /\ lock' = w
  BY DEF Lock, Goto, LockFree
<1>3. worker[w].task \in Tasks /\ Exists(worker[w].task)
  BY <1>1, <1>2 DEF PlaceRight
<1>4. /\ place \in Fresh
      /\ place = "customers" => worker[w].task.kind = "stripe"
      /\ place = "retrieve" => worker[w].task.kind = "event"
      /\ place = "missing" => worker[w].task.kind = "hubspot"
      /\ place = "store" => worker[w].task.kind = "hubspot" /\ worker[w].company # None
      /\ worker[w].task.kind = "hubspot" => place \in {"missing", "store"}
      /\ place # "refresh"
  <2>1. worker[w].task.kind \in {"stripe", "event", "hubspot"}
    BY <1>3 DEF Tasks, Sync, Event
  <2>2. QED
    BY <2>1 DEF Fresh
<1> HIDE DEF place
<1>5. worker' = [worker EXCEPT ![w] = j] /\ j \in Jobs
  BY <1>1, <1>2, <1>4 DEF Jobs, Pcs, Held, Fresh
<1>6. /\ j.pc = place /\ j.task = worker[w].task /\ j.writes = worker[w].writes
      /\ j.company = worker[w].company /\ j.listing = worker[w].listing
  BY <1>1 DEF Jobs
<1> HIDE DEF j
<1>7. j.writes = NoWrites
  BY <1>1, <1>2, <1>6 DEF LockRight, Pcs, Held
<1>8. PlaceRight(j)
  BY <1>1, <1>2, <1>3, <1>4, <1>6 DEF PlaceRight, Fresh
<1>9. UNCHANGED <<stripe, hubspot, todo, changes, failures, db>>
  BY DEF Lock
<1>10. todo' \subseteq Tasks /\ (\A q \in todo' : Exists(q)) /\ failures' \in 0 .. MaxFailures
  BY <1>9 DEF IInv, Typed
<1>11. \A u \in Workers \ {w} : lock' = u <=> lock = u
  BY <1>2, BoundsAssumption
<1>12. j.pc \in Fresh /\ j.pc \in Held
  BY <1>4, <1>6 DEF Fresh, Held
<1>13. QED
  BY <1>2, <1>5, <1>7, <1>8, <1>9, <1>10, <1>11, <1>12, MoveRight

LEMMA RetrieveStep == ASSUME IInv, NEW w \in Workers, Retrieve(w) PROVE IInv'
<1> DEFINE s == worker[w].task.customer
           n == worker[w].task.sub
           r == [n |-> n, status |-> stripe[s].subs[n], ver |-> stripe[s].ver]
           j == [worker[w] EXCEPT !.pc = "refresh", !.reading = r]
<1>1. worker \in [Workers -> Jobs] /\ worker[w] \in Jobs /\ PlaceRight(worker[w]) /\ LockRight(w)
  BY Viewing
<1>2. worker' = [worker EXCEPT ![w] = j] /\ worker[w].pc = "retrieve"
  BY <1>1 DEF Retrieve
<1>3. worker[w].task \in Tasks /\ Exists(worker[w].task) /\ worker[w].task.kind = "event"
  BY <1>1, <1>2 DEF PlaceRight
<1>4. s \in StripeIds /\ n \in 1 .. MaxSubs
  BY <1>3 DEF Tasks, Sync, Event
<1>5. n \in DOMAIN stripe[s].subs /\ stripe[s].subs \in Histories /\ stripe[s].ver \in Nat
  BY <1>3, <1>4 DEF Exists, IInv, Typed, StripeRecord
<1>6. r \in Reading
  BY <1>4, <1>5 DEF Histories, Reading
<1>7. r.ver = stripe[s].ver
  OBVIOUS
<1> HIDE DEF r
<1>8. j \in Jobs
  BY <1>1, <1>6 DEF Jobs, Pcs, Held
<1>9. /\ j.pc = "refresh" /\ j.task = worker[w].task /\ j.writes = worker[w].writes
      /\ j.company = worker[w].company /\ j.listing = worker[w].listing /\ j.reading = r
  BY <1>1 DEF Jobs
<1> HIDE DEF j
<1>10. j.writes = NoWrites /\ lock = w
  BY <1>1, <1>2, <1>9 DEF LockRight, Held, Fresh
<1>11. PlaceRight(j)
  <2>1. stripe[s].ver <= stripe[s].ver
    BY <1>5
  <2>2. db.status[s] # None => db.status[s].ver <= r.ver
    BY <1>4, <1>7 DEF IInv, CommittedRight, NotAhead
  <2>3. QED
    BY <1>1, <1>2, <1>3, <1>6, <1>7, <1>9, <2>1, <2>2 DEF PlaceRight
<1>12. UNCHANGED <<stripe, hubspot, todo, changes, failures, lock, db>>
  BY DEF Retrieve
<1>13. todo' \subseteq Tasks /\ (\A q \in todo' : Exists(q)) /\ failures' \in 0 .. MaxFailures
       /\ lock' \in Workers \cup {None}
  BY <1>12 DEF IInv, Typed
<1>14. j.pc \in Fresh /\ j.pc \in Held
  BY <1>9 DEF Fresh, Held
<1>15. QED
  BY <1>2, <1>8, <1>10, <1>11, <1>12, <1>13, <1>14, MoveRight

LEMMA ListCompaniesStep == ASSUME IInv, NEW w \in Workers, ListCompanies(w) PROVE IInv'
<1> DEFINE listing == [c \in {c \in CompanyIds : hubspot[c].listed} |-> hubspot[c]]
           j == [worker[w] EXCEPT !.pc = "next", !.listing = listing]
<1>1. worker \in [Workers -> Jobs] /\ worker[w] \in Jobs /\ PlaceRight(worker[w]) /\ LockRight(w)
  BY Viewing
<1>2. worker' = [worker EXCEPT ![w] = j] /\ worker[w].pc = "list"
  BY <1>1 DEF ListCompanies
<1>3. listing \in Listings
  <2> DEFINE K == {c \in CompanyIds : hubspot[c].listed}
  <2>1. listing \in [K -> HubSpotRecord] /\ K \in SUBSET CompanyIds
    BY DEF IInv, Typed
  <2>2. QED
    BY <2>1 DEF Listings
<1> HIDE DEF listing
<1>4. j \in Jobs
  BY <1>1, <1>3 DEF Jobs, Pcs
<1>5. /\ j.pc = "next" /\ j.task = worker[w].task /\ j.writes = worker[w].writes
      /\ j.company = worker[w].company
  BY <1>1 DEF Jobs
<1> HIDE DEF j
<1>6. j.writes = NoWrites /\ lock # w
  BY <1>1, <1>2, <1>5 DEF LockRight, Pcs, Held
<1>7. PlaceRight(j)
  BY <1>1, <1>2, <1>5 DEF PlaceRight, Held
<1>8. UNCHANGED <<stripe, hubspot, todo, changes, failures, lock, db>>
  BY DEF ListCompanies
<1>9. todo' \subseteq Tasks /\ (\A q \in todo' : Exists(q)) /\ failures' \in 0 .. MaxFailures
      /\ lock' \in Workers \cup {None}
  BY <1>8 DEF IInv, Typed
<1>10. j.pc \in Pcs \ Held
  BY <1>5 DEF Pcs, Held
<1>11. QED
  BY <1>2, <1>4, <1>6, <1>7, <1>8, <1>9, <1>10, MoveRight

LEMMA NextCompanyStep == ASSUME IInv, NEW w \in Workers, NextCompany(w) PROVE IInv'
<1>1. worker \in [Workers -> Jobs] /\ worker[w] \in Jobs /\ PlaceRight(worker[w]) /\ LockRight(w)
  BY Viewing
<1>2. PICK c \in IF DOMAIN worker[w].listing = {} THEN {None} ELSE DOMAIN worker[w].listing :
         worker' = [worker EXCEPT ![w].pc = "lock", ![w].company = c]
  BY DEF NextCompany
<1> DEFINE j == [worker[w] EXCEPT !.pc = "lock", !.company = c]
<1>3. worker' = [worker EXCEPT ![w] = j] /\ worker[w].pc = "next"
  BY <1>1, <1>2 DEF NextCompany
<1>4. c \in CompanyIds \cup {None} /\ (c # None => c \in DOMAIN worker[w].listing)
  BY <1>1 DEF Jobs, Listings
<1>5. j \in Jobs
  BY <1>1, <1>4 DEF Jobs, Pcs
<1>6. /\ j.pc = "lock" /\ j.task = worker[w].task /\ j.writes = worker[w].writes
      /\ j.company = c /\ j.listing = worker[w].listing
  BY <1>1 DEF Jobs
<1> HIDE DEF j
<1>7. j.writes = NoWrites /\ lock # w
  BY <1>1, <1>3, <1>6 DEF LockRight, Pcs, Held
<1>8. PlaceRight(j)
  BY <1>1, <1>3, <1>4, <1>6 DEF PlaceRight, Held
<1>9. UNCHANGED <<stripe, hubspot, todo, changes, failures, lock, db>>
  BY DEF NextCompany
<1>10. todo' \subseteq Tasks /\ (\A q \in todo' : Exists(q)) /\ failures' \in 0 .. MaxFailures
       /\ lock' \in Workers \cup {None}
  BY <1>9 DEF IInv, Typed
<1>11. j.pc \in Pcs \ Held
  BY <1>6 DEF Pcs, Held
<1>12. QED
  BY <1>3, <1>5, <1>7, <1>8, <1>9, <1>10, <1>11, MoveRight

LEMMA FailStep == ASSUME IInv, NEW w \in Workers, Fail(w) PROVE IInv'
<1>1. worker \in [Workers -> Jobs] /\ worker[w] \in Jobs /\ PlaceRight(worker[w]) /\ LockRight(w)
  BY Viewing
<1>2. worker' = [worker EXCEPT ![w] = Free] /\ UNCHANGED <<stripe, hubspot, db, changes>>
  BY DEF Fail
<1>3. worker[w].task \in Tasks /\ Exists(worker[w].task)
  BY <1>1 DEF Fail, PlaceRight
<1>4. todo' \subseteq Tasks /\ \A t \in todo' : Exists(t)
  BY <1>3 DEF Fail, IInv, Typed
<1>5. failures' \in 0 .. MaxFailures
  BY BoundsAssumption DEF Fail, IInv, Typed
<1>6. lock' \in Workers \cup {None} /\ lock' # w
      /\ \A u \in Workers \ {w} : lock' = u <=> lock = u
  BY BoundsAssumption DEF Fail, IInv, Typed
<1>7. /\ Free.pc \in (Pcs \ Held) \cup Fresh /\ Free.pc \notin Held /\ Free.writes = NoWrites
      /\ PlaceRight(Free)
  BY DEF Free, Pcs, Held, PlaceRight
<1>8. QED
  BY <1>2, <1>4, <1>5, <1>6, <1>7, FreeIsJob, MoveRight

LEMMA MailTyped ==
    ASSUME IInv
    PROVE  MailDomains \in [StripeIds -> Domains \cup {NoDomain}]
  BY DEF IInv, Typed, StripeRecord, MailDomains

\* Saving customers leaves statuses and findings as they are.
LEMMA CustomersSeen ==
    ASSUME IInv, NEW w \in Workers, NEW ids \in SUBSET StripeIds, worker[w].pc # "compare"
    PROVE  LET n == Seen(SavedCustomers(ids, MailDomains), View(w)) IN
           /\ SavedCustomers(ids, MailDomains) \in Writes
           /\ n \in Tables /\ RightTables(n) /\ Newer(View(w), n) /\ NotAhead(n)
           /\ n.status = View(w).status
           /\ \A s \in StripeIds : FindingAgrees(n, s)
<1> DEFINE n == Seen(SavedCustomers(ids, MailDomains), View(w))
<1>1. /\ View(w) \in Tables /\ RightTables(View(w)) /\ NotAhead(View(w))
      /\ \A s \in StripeIds : FindingAgrees(View(w), s)
  BY Viewing
<1>2. SavedCustomers(ids, MailDomains) \in Writes /\ n \in Tables /\ n.status = View(w).status
  BY <1>1, MailTyped, CustomersSaved
<1>3. /\ RightTables(n) /\ Newer(View(w), n)
      /\ \A s \in StripeIds : FindingAgrees(View(w), s) => FindingAgrees(n, s)
  BY <1>1, MailTyped, CustomersRight
<1> HIDE DEF n
<1>4. NotAhead(n)
  BY <1>1, <1>2 DEF NotAhead
<1>5. QED
  BY <1>1, <1>2, <1>3, <1>4 DEF n

LEMMA ListCustomersStep == ASSUME IInv, NEW w \in Workers, ListCustomers(w) PROVE IInv'
<1> DEFINE more == SavedCustomers(ListedCustomers, MailDomains)
<1>1. worker[w].pc = "customers" /\ Write(w, "subscriptions", more)
  BY DEF ListCustomers
<1>2. ListedCustomers \in SUBSET StripeIds
  BY DEF ListedCustomers
<1>3. /\ more \in Writes /\ RightTables(Seen(more, View(w)))
      /\ Newer(View(w), Seen(more, View(w))) /\ NotAhead(Seen(more, View(w)))
      /\ \A s \in StripeIds : FindingAgrees(Seen(more, View(w)), s)
  BY <1>1, <1>2, CustomersSeen
<1>4. worker[w].task.kind = "stripe"
  BY <1>1, Viewing DEF PlaceRight
<1> HIDE DEF more
<1>5. QED
  BY <1>1, <1>3, <1>4, WriteRight DEF Held

\* A status just read is at least as new as every status of its customer.
LEMMA StatusesSeen ==
    ASSUME IInv, NEW v, RightTables(v), NEW P \in SUBSET StripeIds, NEW facts \in [P -> StripeFact],
           NotAhead(v),
           \A s \in P : /\ v.status[s] # None => v.status[s].ver <= facts[s].ver
                        /\ facts[s].ver <= stripe[s].ver
    PROVE  LET n == Seen(SavedStatuses(facts), v) IN
           /\ RightTables(n) /\ Newer(v, n) /\ NotAhead(n)
           /\ \A s \in StripeIds \ P : FindingAgrees(v, s) => FindingAgrees(n, s)
<1> DEFINE n == Seen(SavedStatuses(facts), v)
<1>1. v \in Tables
  BY DEF RightTables
<1>2. \A s \in P : Accepts(v.status[s], facts[s].ver)
  BY DEF Accepts
<1>3. /\ RightTables(n) /\ Newer(v, n)
      /\ \A s \in StripeIds \ P : FindingAgrees(v, s) => FindingAgrees(n, s)
  BY <1>2, StatusesRight
<1>4. /\ n \in Tables
      /\ n.link = v.link /\ n.hub = v.hub /\ n.open = v.open
      /\ \A s \in StripeIds : v.known[s] => n.known[s]
      /\ \A s \in StripeIds : n.status[s] = IF s \in P THEN facts[s] ELSE v.status[s]
  BY ONLY P \in SUBSET StripeIds, facts \in [P -> StripeFact], <1>1, StatusesSaved
<1> HIDE DEF n
<1>5. NotAhead(n)
  BY <1>4 DEF NotAhead
<1>6. QED
  BY <1>3, <1>5 DEF n

\* preferredSubscription over what is listed of a customer that has subscriptions.
LEMMA BestOfCustomer ==
    ASSUME IInv, NEW s \in StripeIds, stripe[s].subs # <<>>
    PROVE  /\ Best(Readings(s)) \in Reading /\ Best(Readings(s)).ver = stripe[s].ver
           /\ Best(Readings(s)) \in Readings(s)
           /\ \A q \in Readings(s) : Preferred(q, Best(Readings(s))) = Best(Readings(s))
<1> DEFINE h == stripe[s].subs
<1>1. h \in Histories /\ stripe[s].ver \in Nat
  BY DEF IInv, Typed, StripeRecord
<1>2. PICK k \in 0 .. MaxSubs : h \in [1 .. k -> StripeStatuses]
  BY <1>1 DEF Histories
<1>3. k \in Nat /\ k <= MaxSubs /\ MaxSubs \in Nat /\ DOMAIN h = 1 .. k
  BY <1>2, BoundsAssumption
<1>4. DOMAIN h # {}
  <2>1. SUFFICES ASSUME k = 0 PROVE FALSE
    BY <1>3
  <2>2. h = <<>>
    BY <1>2, <2>1
  <2>3. QED
    BY <2>2
<1>5. ASSUME NEW n \in DOMAIN h PROVE n \in 1 .. MaxSubs /\ h[n] \in StripeStatuses
  BY <1>2, <1>3, <1>5
<1> DEFINE reading(n) == [n |-> n, status |-> h[n], ver |-> stripe[s].ver]
<1>6. Readings(s) = {reading(n) : n \in DOMAIN h}
  BY DEF Readings
<1>7. \A n \in DOMAIN h : /\ reading(n) \in Reading
                          /\ reading(n).n = n /\ reading(n).ver = stripe[s].ver
  BY <1>1, <1>5 DEF Reading
<1> HIDE DEF h, reading
<1>8. Readings(s) \in SUBSET Reading /\ Readings(s) # {}
      /\ \A p, q \in Readings(s) : p.n = q.n => p = q
  BY <1>4, <1>6, <1>7
<1>9. /\ Best(Readings(s)) \in Readings(s)
      /\ \A q \in Readings(s) : Preferred(q, Best(Readings(s))) = Best(Readings(s))
  BY <1>8, BestReading
<1>10. QED
  BY <1>6, <1>7, <1>9

\* What is stored of the listed subscriptions is as new as their accounts.
LEMMA SubscriberFacts ==
    ASSUME IInv
    PROVE  LET facts == [s \in Subscribers |-> StatusOf(Best(Readings(s)))] IN
           /\ facts \in [Subscribers -> StripeFact] /\ Subscribers \in SUBSET StripeIds
           /\ \A s \in Subscribers : facts[s].ver = stripe[s].ver /\ stripe[s].ver \in Nat
<1> DEFINE facts == [s \in Subscribers |-> StatusOf(Best(Readings(s)))]
<1>1. ASSUME NEW s \in Subscribers
      PROVE  /\ s \in StripeIds /\ facts[s] \in StripeFact
             /\ facts[s].ver = stripe[s].ver /\ stripe[s].ver \in Nat
  <2>1. s \in StripeIds /\ stripe[s].subs # <<>>
    BY <1>1 DEF Subscribers
  <2>2. Best(Readings(s)) \in Reading /\ Best(Readings(s)).ver = stripe[s].ver
    BY <2>1, BestOfCustomer
  <2>3. QED
    BY <2>1, <2>2 DEF StatusOf, StripeFact, Reading
<1>2. QED
  BY <1>1

LEMMA ListSubscriptionsStep == ASSUME IInv, NEW w \in Workers, ListSubscriptions(w) PROVE IInv'
<1> DEFINE facts == [s \in Subscribers |-> StatusOf(Best(Readings(s)))]
           more == SavedStatuses(facts)
           v == View(w)
           n == Seen(more, v)
<1>1. worker[w].pc = "subscriptions" /\ Write(w, "compare", more)
  BY DEF ListSubscriptions
<1>2. /\ worker[w] \in Jobs /\ PlaceRight(worker[w]) /\ v \in Tables
      /\ RightTables(v) /\ NotAhead(v) /\ \A s \in StripeIds : FindingAgrees(v, s)
  BY <1>1, Viewing
<1>3. /\ facts \in [Subscribers -> StripeFact] /\ Subscribers \in SUBSET StripeIds
      /\ \A s \in Subscribers : facts[s].ver = stripe[s].ver /\ stripe[s].ver \in Nat
  BY SubscriberFacts
<1>4. DOMAIN facts = Subscribers
  OBVIOUS
<1> HIDE DEF facts, v
<1>5. more \in Writes
  BY <1>2, <1>3, StatusesSaved
<1>6. \A s \in Subscribers : /\ v.status[s] # None => v.status[s].ver <= facts[s].ver
                             /\ facts[s].ver <= stripe[s].ver
  <2>1. ASSUME NEW s \in Subscribers
        PROVE  /\ s \in StripeIds /\ facts[s].ver = stripe[s].ver /\ stripe[s].ver \in Nat
               /\ v.status[s] # None => v.status[s].ver <= stripe[s].ver
    BY <1>2, <1>3, <2>1 DEF NotAhead
  <2>2. QED
    BY <2>1
<1>7. /\ RightTables(n) /\ Newer(v, n) /\ NotAhead(n)
      /\ \A s \in StripeIds \ Subscribers : FindingAgrees(v, s) => FindingAgrees(n, s)
  BY <1>2, <1>3, <1>6, StatusesSeen
<1>8. worker[w].task.kind = "stripe"
  BY <1>1, <1>2 DEF PlaceRight
<1>9. Subscribers \subseteq ToCompare(w)'
  <2>1. worker'[w].task.kind = "stripe" /\ worker'[w].writes = Plus(worker[w].writes, more)
    BY <1>1, <1>2, <1>8, Viewing DEF Write, Jobs
  <2>2. ToCompare(w)' = DOMAIN worker'[w].writes.status
    BY <2>1 DEF ToCompare
  <2>3. more.status = facts
    BY DEF SavedStatuses, NoWrites
  <2>4. QED
    BY <1>4, <2>1, <2>2, <2>3 DEF Plus, Later
<1>10. \A s \in StripeIds : FindingAgrees(n, s) \/ s \in ToCompare(w)'
  BY <1>2, <1>7, <1>9
<1> HIDE DEF more
<1>11. worker[w].pc \in Held /\ "compare" \in {"subscriptions", "compare", "commit"}
  BY <1>1 DEF Held
<1>12. QED
  BY <1>1, <1>5, <1>7, <1>8, <1>10, <1>11, WriteRight DEF v

\* What a worker sees after it has written.
LEMMA WriteSeen ==
    ASSUME IInv, NEW w \in Workers, NEW pc, NEW more, Write(w, pc, more)
    PROVE  /\ View(w)' = Seen(more, View(w))
           /\ worker'[w].task = worker[w].task /\ worker'[w].company = worker[w].company
           /\ worker'[w].writes = Plus(worker[w].writes, more)
<1>1. worker \in [Workers -> Jobs] /\ worker[w] \in Jobs
  BY Viewing
<1>2. db' = db /\ worker'[w] = [worker[w] EXCEPT !.pc = pc, !.writes = Plus(worker[w].writes, more)]
  BY <1>1 DEF Write
<1>3. QED
  BY <1>1, <1>2, SeenPlus DEF View, Jobs

\* What is stored of an event's customer is as new as what is committed of it.
LEMMA CurrentReading ==
    ASSUME IInv, NEW w \in Workers, worker[w].pc = "refresh"
    PROVE  LET s == worker[w].task.customer
               current == Preferred(worker[w].reading, Best(Readings(s)))
           IN  /\ s \in StripeIds /\ current \in Reading /\ current.ver <= stripe[s].ver
               /\ db.status[s] # None => db.status[s].ver <= current.ver
<1> DEFINE s == worker[w].task.customer
           current == Preferred(worker[w].reading, Best(Readings(s)))
<1>1. PlaceRight(worker[w])
  BY Viewing
<1>2. worker[w].task \in Tasks /\ Exists(worker[w].task) /\ worker[w].task.kind = "event"
  BY <1>1 DEF PlaceRight
<1>3. s \in StripeIds
  BY <1>2 DEF Tasks, Sync, Event
<1>4. /\ worker[w].reading \in Reading
      /\ worker[w].reading.ver <= stripe[s].ver
      /\ db.status[s] # None => db.status[s].ver <= worker[w].reading.ver
  BY <1>1 DEF PlaceRight
<1>5. stripe[s].ver \in Nat /\ stripe[s].subs # <<>>
  <2>1. worker[w].task.sub \in DOMAIN stripe[s].subs
    BY <1>2 DEF Exists
  <2>2. DOMAIN <<>> = {}
    OBVIOUS
  <2>3. QED
    BY <1>3, <2>1, <2>2 DEF IInv, Typed, StripeRecord
<1>6. Best(Readings(s)) \in Reading /\ Best(Readings(s)).ver = stripe[s].ver
  BY <1>3, <1>5, BestOfCustomer
<1>7. current \in {worker[w].reading, Best(Readings(s))}
  BY DEF Preferred, Newest
<1>8. db.status[s] # None => db.status[s].ver <= stripe[s].ver
  BY <1>3 DEF IInv, CommittedRight, NotAhead
<1>9. QED
  BY <1>3, <1>4, <1>5, <1>6, <1>7, <1>8

LEMMA RefreshStep == ASSUME IInv, NEW w \in Workers, Refresh(w) PROVE IInv'
<1> DEFINE s == worker[w].task.customer
           current == Preferred(worker[w].reading, Best(Readings(s)))
           facts == [k \in {s} |-> StatusOf(current)]
           C == SavedCustomers({s}, MailDomains)
           F == SavedStatuses(facts)
           more == Plus(C, F)
           v == Seen(C, View(w))
           n == Seen(more, View(w))
<1>1. worker[w].pc = "refresh" /\ Write(w, "compare", more)
  BY DEF Refresh
<1>2. /\ worker[w] \in Jobs /\ PlaceRight(worker[w]) /\ View(w) \in Tables /\ View(w) = db
      /\ worker[w].pc # "compare"
  BY <1>1, Viewing DEF Fresh
<1>3. worker[w].task \in Tasks /\ Exists(worker[w].task) /\ worker[w].task.kind = "event"
  BY <1>1, <1>2 DEF PlaceRight
<1>4. /\ s \in StripeIds /\ current \in Reading /\ current.ver <= stripe[s].ver
      /\ db.status[s] # None => db.status[s].ver <= current.ver
  BY <1>1, CurrentReading
<1> HIDE DEF current, s
<1>5. /\ facts \in [{s} -> StripeFact] /\ {s} \in SUBSET StripeIds
      /\ facts[s].ver = current.ver
  BY <1>4 DEF StatusOf, StripeFact, Reading
<1> HIDE DEF facts
<1>6. /\ C \in Writes /\ v \in Tables /\ RightTables(v) /\ Newer(View(w), v) /\ NotAhead(v)
      /\ v.status = View(w).status
      /\ \A k \in StripeIds : FindingAgrees(v, k)
  BY <1>2, <1>5, CustomersSeen
<1>7. n = Seen(F, v)
  BY SeenPlus
<1> HIDE DEF C, v
<1>8. F \in Writes
  BY <1>5, <1>6, StatusesSaved
<1>9. \A k \in {s} : /\ v.status[k] # None => v.status[k].ver <= facts[k].ver
                     /\ facts[k].ver <= stripe[k].ver
  BY <1>2, <1>4, <1>5, <1>6
<1>10. /\ RightTables(n) /\ Newer(v, n) /\ NotAhead(n)
       /\ \A k \in StripeIds \ {s} : FindingAgrees(v, k) => FindingAgrees(n, k)
  BY <1>5, <1>6, <1>7, <1>9, StatusesSeen
<1>11. Newer(View(w), n) /\ more \in Writes
  BY <1>2, <1>6, <1>8, <1>10, NewerTransitive, PlusWritten DEF RightTables
<1>12. s \in ToCompare(w)'
  <2>1. worker'[w].task.kind = "event" /\ worker'[w].writes = Plus(worker[w].writes, more)
    BY <1>1, <1>3, WriteSeen
  <2>2. ToCompare(w)' = DOMAIN worker'[w].writes.status
    BY <2>1 DEF ToCompare
  <2>3. F.status = facts
    BY DEF SavedStatuses, NoWrites
  <2>4. QED
    BY <1>5, <2>1, <2>2, <2>3 DEF Plus, Later
<1>13. \A k \in StripeIds : FindingAgrees(n, k) \/ k \in ToCompare(w)'
  BY <1>6, <1>10, <1>12
<1> HIDE DEF more
<1>14. worker[w].pc \in Held /\ "compare" \in {"subscriptions", "compare", "commit"}
  BY <1>1 DEF Held
<1>15. QED
  BY <1>1, <1>3, <1>10, <1>11, <1>13, <1>14, WriteRight

LEMMA StoreCompanyStep == ASSUME IInv, NEW w \in Workers, StoreCompany(w) PROVE IInv'
<1> DEFINE c == worker[w].company
           company == worker[w].listing[c]
           fact == [status |-> company.status, ver |-> company.ver]
           more == StoredCompany(View(w), c, company.domain, fact)
           n == Seen(more, View(w))
<1>1. worker[w].pc = "store" /\ Write(w, "compare", more)
  BY DEF StoreCompany
<1>2. /\ worker[w] \in Jobs /\ PlaceRight(worker[w]) /\ View(w) \in Tables
      /\ RightTables(View(w)) /\ NotAhead(View(w)) /\ \A s \in StripeIds : FindingAgrees(View(w), s)
  BY <1>1, Viewing
<1>3. worker[w].task.kind = "hubspot" /\ c # None
  BY <1>1, <1>2 DEF PlaceRight, Held
<1>4. c \in CompanyIds /\ company \in HubSpotRecord
  <2>1. c \in DOMAIN worker[w].listing
    BY <1>2, <1>3 DEF PlaceRight
  <2>2. QED
    BY <1>2, <2>1 DEF Jobs, Listings
<1>5. fact \in HubSpotFact /\ company.domain \in Domains \cup {NoDomain}
  BY <1>4 DEF HubSpotFact, HubSpotRecord
<1> HIDE DEF fact, company, c
<1>6. more \in Writes /\ CompanyChanges(View(w), n, c, Resolved(View(w), c, company.domain), fact)
  BY <1>2, <1>4, <1>5, CompanyStored DEF RightTables
<1>7. /\ RightTables(n) /\ Newer(View(w), n)
      /\ \A s \in StripeIds : s # n.link[c] /\ FindingAgrees(View(w), s) => FindingAgrees(n, s)
  BY <1>2, <1>4, <1>5, CompanyRight
<1>8. NotAhead(n)
  BY <1>2, <1>6 DEF NotAhead, CompanyChanges
<1>9. ToCompare(w)' = {n.link[c]} \cap StripeIds
  <2>1. /\ worker'[w].task.kind = "hubspot" /\ worker'[w].company = c
        /\ View(w)' = n
    BY <1>1, <1>3, WriteSeen DEF c
  <2>2. QED
    BY <2>1 DEF ToCompare
<1>10. \A s \in StripeIds : FindingAgrees(n, s) \/ s \in ToCompare(w)'
  BY <1>2, <1>7, <1>9
<1> HIDE DEF more
<1>11. worker[w].pc \in Held /\ "compare" \in {"subscriptions", "compare", "commit"}
       /\ worker[w].company # None
  BY <1>1, <1>3 DEF Held, c
<1>12. QED
  BY <1>1, <1>6, <1>7, <1>8, <1>10, <1>11, WriteRight

LEMMA CompareStep == ASSUME IInv, NEW w \in Workers, Compare(w) PROVE IInv'
<1> DEFINE C == ToCompare(w)
           more == Compared(View(w), C)
           n == Seen(more, View(w))
<1>1. worker[w].pc = "compare" /\ Write(w, "commit", more)
  BY DEF Compare, ToCompare
<1>2. /\ worker[w] \in Jobs /\ View(w) \in Tables /\ RightTables(View(w)) /\ NotAhead(View(w))
  BY <1>1, Viewing
<1>3. C \in SUBSET StripeIds
  BY <1>2 DEF ToCompare, Jobs, Writes
<1>4. \A s \in StripeIds \ C : FindingAgrees(View(w), s)
  BY DEF IInv, WorkerRight, ViewRight
<1> HIDE DEF C
<1>5. more \in Writes /\ n.status = View(w).status
  BY <1>2, <1>3, StatusesCompared
<1>6. /\ RightTables(n) /\ Newer(View(w), n)
      /\ \A s \in StripeIds : FindingAgrees(n, s)
  BY <1>2, <1>3, <1>4, ComparedRight
<1>7. NotAhead(n)
  BY <1>2, <1>5 DEF NotAhead
<1> HIDE DEF more
<1>8. worker[w].pc \in Held /\ "commit" \in {"subscriptions", "compare", "commit"}
  BY <1>1 DEF Held
<1>9. QED
  BY <1>1, <1>5, <1>6, <1>7, <1>8, WriteRight

LEMMA FindMissingStep == ASSUME IInv, NEW w \in Workers, FindMissing(w) PROVE IInv'
<1> DEFINE more == FoundMissing(View(w))
           n == Seen(more, View(w))
<1>1. worker[w].pc = "missing" /\ Write(w, "commit", more)
  BY DEF FindMissing
<1>2. /\ View(w) \in Tables /\ RightTables(View(w)) /\ NotAhead(View(w))
      /\ \A s \in StripeIds : FindingAgrees(View(w), s)
  BY <1>1, Viewing
<1>3. more \in Writes /\ n.status = View(w).status
  BY <1>2, MissingFound
<1>4. /\ RightTables(n) /\ Newer(View(w), n)
      /\ \A s \in StripeIds : FindingAgrees(n, s)
  BY <1>2, MissingRight
<1>5. NotAhead(n)
  BY <1>2, <1>3 DEF NotAhead
<1> HIDE DEF more
<1>6. worker[w].pc \in Held /\ "commit" \in {"subscriptions", "compare", "commit"}
  BY <1>1 DEF Held
<1>7. QED
  BY <1>1, <1>3, <1>4, <1>5, <1>6, WriteRight

LEMMA CommitStep == ASSUME IInv, NEW w \in Workers, Commit(w) PROVE IInv'
<1> DEFINE c == worker[w].company
           listing == worker[w].listing
           rest == [k \in DOMAIN listing \ {c} |-> listing[k]]
           j == IF c = None THEN Free
                ELSE [Free EXCEPT !.pc = "next", !.task = worker[w].task, !.listing = rest]
<1>1. /\ worker \in [Workers -> Jobs] /\ worker[w] \in Jobs /\ PlaceRight(worker[w]) /\ LockRight(w)
      /\ RightTables(View(w)) /\ NotAhead(View(w))
      /\ \A s \in StripeIds : FindingAgrees(View(w), s)
  BY Viewing DEF Commit
<1>2. /\ worker' = [worker EXCEPT ![w] = j] /\ db' = View(w) /\ lock' = None
      /\ UNCHANGED <<stripe, hubspot, todo, changes, failures>> /\ worker[w].pc = "commit"
  BY DEF Commit
<1>3. lock = w /\ worker[w].task \in Tasks /\ Exists(worker[w].task)
      /\ (c # None => worker[w].task.kind = "hubspot")
  BY <1>1, <1>2 DEF LockRight, PlaceRight, Held
<1>4. rest \in Listings
  <2>1. PICK K \in SUBSET CompanyIds : listing \in [K -> HubSpotRecord]
    BY <1>1 DEF Jobs, Listings
  <2>2. rest \in [K \ {c} -> HubSpotRecord] /\ K \ {c} \in SUBSET CompanyIds
    BY <2>1
  <2>3. QED
    BY <2>2 DEF Listings
<1> HIDE DEF rest
<1>5. j \in Jobs /\ j.pc \in {"idle", "next"} /\ j.writes = NoWrites /\ j.company = None
      /\ (j.pc = "next" => j.task = worker[w].task /\ c # None)
  BY <1>1, <1>4, FreeIsJob DEF Free, Jobs, Pcs
<1> HIDE DEF j
<1>6. worker'[w] = j /\ worker' \in [Workers -> Jobs]
      /\ \A u \in Workers \ {w} : worker'[u] = worker[u]
  BY <1>1, <1>2, <1>5
<1>7. CommittedRight'
  BY <1>1, <1>2 DEF CommittedRight, NotAhead, RightTables
<1>8. ViewRight(w)'
  <2>1. db' \in Tables
    BY <1>7 DEF CommittedRight, RightTables
  <2>2. View(w)' = db'
    BY <1>5, <1>6, <2>1, SeenNothing DEF View
  <2>3. QED
    BY <1>7, <2>1, <2>2, NewerSame DEF ViewRight, CommittedRight, NotAhead
<1>9. LockRight(w)'
  BY <1>2, <1>5, <1>6, BoundsAssumption DEF LockRight, Held
<1>10. PlaceRight(worker[w])'
  BY <1>2, <1>3, <1>5, <1>6 DEF PlaceRight, Exists, Held
<1>11. \A u \in Workers \ {w} : lock' = u <=> lock = u
  BY <1>2, <1>3, BoundsAssumption
<1>12. todo' \subseteq Tasks /\ (\A t \in todo' : Exists(t)) /\ failures' \in 0 .. MaxFailures
       /\ lock' \in Workers \cup {None}
  BY <1>2 DEF IInv, Typed
<1>13. WorkerRight(w)'
  BY <1>8, <1>9, <1>10 DEF WorkerRight
<1>14. QED
  BY <1>2, <1>3, <1>6, <1>7, <1>11, <1>12, <1>13, StepRight

-----------------------------------------------------------------------------
(* Steps of the remote systems                                             *)

\* What is left to show of a change of a Stripe customer.
LEMMA StripeStep ==
    ASSUME IInv, NEW s \in StripeIds, NEW d \in Domains \cup {NoDomain}, NEW subs \in Histories,
           NEW listed \in BOOLEAN, StripeSet(s, d, subs, listed), Change, hubspot' = hubspot,
           DOMAIN stripe[s].subs \subseteq DOMAIN subs,
           NEW E \in SUBSET DOMAIN subs, E \subseteq 1 .. MaxSubs,
           todo' = todo \cup {Event(s, n) : n \in E}
    PROVE  IInv'
<1> DEFINE r == [listed |-> listed, domain |-> d, subs |-> subs, ver |-> stripe[s].ver + 1]
<1>1. stripe \in [StripeIds -> StripeRecord] /\ \A k \in StripeIds : stripe[k].ver \in Nat
  BY DEF IInv, Typed, StripeRecord
<1>2. r \in StripeRecord
  BY <1>1 DEF StripeRecord
<1>3. r.subs = subs /\ r.ver = stripe[s].ver + 1
  OBVIOUS
<1>4. stripe' = [stripe EXCEPT ![s] = r]
  BY DEF StripeSet
<1> HIDE DEF r
<1>5. stripe' \in [StripeIds -> StripeRecord] /\ stripe'[s] = r
      /\ \A k \in StripeIds \ {s} : stripe'[k] = stripe[k]
  BY <1>1, <1>2, <1>4
<1>6. \A k \in StripeIds : /\ stripe'[k].ver \in Nat /\ stripe'[k].ver >= stripe[k].ver
                           /\ DOMAIN stripe[k].subs \subseteq DOMAIN stripe'[k].subs
  BY <1>1, <1>3, <1>5
<1>7. UNCHANGED <<db, lock, worker, failures>> /\ changes' \in 0 .. MaxChanges
  BY BoundsAssumption DEF Change, IInv, Typed
<1>8. /\ CommittedRight'
      /\ \A t \in Tasks : Exists(t) => Exists(t)'
      /\ \A w \in Workers : WorkerRight(w)'
  BY <1>6, <1>7, AccountsGrow
<1>9. ASSUME NEW n \in E PROVE Event(s, n) \in Tasks /\ Exists(Event(s, n))'
  <2>1. Event(s, n) \in Tasks
    BY <1>9 DEF Tasks
  <2>2. QED
    BY <1>3, <1>5, <1>9, <2>1 DEF Exists, Event
<1>10. todo \subseteq Tasks /\ \A t \in todo : Exists(t)
  BY DEF IInv, Typed
<1>11. todo' \subseteq Tasks /\ (\A t \in todo : Exists(t))'
  BY <1>8, <1>9, <1>10
<1>12. Typed'
  BY <1>5, <1>7, <1>11 DEF IInv, Typed
<1>13. QED
  BY <1>8, <1>11, <1>12 DEF IInv

LEMMA CustomerChangeStep == ASSUME IInv, NEW s \in StripeIds, CustomerChange(s) PROVE IInv'
<1>1. PICK d \in Domains \cup {NoDomain} : StripeSet(s, d, stripe[s].subs, TRUE)
  BY DEF CustomerChange
<1>2. stripe[s].subs \in Histories
  BY DEF IInv, Typed, StripeRecord
<1>3. Change /\ hubspot' = hubspot /\ todo' = todo \cup {Event(s, n) : n \in {}}
  BY DEF CustomerChange
<1>4. QED
  BY <1>1, <1>2, <1>3, StripeStep

LEMMA SubscriptionChangeStep == ASSUME IInv, NEW s \in StripeIds, SubscriptionChange(s) PROVE IInv'
<1> DEFINE h == stripe[s].subs
<1>1. PICK n \in 1 .. MaxSubs, st \in StripeStatuses :
         /\ n = 1 \/ n - 1 \in DOMAIN h
         /\ StripeSet(s, stripe[s].domain,
               [k \in DOMAIN h \cup {n} |-> IF k = n THEN st ELSE h[k]], TRUE)
         /\ todo' = todo \cup {Event(s, n)}
  BY DEF SubscriptionChange
<1>2. h \in Histories /\ stripe[s].domain \in Domains \cup {NoDomain}
  BY DEF IInv, Typed, StripeRecord
<1>3. PICK m \in 0 .. MaxSubs : h \in [1 .. m -> StripeStatuses]
  BY <1>2 DEF Histories
<1> DEFINE g == [k \in DOMAIN h \cup {n} |-> IF k = n THEN st ELSE h[k]]
<1>4. g \in Histories /\ DOMAIN h \subseteq DOMAIN g /\ n \in DOMAIN g
  <2> DEFINE p == IF n \in 1 .. m THEN m ELSE n
  <2>1. MaxSubs \in Nat
    BY BoundsAssumption
  <2>2. n = 1 \/ n - 1 \in 1 .. m
    BY <1>1, <1>3
  <2>3. p \in 0 .. MaxSubs /\ (1 .. m) \cup {n} = 1 .. p
    BY <2>1, <2>2
  <2>4. DOMAIN h = 1 .. m
    BY <1>3
  <2> HIDE DEF p, h
  <2>5. g \in [1 .. p -> StripeStatuses]
    BY <1>3, <2>3, <2>4
  <2>6. QED
    BY <2>3, <2>4, <2>5 DEF Histories
<1>5. Change /\ hubspot' = hubspot
  BY DEF SubscriptionChange
<1>6. todo' = todo \cup {Event(s, k) : k \in {n}}
  BY <1>1
<1>7. StripeSet(s, stripe[s].domain, g, TRUE)
  BY <1>1
<1>8. {n} \in SUBSET DOMAIN g /\ {n} \subseteq 1 .. MaxSubs /\ TRUE \in BOOLEAN
  BY <1>4
<1> HIDE DEF g
<1>9. QED
  BY <1>2, <1>4, <1>5, <1>6, <1>7, <1>8, StripeStep

LEMMA CustomerDeleteStep == ASSUME IInv, NEW s \in StripeIds, CustomerDelete(s) PROVE IInv'
<1> DEFINE h == stripe[s].subs
           g == [n \in DOMAIN h |-> "ended"]
           E == {n \in DOMAIN h : h[n] # "ended"}
<1>1. /\ h # <<>> => "ended" \in StripeStatuses
      /\ StripeSet(s, NoDomain, g, FALSE)
      /\ todo' = todo \cup {Event(s, n) : n \in E}
      /\ Change /\ hubspot' = hubspot
  BY DEF CustomerDelete
<1>2. h \in Histories
  BY DEF IInv, Typed, StripeRecord
<1>3. PICK m \in 0 .. MaxSubs : h \in [1 .. m -> StripeStatuses]
  BY <1>2 DEF Histories
<1>4. E \subseteq 1 .. MaxSubs /\ DOMAIN h = 1 .. m
  <2>1. m \in Nat /\ m <= MaxSubs /\ MaxSubs \in Nat /\ DOMAIN h = 1 .. m
    BY <1>3, BoundsAssumption
  <2>2. QED
    BY <2>1
<1>5. g \in Histories
  <2>1. CASE h = <<>>
    BY <1>2, <2>1
  <2>2. CASE h # <<>>
    <3>1. g \in [1 .. m -> StripeStatuses]
      BY <1>1, <1>4, <2>2
    <3>2. QED
      BY <3>1 DEF Histories
  <2>3. QED
    BY <2>1, <2>2
<1>6. DOMAIN g = DOMAIN h /\ E \in SUBSET DOMAIN g
  OBVIOUS
<1> HIDE DEF g, E
<1>7. QED
  BY <1>1, <1>4, <1>5, <1>6, StripeStep

\* What is left to show of a step that only HubSpot and the queue see.
LEMMA QueueStep ==
    ASSUME IInv, Change, stripe' = stripe, hubspot' \in [CompanyIds -> HubSpotRecord],
           NEW t \in {Sync("stripe"), Sync("hubspot")}, todo' = todo \cup {t}
    PROVE  IInv'
<1>1. \A k \in StripeIds : /\ stripe'[k].ver \in Nat /\ stripe'[k].ver >= stripe[k].ver
                           /\ DOMAIN stripe[k].subs \subseteq DOMAIN stripe'[k].subs
  <2>1. \A k \in StripeIds : stripe[k].ver \in Nat
    BY DEF IInv, Typed, StripeRecord
  <2>2. QED
    BY <2>1
<1>2. UNCHANGED <<db, lock, worker, failures>> /\ changes' \in 0 .. MaxChanges
  BY BoundsAssumption DEF Change, IInv, Typed
<1>3. /\ CommittedRight'
      /\ \A q \in Tasks : Exists(q) => Exists(q)'
      /\ \A w \in Workers : WorkerRight(w)'
  BY <1>1, <1>2, AccountsGrow
<1>4. t \in Tasks /\ Exists(t)'
  BY DEF Tasks, Sync, Exists
<1>5. todo \subseteq Tasks /\ \A q \in todo : Exists(q)
  BY DEF IInv, Typed
<1>6. todo' \subseteq Tasks /\ (\A q \in todo : Exists(q))'
  BY <1>3, <1>4, <1>5
<1>7. Typed'
  BY <1>2, <1>6 DEF IInv, Typed
<1>8. QED
  BY <1>3, <1>6, <1>7 DEF IInv

LEMMA CompanyChangeStep == ASSUME IInv, NEW c \in CompanyIds, CompanyChange(c) PROVE IInv'
<1>1. PICK d \in Domains \cup {NoDomain}, st \in HubSpotStatuses :
         HubSpotSet(c, [listed |-> TRUE, domain |-> d, status |-> st, ver |-> hubspot[c].ver + 1])
  BY DEF CompanyChange
<1>2. hubspot \in [CompanyIds -> HubSpotRecord] /\ hubspot[c].ver \in Nat
  BY DEF IInv, Typed, HubSpotRecord
<1>3. [listed |-> TRUE, domain |-> d, status |-> st, ver |-> hubspot[c].ver + 1] \in HubSpotRecord
  BY <1>2 DEF HubSpotRecord
<1>4. hubspot' \in [CompanyIds -> HubSpotRecord]
  BY <1>1, <1>2, <1>3 DEF HubSpotSet
<1>5. QED
  BY <1>1, <1>4, QueueStep DEF HubSpotSet

LEMMA CompanyDeleteStep == ASSUME IInv, NEW c \in CompanyIds, CompanyDelete(c) PROVE IInv'
<1>1. HubSpotSet(c, [hubspot[c] EXCEPT !.listed = FALSE])
  BY DEF CompanyDelete
<1>2. hubspot \in [CompanyIds -> HubSpotRecord]
  BY DEF IInv, Typed
<1>3. [hubspot[c] EXCEPT !.listed = FALSE] \in HubSpotRecord
  BY <1>2 DEF HubSpotRecord
<1>4. hubspot' \in [CompanyIds -> HubSpotRecord]
  BY <1>1, <1>2, <1>3 DEF HubSpotSet
<1>5. QED
  BY <1>1, <1>4, QueueStep DEF HubSpotSet

LEMMA RequestSyncStep ==
    ASSUME IInv, NEW provider \in {"stripe", "hubspot"}, RequestSync(Sync(provider))
    PROVE  IInv'
<1>1. Sync(provider) \in {Sync("stripe"), Sync("hubspot")}
  OBVIOUS
<1>2. hubspot' \in [CompanyIds -> HubSpotRecord]
  BY DEF RequestSync, IInv, Typed
<1>3. QED
  BY <1>1, <1>2, QueueStep DEF RequestSync

-----------------------------------------------------------------------------
(* The invariant and what it implies                                       *)

LEMMA NextIInv == IInv /\ [Next]_vars => IInv'
<1> SUFFICES ASSUME IInv, [Next]_vars PROVE IInv'
  OBVIOUS
<1>1. ASSUME NEW s \in StripeIds, CustomerChange(s) \/ SubscriptionChange(s) \/ CustomerDelete(s)
      PROVE  IInv'
  BY <1>1, CustomerChangeStep, SubscriptionChangeStep, CustomerDeleteStep
<1>2. ASSUME NEW c \in CompanyIds, CompanyChange(c) \/ CompanyDelete(c)
      PROVE  IInv'
  BY <1>2, CompanyChangeStep, CompanyDeleteStep
<1>3. ASSUME NEW provider \in {"stripe", "hubspot"}, RequestSync(Sync(provider))
      PROVE  IInv'
  BY <1>3, RequestSyncStep
<1>4. ASSUME NEW w \in Workers, Step(w) \/ Fail(w)
      PROVE  IInv'
  <2>1. ASSUME NEW t \in Tasks, Start(w, t) PROVE IInv'
    BY <2>1, StartStep
  <2>2. CASE Lock(w)
    BY <2>2, LockStep
  <2>3. CASE ListCustomers(w)
    BY <2>3, ListCustomersStep
  <2>4. CASE ListSubscriptions(w)
    BY <2>4, ListSubscriptionsStep
  <2>5. CASE Retrieve(w)
    BY <2>5, RetrieveStep
  <2>6. CASE Refresh(w)
    BY <2>6, RefreshStep
  <2>7. CASE ListCompanies(w)
    BY <2>7, ListCompaniesStep
  <2>8. CASE NextCompany(w)
    BY <2>8, NextCompanyStep
  <2>9. CASE StoreCompany(w)
    BY <2>9, StoreCompanyStep
  <2>10. CASE Compare(w)
    BY <2>10, CompareStep
  <2>11. CASE FindMissing(w)
    BY <2>11, FindMissingStep
  <2>12. CASE Commit(w)
    BY <2>12, CommitStep
  <2>13. CASE Fail(w)
    BY <2>13, FailStep
  <2>14. QED
    BY <1>4, <2>1, <2>2, <2>3, <2>4, <2>5, <2>6, <2>7, <2>8, <2>9, <2>10, <2>11, <2>12, <2>13
       DEF Step
<1>5. CASE UNCHANGED vars
  <2>1. UNCHANGED <<stripe, hubspot, todo, db, lock, worker, changes, failures>>
    BY <1>5 DEF vars
  <2>2. Typed'
    BY <2>1 DEF IInv, Typed
  <2>3. CommittedRight'
    BY <2>1 DEF IInv, CommittedRight, NotAhead
  <2>4. (\A t \in todo : Exists(t))'
    BY <2>1 DEF IInv, Exists
  <2>5. \A w \in Workers : WorkerRight(w)'
    BY <2>1, OthersRight
  <2>6. QED
    BY <2>2, <2>3, <2>4, <2>5 DEF IInv
<1>6. QED
  BY <1>1, <1>2, <1>3, <1>4, <1>5 DEF Next

\* Everything below follows from the invariant.
THEOREM Invariance == Spec => []IInv
<1>1. Init => IInv
  BY InitIInv
<1>2. IInv /\ [Next]_vars => IInv'
  BY NextIInv
<1>3. QED
  BY <1>1, <1>2, PTL DEF Spec

\* Tables, records, jobs and the tables every transaction sees keep their types.
THEOREM TypeCorrect == Spec => []TypeOK
<1>1. IInv => TypeOK
  BY DEF IInv, Typed, CommittedRight, RightTables, WorkerRight, ViewRight, TypeOK
<1>2. QED
  BY <1>1, Invariance, PTL

\* However syncs and events of both systems interleave and fail, a customer with
\* facts of both has an open status finding exactly if they disagree.
THEOREM DriftIsDetected == Spec => []StatusDriftDetected
<1>1. IInv => StatusDriftDetected
  BY DEF IInv, CommittedRight, StatusDriftDetected
<1>2. QED
  BY <1>1, Invariance, PTL

\* No two companies are given the same customer.
THEOREM CompaniesAreUnique == Spec => []OneCompanyPerCustomer
<1>1. IInv => OneCompanyPerCustomer
  BY DEF IInv, CommittedRight, RightTables, OneCompanyPerCustomer
<1>2. QED
  BY <1>1, Invariance, PTL

\* Open missing-customer findings are true of the identities.
THEOREM MissingIsTrue == Spec => []MissingFindingsTrue
<1>1. IInv => MissingFindingsTrue
  BY DEF IInv, CommittedRight, RightTables, MissingFindingsTrue
<1>2. QED
  BY <1>1, Invariance, PTL

\* Whatever is committed is newer than what it replaces.
LEMMA CommitsAreNewer == IInv /\ [Next]_vars => Newer(db, db')
<1> SUFFICES ASSUME IInv, [Next]_vars PROVE Newer(db, db')
  OBVIOUS
<1>1. db \in Tables
  BY DEF IInv, CommittedRight, RightTables
<1>2. ASSUME NEW w \in Workers, Commit(w) PROVE Newer(db, db')
  <2>1. db' = View(w)
    BY <1>2 DEF Commit
  <2>2. QED
    BY <2>1 DEF IInv, WorkerRight, ViewRight
<1>3. CASE db' = db
  BY <1>1, <1>3, NewerSame
<1>4. (\E w \in Workers : Commit(w)) \/ db' = db
  BY DEF Next, Step, vars, CustomerChange, SubscriptionChange, CustomerDelete, CompanyChange,
         CompanyDelete, RequestSync, HubSpotSet, Change, Start, Lock, ListCustomers,
         ListSubscriptions, Retrieve, Refresh, ListCompanies, NextCompany, StoreCompany, Compare,
         FindMissing, Write, Fail
<1>5. QED
  BY <1>2, <1>3, <1>4

\* No committed status is lost or replaced by an older one.
THEOREM FactsMoveOn == Spec => FactsNeverRegress
<1>1. IInv /\ [Next]_vars =>
         [/\ \A s \in StripeIds : db.status[s] # None =>
                db'.status[s] # None /\ db'.status[s].ver >= db.status[s].ver
          /\ \A c \in Customers : db.hub[c] # None =>
                db'.hub[c] # None /\ db'.hub[c].ver >= db.hub[c].ver]_vars
  BY CommitsAreNewer DEF Newer
<1>2. QED
  BY <1>1, Invariance, PTL DEF Spec, FactsNeverRegress

\* A company keeps the customer it was given.
THEOREM LinksStay == Spec => LinksArePermanent
<1>1. IInv /\ [Next]_vars =>
         [\A c \in CompanyIds : db.link[c] # None => db'.link[c] = db.link[c]]_vars
  BY CommitsAreNewer DEF Newer
<1>2. QED
  BY <1>1, Invariance, PTL DEF Spec, LinksArePermanent

=============================================================================
