---------------------------- MODULE SerialStore ----------------------------
(***************************************************************************)
(* What the syncs promise about an organization's customer data: they act  *)
(* as if their transactions ran one at a time, each of them reading what   *)
(* the one before it has committed, and no status goes back in time.       *)
(***************************************************************************)
EXTENDS DriftRules

VARIABLE db     \* the committed tables

Init == db = EmptyTables

\* A Stripe sync or event takes the tables from a to b: customers, then statuses,
\* each compared with HubSpot's.
StripeSaved(a, b, ids, paid) ==
    LET facts  == [s \in paid |-> b.status[s]]
        stored == Seen(Plus(SavedCustomers(ids, b.domain), SavedStatuses(facts)), a)
    IN
    /\ \A s \in paid : facts[s] # None /\ Accepts(a.status[s], facts[s].ver)
    /\ b = Seen(Compared(stored, paid), stored)

\* One company of a HubSpot sync, whose customer then has this status.
CompanySaved(a, b, c, domain) ==
    LET target == Resolved(a, c, domain)
        fact   == b.hub[target]
        stored == Seen(StoredCompany(a, c, domain, fact), a)
    IN
    /\ fact # None /\ Accepts(a.hub[target], fact.ver)
    /\ b = Seen(Compared(stored, {target} \cap StripeIds), stored)

\* The end of a HubSpot sync.
MissingSaved(a, b) == b = Seen(FoundMissing(a), a)

Transaction(a, b) ==
    \/ \E ids, paid \in SUBSET StripeIds : StripeSaved(a, b, ids, paid)
    \/ \E c \in CompanyIds, domain \in Domains \cup {NoDomain} : CompanySaved(a, b, c, domain)
    \/ MissingSaved(a, b)

Next == Transaction(db, db')

Spec == Init /\ [][Next]_db

=============================================================================
