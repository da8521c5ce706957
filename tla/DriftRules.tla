----------------------------- MODULE DriftRules -----------------------------
(***************************************************************************)
(* The tables of one organization's customer data (customer_identities,    *)
(* customer_facts, findings) and what the statements of the syncs do to    *)
(* them: matching by domain, facts and their order, the three rules.       *)
(*                                                                         *)
(* A canonical customer is named after the external record that created    *)
(* it: a Stripe customer or a HubSpot company.                             *)
(***************************************************************************)
EXTENDS Naturals

CONSTANTS
    StripeIds,      \* customers that may appear in Stripe
    CompanyIds,     \* companies that may appear in HubSpot
    Domains,        \* business domains
    NoDomain,       \* no domain, or one of a personal mail provider
    StripeStatuses, \* statuses a subscription may take; "active" stands for
                    \* trialing too, "ended" for canceled
    None

ASSUME NamesAssumption ==
    /\ StripeIds \cap CompanyIds = {}
    /\ NoDomain \notin Domains
    /\ None \notin StripeIds \cup CompanyIds
    /\ StripeStatuses \subseteq {"active", "past_due", "ended"}

Customers == StripeIds \cup CompanyIds
Rules     == {"status_mismatch", "missing_in_hubspot", "missing_in_stripe"}

-----------------------------------------------------------------------------
(* Tables and writes                                                       *)

HubSpotStatuses == {"active", "inactive"}   \* what normalizeStatus leaves apart

\* "ver" orders the observations of one record; for HubSpot it is updatedAt.
StripeFact  == [status : StripeStatuses, ver : Nat]
HubSpotFact == [status : HubSpotStatuses, ver : Nat]

ASSUME FactsAssumption == None \notin StripeFact \cup HubSpotFact

Tables ==
    [known  : [StripeIds -> BOOLEAN],                  \* Stripe identities
     link   : [CompanyIds -> Customers \cup {None}],   \* HubSpot identities
     domain : [StripeIds -> Domains \cup {NoDomain}],  \* stripe.customer.domain
     status : [StripeIds -> StripeFact \cup {None}],   \* stripe.subscription.status
     hub    : [Customers -> HubSpotFact \cup {None}],  \* hubspot.customer.status
     open   : [Customers \X Rules -> BOOLEAN]]         \* findings.status = 'open'

EmptyTables ==
    [known  |-> [s \in StripeIds |-> FALSE],
     link   |-> [c \in CompanyIds |-> None],
     domain |-> [s \in StripeIds |-> NoDomain],
     status |-> [s \in StripeIds |-> None],
     hub    |-> [c \in Customers |-> None],
     open   |-> [k \in Customers \X Rules |-> FALSE]]

Nothing == [k \in {} |-> k]

\* The rows a transaction has written, by key.
NoWrites == [known |-> Nothing, link |-> Nothing, domain |-> Nothing,
             status |-> Nothing, hub |-> Nothing, open |-> Nothing]

Over(writes, rows) ==
    [k \in DOMAIN rows |-> IF k \in DOMAIN writes THEN writes[k] ELSE rows[k]]

\* The tables as a transaction with these writes sees them.
Seen(writes, v) ==
    [known  |-> Over(writes.known, v.known),
     link   |-> Over(writes.link, v.link),
     domain |-> Over(writes.domain, v.domain),
     status |-> Over(writes.status, v.status),
     hub    |-> Over(writes.hub, v.hub),
     open   |-> Over(writes.open, v.open)]

Later(writes, more) ==
    [k \in DOMAIN writes \cup DOMAIN more |-> IF k \in DOMAIN more THEN more[k] ELSE writes[k]]

\* Writes on top of earlier writes of the same transaction.
Plus(writes, more) ==
    [known  |-> Later(writes.known, more.known),
     link   |-> Later(writes.link, more.link),
     domain |-> Later(writes.domain, more.domain),
     status |-> Later(writes.status, more.status),
     hub    |-> Later(writes.hub, more.hub),
     open   |-> Later(writes.open, more.open)]

-----------------------------------------------------------------------------
(* Detection                                                               *)

\* EvaluateStatusMismatch
Mismatch(s, h) ==
    \/ s = "ended" /\ h = "active"
    \/ s = "active" /\ h # "active"

BothFacts(v, customers) == {s \in customers : v.status[s] # None /\ v.hub[s] # None}

ComparedWithoutResolve(v, customers) ==
    [NoWrites EXCEPT !.open =
       [k \in {s \in BothFacts(v, customers) : Mismatch(v.status[s].status, v.hub[s].status)}
              \X {"status_mismatch"} |-> TRUE]]

\* CompareStatus: the finding of every customer that has both facts is opened
\* or resolved.
Compared(v, customers) ==
    [NoWrites EXCEPT !.open =
       [k \in BothFacts(v, customers) \X {"status_mismatch"}
          |-> Mismatch(v.status[k[1]].status, v.hub[k[1]].status)]]

MissingInStripeOnly(customer) ==
    [k \in {<<customer, "missing_in_stripe">>} |-> customer \notin StripeIds]

\* The missing-customer findings of the customer a company belongs to: both are
\* resolved if it has a Stripe identity, else it is missing in Stripe.
MissingFindings(customer) ==
    IF customer \in StripeIds
    THEN [k \in {customer} \X {"missing_in_hubspot", "missing_in_stripe"} |-> FALSE]
    ELSE [k \in {<<customer, "missing_in_stripe">>} |-> TRUE]

-----------------------------------------------------------------------------
(* Matching                                                                *)

Linked(v, s) == \E c \in CompanyIds : v.link[c] = s

MatchesOrLinked(v, d) == {s \in StripeIds : d # NoDomain /\ v.domain[s] = d}

\* The Stripe customers of a domain that have no company yet.
Matches(v, d) == {s \in StripeIds : d # NoDomain /\ v.domain[s] = d /\ ~Linked(v, s)}

\* A company that is not known joins its only match or gets a customer of its own.
ResolvedByDomain(v, c, d) ==
    IF \E s \in StripeIds : Matches(v, d) = {s} THEN CHOOSE s \in Matches(v, d) : TRUE ELSE c

\* resolveCustomer: a known company keeps its customer.
Resolved(v, c, d) == IF v.link[c] # None THEN v.link[c] ELSE ResolvedByDomain(v, c, d)

AcceptsAny(fact, ver) == TRUE

\* ON CONFLICT DO UPDATE ... WHERE observed_at <= EXCLUDED.observed_at
Accepts(fact, ver) == fact = None \/ fact.ver <= ver

-----------------------------------------------------------------------------
(* The statements of a transaction                                         *)

\* saveCustomer: the identity, and a domain if the mail address has one.
SavedCustomers(ids, domain) ==
    [NoWrites EXCEPT
       !.known  = [s \in ids |-> TRUE],
       !.domain = [s \in {s \in ids : domain[s] # NoDomain} |-> domain[s]]]

\* saveSubscription up to CompareStatus: a customer of a subscription gets an
\* identity, too.
SavedStatuses(facts) ==
    [NoWrites EXCEPT !.known = [s \in DOMAIN facts |-> TRUE], !.status = facts]

\* storeCompany up to CompareStatus: identity, facts, missing-customer findings.
StoredCompany(v, c, domain, fact) ==
    LET target == Resolved(v, c, domain) IN
    [NoWrites EXCEPT
       !.link = [k \in {c} |-> target],
       !.hub  = [k \in {k \in {target} : Accepts(v.hub[k], fact.ver)} |-> fact],
       !.open = MissingFindings(target)]

\* Stripe customers without a company.
Unmatched(v) == {s \in StripeIds : v.known[s] /\ ~Linked(v, s)}

\* findStripeCustomersMissingHubSpot
FoundMissing(v) ==
    [NoWrites EXCEPT !.open = [k \in Unmatched(v) \X {"missing_in_hubspot"} |-> TRUE]]

-----------------------------------------------------------------------------
(* What must be true of the tables                                         *)

\* The status finding of a customer with both facts is right about them.
FindingAgrees(v, s) ==
    v.status[s] # None /\ v.hub[s] # None =>
        (v.open[<<s, "status_mismatch">>] <=> Mismatch(v.status[s].status, v.hub[s].status))

OneCompany(v) ==
    \A c, k \in CompanyIds : v.link[c] = v.link[k] /\ v.link[c] # None => c = k

MissingTrue(v) ==
    /\ \A s \in StripeIds : v.open[<<s, "missing_in_hubspot">>] => v.known[s] /\ ~Linked(v, s)
    /\ \A c \in CompanyIds : v.open[<<c, "missing_in_stripe">>] <=> v.link[c] = c

=============================================================================
