\* Two Stripe customers without subscriptions and two companies that may share a
\* domain, on two replicas that may fail.  The store goes quiet when every job is done.
SPECIFICATION Spec
CONSTANTS
    StripeIds = {s1, s2}
    CompanyIds = {c1, c2}
    Domains = {d1}
    NoDomain = NoDomain
    StripeStatuses = {}
    Workers = {w1, w2}
    None = None
    MaxSubs = 2
    MaxChanges = 1
    MaxFailures = 1
SYMMETRY Symmetry
INVARIANTS
    MissingFindingsTrue
    OneCompanyPerCustomer
CHECK_DEADLOCK FALSE
