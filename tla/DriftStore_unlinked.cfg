\* A company is synced before its Stripe customer.
SPECIFICATION Spec
CONSTANTS
    StripeIds = {s1}
    CompanyIds = {c1}
    Domains = {d1}
    NoDomain = NoDomain
    StripeStatuses = {}
    Workers = {w1}
    None = None
    MaxSubs = 2
    MaxChanges = 1
    MaxFailures = 0
PROPERTIES
    UnlinkedMeansNoMatch
CHECK_DEADLOCK FALSE
