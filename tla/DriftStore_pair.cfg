\* One Stripe customer with up to two subscriptions and one company, two replicas.
SPECIFICATION FairSpec
CONSTANTS
    StripeIds = {s1}
    CompanyIds = {c1}
    Domains = {d1}
    NoDomain = NoDomain
    StripeStatuses = {"active", "ended"}
    Workers = {w1, w2}
    None = None
    MaxSubs = 2
    MaxChanges = 1
    MaxFailures = 1
INVARIANTS
    TypeOK
    StatusDriftDetected
    QuietFindingsTrue
PROPERTIES
    ImplementsSerialStore
    DriftEventuallyReported
CHECK_DEADLOCK FALSE
