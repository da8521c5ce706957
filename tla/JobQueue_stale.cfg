\* Three requests for one sync on one replica: what a duplicate is answered with
\* while the sync it met is not finished.  The queue goes quiet when every job is done.
SPECIFICATION Spec
CONSTANTS
    stripe = stripe
    hubspot = hubspot
    es = es
    eh = eh
    w1 = w1
    w2 = w2
    NoEvent = NoEvent
    Integrations = {stripe}
    StripeIntegrations = {stripe}
    Events = {}
    EventSource <- MCSource
    Requests = {r1, r2, r3}
    Asked <- MCAsked
    Workers = {w1}
    RetryDelay = 1
    AttemptTimeout = 1
    MaxFailures = 0
    MaxAbandons = 0
PROPERTIES
    DuplicateGetsExistingJob
CHECK_DEADLOCK FALSE
