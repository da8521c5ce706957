\* Two replicas and three requests for the same sync, so that a request may meet a
\* second sync; a failure per job and one lost attempt.  The queue goes quiet when
\* every job is done.
SPECIFICATION Spec
CONSTANTS
    stripe = stripe
    hubspot = hubspot
    es = es
    eh = eh
    w1 = w1
    w2 = w2
    NoEvent = NoEvent
    Integrations = {stripe}
    StripeIntegrations = {stripe}
    Events = {}
    EventSource <- MCSource
    Requests = {r1, r2, r3}
    Asked <- MCAsked
    Workers = {w1, w2}
    RetryDelay = 1
    AttemptTimeout = 1
    MaxFailures = 1
    MaxAbandons = 1
SYMMETRY Symmetry
PROPERTIES
    ImplementsTaskQueue
CHECK_DEADLOCK FALSE
