\* One worker and one sync whose first attempt fails slowly or runs into its
\* timeout.  The queue goes quiet when the job is done.
SPECIFICATION HSpec
CONSTANTS
    stripe = stripe
    es = es
    NoEvent = NoEvent
    Integrations = {stripe}
    StripeIntegrations = {stripe}
    Events = {}
    EventSource <- MCSource
    Requests = {r1}
    Asked <- MCAsked
    Workers = {w1}
    RetryDelay = 1
    AttemptTimeout = 2
    MaxFailures = 1
    MaxAbandons = 1
PROPERTIES
    RetryAfterDelay
CHECK_DEADLOCK FALSE
