\* A HubSpot event and two requests for the same Stripe sync on one replica, with
\* fairness.  The queue goes quiet when every job is done.
SPECIFICATION FairSpec
CONSTANTS
    stripe = stripe
    hubspot = hubspot
    es = es
    eh = eh
    w1 = w1
    w2 = w2
    NoEvent = NoEvent
    Integrations = {stripe, hubspot}
    StripeIntegrations = {stripe}
    Events = {eh}
    EventSource <- MCSource
    Requests = {r1, r2}
    Asked <- MCAsked
    Workers = {w1}
    RetryDelay = 1
    AttemptTimeout = 1
    MaxFailures = 1
    MaxAbandons = 1
PROPERTIES
    EveryJobCompletes
    SavedRequestServed
CHECK_DEADLOCK FALSE
