\* Deliveries of batches that overlap, with fairness; one dies or loses its answer.
SPECIFICATION FairSpec
CONSTANTS
    e1 = e1
    e2 = e2
    Events = {e1, e2}
    Malformed = Malformed
    Batches <- MCBatches
    Deliveries = {d1, d2, d3}
    MaxAborts = 1
INVARIANTS
    TypeOK
    AckedIsStored
    OneJobPerEvent
PROPERTIES
    ImplementsInbox
    EveryDeliveryAnswered
