----------------------------- MODULE MCJobQueue -----------------------------
(* Instances of JobQueue for TLC.                                          *)
EXTENDS JobQueue, TLC

CONSTANTS stripe, hubspot, es, eh, w1, w2

\* The event es comes from Stripe, every other one from HubSpot.
MCSource == [e \in Events |-> IF e = es THEN stripe ELSE hubspot]

\* Every request wants the Stripe sync, so that requests meet each other.
MCAsked  == [r \in Requests |-> stripe]

\* The replicas of the service run the same loop; so do the sync requests.
Symmetry == Permutations(Workers) \cup Permutations(Requests)

=============================================================================
