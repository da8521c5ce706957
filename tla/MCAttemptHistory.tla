-------------------------- MODULE MCAttemptHistory --------------------------
(* Instances of AttemptHistory for TLC: one Stripe integration, no events. *)
EXTENDS AttemptHistory

CONSTANTS stripe, es

MCSource == [e \in Events |-> stripe]

MCAsked  == [r \in Requests |-> stripe]

=============================================================================
