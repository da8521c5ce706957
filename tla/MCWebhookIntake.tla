-------------------------- MODULE MCWebhookIntake --------------------------
(* Instances of WebhookIntake for TLC.                                     *)
EXTENDS WebhookIntake

CONSTANTS e1, e2

\* The same two events in both orders, one of them named twice, and a batch that
\* is refused after its first event.
MCBatches == {<<e1, e2>>, <<e2, e1, e2>>, <<e2, Malformed>>}

=============================================================================
