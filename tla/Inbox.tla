------------------------------- MODULE Inbox -------------------------------
(***************************************************************************)
(* What the webhook endpoints promise a provider: a batch of events is     *)
(* stored as a whole or not at all, every stored event has one job, and    *)
(* only stored events are acknowledged.                                    *)
(***************************************************************************)
EXTENDS Naturals

CONSTANTS Events, Batches

VARIABLES
    stored,     \* events in the durable inbox
    jobs,       \* per event, the jobs that will process it
    acked       \* batches the provider knows to be received

vars == <<stored, jobs, acked>>

EventsOf(b) == {b[i] : i \in DOMAIN b}

JobsFor(S) == [e \in Events |-> IF e \in S THEN 1 ELSE 0]

Init == stored = {} /\ jobs = JobsFor({}) /\ acked = {}

Store(b) ==
    /\ EventsOf(b) \subseteq Events
    /\ stored' = stored \cup EventsOf(b)
    /\ jobs' = JobsFor(stored')
    /\ UNCHANGED acked

Acknowledge(b) ==
    /\ EventsOf(b) \subseteq stored
    /\ acked' = acked \cup {b}
    /\ UNCHANGED <<stored, jobs>>

Next == \E b \in Batches : Store(b) \/ Acknowledge(b)

Spec == Init /\ [][Next]_vars

=============================================================================
