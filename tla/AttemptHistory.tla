--------------------------- MODULE AttemptHistory ---------------------------
(***************************************************************************)
(* JobQueue with a history variable that records when attempts failed, to  *)
(* compare the retry delay of processNext with what the README says of     *)
(* it.  No guard reads it.                                                 *)
(***************************************************************************)
EXTENDS JobQueue

VARIABLE
    failedAt    \* per job whose last attempt failed, when it did

hvars == <<vars, failedAt>>

HInit == Init /\ failedAt = [j \in {} |-> 0]

\* The attempt fails: its processor returns an error or its ten minutes are over.
Fails(w) == Fail(w) \/ Timeout(w)

\* The claim is lost before the attempt has an outcome.
IsLost(w) == Abandon(w) \/ Cut(w)

JobsThat(Ends(_)) == {worker[w].job : w \in {w \in Workers : Busy(w) /\ Ends(w)}}

HNext ==
    /\ Next
    /\ failedAt' = [j \in (DOMAIN failedAt \cup JobsThat(Fails)) \ JobsThat(IsLost)
                      |-> IF j \in JobsThat(Fails) THEN now ELSE failedAt[j]]

HSpec == HInit /\ [][HNext]_hvars

\* README.md:51, "failed jobs retry after 30 seconds": the next attempt of a job
\* comes at least RetryDelay after its last one failed.
RetryAfterDelay ==
    [][\A w \in Workers :
          ~Busy(w) /\ Busy(w)' /\ worker'[w].job \in DOMAIN failedAt
             => now >= failedAt[worker'[w].job] + RetryDelay]_hvars

=============================================================================
