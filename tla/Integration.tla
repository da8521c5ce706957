---------------------------- MODULE Integration ----------------------------
(***************************************************************************)
(* The row of table integrations of one provider: owners save keys into    *)
(* it, sync attempts read the key at their start and write the status they *)
(* found at their end.  In between, the owner may have saved another key   *)
(* and the provider may have revoked one.                                  *)
(*                                                                         *)
(* What the queue guarantees is taken from JobQueue: a job is claimed by   *)
(* at most one attempt at a time and is retried until one succeeds.  The   *)
(* claim lives on a connection of its own.  An attempt that loses it goes  *)
(* on astray, over the pool, while the job is taken again, and writes its  *)
(* status when it is done.  Attempts of Stripe events read the key and     *)
(* never touch the status; they are left out.                              *)
(***************************************************************************)
EXTENDS Naturals, FiniteSets

CONSTANTS
    Keys,           \* well-formed keys an owner may enter
    NoKey,
    Savers,         \* calls of Save that may run at the same time
    Jobs,           \* sync jobs: requested ones, and those of HubSpot events
    MaxSaves,       \* bound: calls of Save
    MaxFailures,    \* bound: listings that fail although the key is good
    MaxLosses       \* bound: attempts that lose their claim, die, time out or fail to
                    \* write the status

ASSUME IntegrationAssumption ==
    /\ NoKey \notin Keys
    /\ MaxSaves \in Nat /\ MaxFailures \in Nat /\ MaxLosses \in Nat

VARIABLES
    provider,   \* which of the two services this is; never changes
    valid,      \* keys the provider accepts
    row,        \* the committed row
    saver,      \* per call of Save, what it is about to write
    job,        \* per job, its latest attempt
    stray,      \* per loss, the attempt that goes on without its claim
    late,       \* history: such an attempt was the last to write the status
    used        \* how much of each bound is used up

vars == <<provider, valid, row, saver, job, stray, late, used>>

-----------------------------------------------------------------------------
\* "none": no row yet.  "error" stands for the status and its last_error;
\* "secret" tells whether a webhook secret other than "" is stored.
Row == [key : Keys \cup {NoKey}, secret : BOOLEAN, status : {"none", "active", "error"}]

Save == [pc : {"idle", "writing"}, key : Keys \cup {NoKey}, secret : BOOLEAN]

NoSave == [pc |-> "idle", key |-> NoKey, secret |-> FALSE]

\* "recorded" and "finished": the status is written, the job's row not yet.
Attempt == [pc : {"none", "due", "loaded", "failed", "recorded", "synced", "finished", "done"},
            key : Keys \cup {NoKey}]

NoAttempt == [pc |-> "none", key |-> NoKey]

Losses == 1 .. MaxLosses

Always == TRUE

\* EnqueueSync finds no row to sync before the first Save.
Configured == row.status # "none"

Open(j) == job[j].pc \notin {"none", "done"}

Running(j) == Open(j) /\ job[j].pc # "due"

\* One unfinished stripe_sync per integration; HubSpot events add jobs of their own.
MayEnqueue == provider = "hubspot" \/ \A j \in Jobs : ~Open(j)

Step(j, pc) == [job EXCEPT ![j].pc = pc]

-----------------------------------------------------------------------------
Init ==
    /\ provider \in {"stripe", "hubspot"}
    /\ valid \in SUBSET Keys
    /\ row = [key |-> NoKey, secret |-> FALSE, status |-> "none"]
    /\ saver = [c \in Savers |-> NoSave]
    /\ job = [j \in Jobs |-> NoAttempt]
    /\ stray = [i \in Losses |-> NoAttempt]
    /\ late = FALSE
    /\ used = [saves |-> 0, failures |-> 0, losses |-> 0]

\* The provider stops accepting a key.
Revoke(k) ==
    /\ k \in valid
    /\ valid' = valid \ {k}
    /\ UNCHANGED <<provider, row, saver, job, stray, late, used>>

\* A call of the provider with this key is let in.
checkAccess(k) == k \in valid

\* Save, up to its statement: HubSpot's tries the token (checkAccess), Stripe's
\* looks at its prefix only.
Check(c, k, secret) ==
    /\ saver[c].pc = "idle"
    /\ used.saves < MaxSaves
    /\ provider = "hubspot" => checkAccess(k)
    /\ saver' = [saver EXCEPT ![c] = [pc |-> "writing", key |-> k, secret |-> secret]]
    /\ used' = [used EXCEPT !.saves = @ + 1]
    /\ UNCHANGED <<provider, valid, row, job, stray, late>>

SecretEntered(c) == saver[c].secret

\* CASE WHEN $4 THEN EXCLUDED.webhook_secret_ciphertext ELSE the stored one
KeptSecret(c) == row.secret \/ saver[c].secret

\* INSERT ... ON CONFLICT DO UPDATE
Write(c) ==
    /\ saver[c].pc = "writing"
    /\ row' = [key |-> saver[c].key, secret |-> KeptSecret(c), status |-> "active"]
    /\ late' = FALSE
    /\ saver' = [saver EXCEPT ![c] = NoSave]
    /\ UNCHANGED <<provider, valid, job, stray, used>>

\* The owner's request ends before its statement.
GiveUp(c) ==
    /\ saver[c].pc = "writing"
    /\ saver' = [saver EXCEPT ![c] = NoSave]
    /\ UNCHANGED <<provider, valid, row, job, stray, late, used>>

\* A sync is requested, or a HubSpot event arrives.
Enqueue(j) ==
    /\ job[j].pc = "none"
    /\ Configured /\ MayEnqueue
    /\ job' = Step(j, "due")
    /\ UNCHANGED <<provider, valid, row, saver, stray, late, used>>

\* The key of the first attempt is kept for the retries.
LoadOnce(j) ==
    /\ job[j].pc = "due"
    /\ job' = [job EXCEPT ![j].pc = "loaded", ![j].key = IF @ = NoKey THEN row.key ELSE @]
    /\ UNCHANGED <<provider, valid, row, saver, stray, late, used>>

\* A worker claims the job and reads the integration (load).
Load(j) ==
    /\ job[j].pc = "due"
    /\ job' = [job EXCEPT ![j] = [pc |-> "loaded", key |-> row.key]]
    /\ UNCHANGED <<provider, valid, row, saver, stray, late, used>>

\* Listing and storing went well.
Succeed(j) ==
    /\ job[j].pc = "loaded" /\ checkAccess(job[j].key)
    /\ job' = Step(j, "synced")
    /\ UNCHANGED <<provider, valid, row, saver, stray, late, used>>

\* The provider refuses the key.
Refuse(j) ==
    /\ job[j].pc = "loaded" /\ ~checkAccess(job[j].key)
    /\ job' = Step(j, "failed")
    /\ UNCHANGED <<provider, valid, row, saver, stray, late, used>>

\* Anything else goes wrong while listing or storing.
Fail(j) ==
    /\ job[j].pc = "loaded"
    /\ used.failures < MaxFailures
    /\ job' = Step(j, "failed")
    /\ used' = [used EXCEPT !.failures = @ + 1]
    /\ UNCHANGED <<provider, valid, row, saver, stray, late>>

\* recordSyncError: by the integration's id, whatever key is stored by now.
FailedRow == [row EXCEPT !.status = "error"]

RecordError(j) ==
    /\ job[j].pc = "failed"
    /\ row' = FailedRow
    /\ late' = FALSE
    /\ job' = Step(j, "recorded")
    /\ UNCHANGED <<provider, valid, saver, stray, used>>

\* last_synced_at only, the status of an earlier failure stays.
OnlySyncTime == row

SyncedRow == [row EXCEPT !.status = "active"]

Finish(j) ==
    /\ job[j].pc = "synced"
    /\ row' = SyncedRow
    /\ late' = FALSE
    /\ job' = Step(j, "finished")
    /\ UNCHANGED <<provider, valid, saver, stray, used>>

\* The job's row is committed: completed, or failed and due again.
Close(j) ==
    /\ job[j].pc \in {"recorded", "finished"}
    /\ job' = Step(j, IF job[j].pc = "finished" THEN "done" ELSE "due")
    /\ UNCHANGED <<provider, valid, row, saver, stray, late, used>>

\* The attempt is lost, or its status cannot be written (which HubSpot logs and
\* Stripe ignores after a failure, and which fails the job after a success).
Lose(j) ==
    /\ Running(j)
    /\ used.losses < MaxLosses
    /\ job' = Step(j, "due")
    /\ used' = [used EXCEPT !.losses = @ + 1]
    /\ UNCHANGED <<provider, valid, row, saver, stray, late>>

\* Only the connection with the claim is lost: PostgreSQL releases the job's row,
\* and the sync does not learn of it before it is done.
Cut(j) ==
    /\ job[j].pc \in {"loaded", "failed", "synced"}
    /\ used.losses < MaxLosses
    /\ job' = Step(j, "due")
    /\ stray' = [stray EXCEPT ![used.losses + 1] = job[j]]
    /\ used' = [used EXCEPT !.losses = @ + 1]
    /\ UNCHANGED <<provider, valid, row, saver, late>>

\* Its listing ends well, which takes a good key, or not.
StrayLists(i) ==
    /\ stray[i].pc = "loaded"
    /\ \E pc \in {"synced", "failed"} :
          /\ pc = "synced" => checkAccess(stray[i].key)
          /\ stray' = [stray EXCEPT ![i].pc = pc]
    /\ UNCHANGED <<provider, valid, row, saver, job, late, used>>

\* It writes its status as any attempt does; that its job's row cannot be updated
\* any more (the worker's next statement) comes later.
StrayWrites(i) ==
    /\ stray[i].pc \in {"synced", "failed"}
    /\ row' = IF stray[i].pc = "synced" THEN SyncedRow ELSE FailedRow
    /\ late' = TRUE
    /\ stray' = [stray EXCEPT ![i] = NoAttempt]
    /\ UNCHANGED <<provider, valid, saver, job, used>>

\* It dies, times out or cannot write.
StrayEnds(i) ==
    /\ stray[i].pc # "none"
    /\ stray' = [stray EXCEPT ![i] = NoAttempt]
    /\ UNCHANGED <<provider, valid, row, saver, job, late, used>>

-----------------------------------------------------------------------------
Attempted(j) == Succeed(j) \/ Refuse(j) \/ Fail(j)

Sync(j) == Load(j) \/ Attempted(j) \/ RecordError(j) \/ Finish(j) \/ Close(j)

Next ==
    \/ \E k \in Keys : Revoke(k)
    \/ \E c \in Savers :
          \/ \E k \in Keys, secret \in BOOLEAN : Check(c, k, secret)
          \/ Write(c) \/ GiveUp(c)
    \/ \E j \in Jobs : Enqueue(j) \/ Sync(j) \/ Lose(j) \/ Cut(j)
    \/ \E i \in Losses : StrayLists(i) \/ StrayWrites(i) \/ StrayEnds(i)

Spec == Init /\ [][Next]_vars

\* Workers take every due job again (EveryJobCompletes of JobQueue) and attempts
\* end.  Owners and providers do what they like.
FairSpec == Spec /\ \A j \in Jobs : WF_vars(Sync(j))

-----------------------------------------------------------------------------
(***************************************************************************)
(* Properties                                                              *)
(***************************************************************************)

\* Rows and attempts have their types; an attempt has the key of a saved row.
TypeOK ==
    /\ provider \in {"stripe", "hubspot"}
    /\ valid \subseteq Keys
    /\ row \in Row /\ (row.status # "none" <=> row.key \in Keys)
    /\ saver \in [Savers -> Save]
    /\ job \in [Jobs -> Attempt]
    /\ \A j \in Jobs : Running(j) => job[j].key \in Keys
    /\ stray \in [Losses -> Attempt] /\ late \in BOOLEAN
    /\ \A i \in Losses : stray[i].pc # "none" => stray[i].key \in Keys
    /\ used \in [saves : 0 .. MaxSaves, failures : 0 .. MaxFailures, losses : 0 .. MaxLosses]

\* An integration shows an error only while a sync of it is still to be retried:
\* whichever attempt wrote it, a later one of the same job takes it back before
\* the job completes (service.go, Sync and recordSyncError).  The exception is an
\* attempt that lost its claim: it may write after the job is completed.
ErrorIsRetried == row.status = "error" => late \/ \E j \in Jobs : Open(j)

\* What Dashboard.tsx:389 tells the owner who sees an error: "The last sync failed.
\* The background worker will retry automatically."
EveryErrorIsRetried == row.status = "error" => \E j \in Jobs : Open(j)

\* A webhook secret is never lost to a save that enters only a key, whichever of
\* two concurrent saves the database runs first.
SecretKept == [][row.secret => row'.secret]_vars

\* The status shown in the end is that of the key in use, although attempts with
\* an older key may write theirs after a save: when the stored key stays good the
\* integration ends up active, unless an attempt without its claim has the last
\* word, and when it stays refused and a sync is to be done it ends up in error.
StatusSettles ==
    /\ <>[](row.key \in valid) => <>[](row.status = "active" \/ late)
    /\ <>[](Configured /\ row.key \notin valid /\ \E j \in Jobs : Open(j))
          => <>[](row.status = "error")

=============================================================================
