----------------------------- MODULE Lifecycle -----------------------------
(***************************************************************************)
(* One process (cmd/api): login requests, the worker and main share a pool *)
(* of PostgreSQL connections and a Redis client until a signal ends them.  *)
(*                                                                         *)
(* Requests use one connection at a time; logins stand for all of them.    *)
(* The worker keeps one for the transaction of its attempt and, for a      *)
(* sync, takes a second one again and again.  A signal cancels the         *)
(* worker's context at once; main lets the requests finish for 15 seconds, *)
(* closes their connections after that, waits for the worker, closes Redis *)
(* and waits until the pool has got every connection back.                 *)
(***************************************************************************)
EXTENDS LoginRate

CONSTANT
    MaxConns    \* connections of the pool, 10 in the code

ASSUME PoolAssumption == MaxConns \in Nat /\ MaxConns > 1

VARIABLES
    phase,      \* how far main is
    forced,     \* the 15 seconds were over: server.Close
    use,        \* per login, the statement it is at
    worker      \* how far the worker is

vars == <<counter, login, passed, phase, forced, use, worker>>

-----------------------------------------------------------------------------
Phases == {"running", "draining", "stopping", "closing", "exited"}

\* Login reads the user and then writes the session in a transaction.
Statement == [at : {"none", "query", "session"}, holds : BOOLEAN]

NoStatement == [at |-> "none", holds |-> FALSE]

\* "attempt" has the connection of the attempt, "working" a second one.
WorkerStates == {"asleep", "begins", "attempt", "asks", "working", "stopped"}

KeepsFirst(l) ==
    CASE use[l].at = "query" /\ use[l].holds    -> 1
      [] use[l].at = "session" /\ ~use[l].holds -> 1
      [] use[l].at = "session" /\ use[l].holds  -> 2
      [] OTHER                                  -> 0

\* QueryRow(...).Scan gives its connection back before Begin asks for the next.
HeldBy(l) == IF use[l].holds THEN 1 ELSE 0

HeldByWorker ==
    CASE worker \in {"attempt", "asks"} -> 1
      [] worker = "working"             -> 2
      [] OTHER                          -> 0

\* No more than the pool has, whoever holds them.
Held(ls) == Cardinality({conn \in ls \X {1, 2} : conn[2] <= HeldBy(conn[1])})

Available == Held(Logins) + HeldByWorker < MaxConns

PoolOpen == phase \notin {"closing", "exited"}

\* pool.Close lets nobody acquire any more.
MayAcquire == Available /\ PoolOpen

Never == FALSE

\* The signal's context is the parent of the worker's.
WorkerCancelled == phase # "running"

RedisOpen == phase \notin {"closing", "exited"}

-----------------------------------------------------------------------------
Init ==
    /\ RateInit
    /\ phase = "running"
    /\ forced = FALSE
    /\ use = [l \in Logins |-> NoStatement]
    /\ worker = "asleep"

(***************************************************************************)
(* Login requests                                                          *)
(***************************************************************************)

Accept(l) == phase = "running" /\ Arrive(l) /\ UNCHANGED <<phase, forced, use, worker>>

CountLogin(l) ==
    /\ RedisOpen
    /\ Incr(l) \/ Expire(l)
    /\ UNCHANGED <<phase, forced, use, worker>>

UseSet(l, statement) ==
    /\ use' = [use EXCEPT ![l] = statement]
    /\ UNCHANGED <<counter, login, passed, phase, forced, worker>>

StartLogin(l) ==
    /\ login[l].pc = "allowed" /\ use[l].at = "none"
    /\ UseSet(l, [at |-> "query", holds |-> FALSE])

Acquire(l) ==
    /\ use[l].at # "none" /\ ~use[l].holds
    /\ MayAcquire
    /\ UseSet(l, [use[l] EXCEPT !.holds = TRUE])

\* The password matched.
StartSession(l) ==
    /\ use[l].at = "query" /\ use[l].holds
    /\ UseSet(l, [at |-> "session", holds |-> FALSE])

EndLogin(l) ==
    /\ End(l)
    /\ use' = [use EXCEPT ![l] = NoStatement]
    /\ UNCHANGED <<phase, forced, worker>>

\* Refused, not a member, or the session is committed.
Answer(l) == (login[l].pc = "refused" \/ use[l].holds) /\ EndLogin(l)

\* The request's context is cancelled, or Redis or PostgreSQL fails: any statement
\* or wait ends with an error.
Leave(l) == EndLogin(l)

(***************************************************************************)
(* The worker                                                              *)
(***************************************************************************)

WorkerGoto(from, to) ==
    /\ worker = from
    /\ worker' = to
    /\ UNCHANGED <<counter, login, passed, phase, forced, use>>

Poll          == ~WorkerCancelled /\ WorkerGoto("asleep", "begins")
BeginAttempt  == MayAcquire /\ WorkerGoto("begins", "attempt")
\* A sync; a Stripe event needs only the attempt's transaction.
AskSecond     == WorkerGoto("attempt", "asks")
AcquireSecond == MayAcquire /\ WorkerGoto("asks", "working")
ReleaseSecond == WorkerGoto("working", "attempt")
\* Committed or rolled back, or there was no job.
EndAttempt    == WorkerGoto("attempt", "asleep")
\* An error, or ten minutes are over: every statement and wait fails.
FailAttempt   == \E from \in {"begins", "asks", "working"} : WorkerGoto(from, "asleep")
\* Statements fail, transactions are rolled back, the loop ends.
StopWorker    == WorkerCancelled /\ \E from \in WorkerStates \ {"stopped"} : WorkerGoto(from, "stopped")

(***************************************************************************)
(* main                                                                    *)
(***************************************************************************)

Requests == {l \in Logins : login[l].pc # "none"}

Signal ==
    /\ phase = "running"
    /\ phase' = "draining"
    /\ UNCHANGED <<counter, login, passed, forced, use, worker>>

\* server.Shutdown returns: no request is left or the 15 seconds are over.  The
\* latter makes server.Close cancel what is left.
StopServer ==
    /\ phase = "draining"
    /\ phase' = "stopping"
    /\ forced' = (Requests # {})
    /\ UNCHANGED <<counter, login, passed, use, worker>>

\* <-workerDone, then the deferred resources.Close.
AwaitWorker ==
    /\ phase = "stopping"
    /\ worker = "stopped"
    /\ phase' = "closing"
    /\ UNCHANGED <<counter, login, passed, forced, use, worker>>

\* The process is gone, and with it all requests; the key in Redis stays.
Exit ==
    /\ phase' = "exited"
    /\ login' = [l \in Logins |-> NoRequest]
    /\ use' = [l \in Logins |-> NoStatement]
    /\ worker' = "stopped"
    /\ UNCHANGED <<counter, passed, forced>>

ClosePool ==
    /\ phase = "closing"
    /\ Held(Logins) + HeldByWorker = 0
    /\ Exit

\* A crash, SIGKILL, or the Fatal of a server that cannot listen: nothing is
\* deferred.
Die == phase # "exited" /\ Exit

Restart ==
    /\ phase = "exited"
    /\ phase' = "running"
    /\ forced' = FALSE
    /\ worker' = "asleep"
    /\ UNCHANGED <<counter, login, passed, use>>

PassTime == Tick /\ UNCHANGED <<phase, forced, use, worker>>

-----------------------------------------------------------------------------
Proceed(l) ==
    CountLogin(l) \/ StartLogin(l) \/ StartSession(l) \/ Answer(l) \/ (forced /\ Leave(l))

Work ==
    \/ Poll \/ BeginAttempt \/ AskSecond \/ AcquireSecond \/ ReleaseSecond
    \/ EndAttempt \/ FailAttempt \/ StopWorker

Shutdown == StopServer \/ AwaitWorker \/ ClosePool

Next ==
    \/ \E l \in Logins : Accept(l) \/ Proceed(l) \/ Acquire(l) \/ Leave(l)
    \/ Work
    \/ Signal \/ Shutdown \/ Die \/ Restart
    \/ PassTime

Spec == Init /\ [][Next]_vars

\* Requests and main run on, time passes, and the pool serves waiters in the order
\* they came.  The worker finishes what it has begun: a sync stops asking for
\* connections and an attempt ends by itself or by its timeout.  Clients, signals
\* and crashes do what they like.
Fairness ==
    /\ \A l \in Logins : WF_vars(Proceed(l)) /\ SF_vars(Acquire(l))
    /\ SF_vars(BeginAttempt) /\ SF_vars(AcquireSecond)
    /\ WF_vars(ReleaseSecond) /\ SF_vars(EndAttempt) /\ WF_vars(StopWorker)
    /\ WF_vars(Shutdown)
    /\ WF_vars(PassTime)

FairSpec == Spec /\ Fairness

-----------------------------------------------------------------------------
(***************************************************************************)
(* Properties                                                              *)
(***************************************************************************)

\* Requests, counter and connections have their types.
TypeOK ==
    /\ RateTypeOK
    /\ phase \in Phases /\ forced \in BOOLEAN
    /\ use \in [Logins -> Statement]
    /\ \A l \in Logins : use[l].at # "none" => login[l].pc = "allowed"
    /\ worker \in WorkerStates
    /\ Held(Logins) + HeldByWorker <= MaxConns

\* Nobody waits for ever for a connection (resources.go:27): neither the requests
\* nor the worker, which keeps one while it asks for another.
EveryWaiterServed ==
    /\ \A l \in Logins : use[l].at # "none" /\ ~use[l].holds ~> use[l].holds \/ use[l].at = "none"
    /\ worker = "asks" ~> worker # "asks"

\* A signal ends the process, whatever requests and the worker are doing: the wait
\* for the worker and that for the pool both come to an end (main.go:75-108).
ShutdownEnds == phase = "draining" ~> phase = "exited"

=============================================================================
